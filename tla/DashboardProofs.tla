-------------------------- MODULE DashboardProofs --------------------------
(***************************************************************************)
(* Theorems about Dashboard, for any people, configs and bounds: every     *)
(* variable keeps its shape; without the admin role a browser at most      *)
(* switches configs off and on, whatever page it still shows; what a page  *)
(* offers is done unless somebody overtook it; and a config goes to        *)
(* somebody who is active.                                                 *)
(***************************************************************************)
EXTENDS Dashboard, SequenceTheorems, TLAPS

-----------------------------------------------------------------------------
(* The shapes of calls and dialogs, which TypeOK leaves out *)

CallOps == {"assign", "return", "disable", "enable", "revoke", "generate",
            "suspend", "reactivate", "file", "own"}

\* The transitions of a config's row.
Moves == {"assign", "return", "disable", "enable", "revoke"}

\* What each call names: a config, or a person, or oneself; only somebody who is
\* given a config can be new.
Named(op, c, p, new) ==
  /\ op \in Moves \cup {"file", "own"} => c \in Configs
  /\ op \in {"generate", "suspend", "reactivate"} => c = None
  /\ op \in {"assign", "suspend", "reactivate"} => p \in People
  /\ op = "own" => p = Me
  /\ new => op \in {"assign", "generate"} /\ p \in People

Calls ==
  {h \in [op: CallOps, cfg: Configs \cup {None}, who: People \cup {None},
          new: BOOLEAN, clean: BOOLEAN] : Named(h.op, h.cfg, h.who, h.new)}

Dialogs ==
  {d \in [kind: {"none", "assign", "return", "revoke", "suspend", "generate"},
          cfg: Configs \cup {None}, who: People \cup {None}, clean: BOOLEAN] :
     /\ IF d.kind \in {"assign", "return", "revoke"} THEN d.cfg \in Configs ELSE d.cfg = None
     /\ d.kind = "suspend" => d.who \in People}

PageTyped(pg) == pg.role \in Roles /\ pg.options \subseteq People /\ pg.rows \in [Configs -> Statuses]

CallsTyped == calls \in Seq(Calls) /\ Len(calls) + others <= MaxPending

BrowserTyped ==
  /\ PageTyped(page) /\ dialog \in Dialogs
  /\ busy \subseteq Configs \cup People /\ undo \subseteq Configs

Typed == server \in Server /\ claims \in Roles /\ others \in Nat /\ CallsTyped /\ BrowserTyped

-----------------------------------------------------------------------------
(* The server's rows *)

\* A write of one config keeps the shape of the server.
LEMMA SetConfigTyped ==
  ASSUME NEW s \in Server, NEW c, NEW status \in Statuses, NEW owner \in People \cup {None}
  PROVE  SetConfig(s, c, status, owner) \in Server
  BY DEF SetConfig, Server

\* The same of a write of its status alone.
LEMMA SetStatusTyped ==
  ASSUME NEW s \in Server, NEW c, NEW status \in Statuses
  PROVE  SetStatus(s, c, status) \in Server
<1> DEFINE cfg == [s.config EXCEPT ![c].status = status]
<1>1. cfg \in [Configs -> [status: Statuses, owner: People \cup {None}]]
  BY DEF Server
<1>2. SetStatus(s, c, status) = [s EXCEPT !.config = cfg]
  BY DEF SetStatus, Server
<1> QED BY <1>1, <1>2 DEF Server

\* So does a write about a person.
LEMMA NewPersonTyped ==
  ASSUME NEW s \in Server, NEW p
  PROVE  NewPerson(s, p) \in Server
  BY DEF NewPerson, Server, RowStates

\* A suspension, which switches several configs off, keeps it.
LEMMA SuspendedTyped ==
  ASSUME NEW s \in Server, NEW p, NEW kept
  PROVE  Suspended(s, p, kept) \in Server
<1>1. Suspended(s, p, kept).config \in [Configs -> [status: Statuses, owner: People \cup {None}]]
  BY DEF Suspended, Server, Statuses
<1>2. Suspended(s, p, kept).row \in [People -> RowStates]
  BY DEF Suspended, Server, RowStates
<1>3. Suspended(s, p, kept).clerk \in [People -> ClerkStates]
  BY DEF Suspended, Server, ClerkStates
<1> QED BY <1>1, <1>2, <1>3 DEF Server, Suspended

\* A reactivation keeps it.
LEMMA ReactivatedTyped ==
  ASSUME NEW s \in Server, NEW p
  PROVE  Reactivated(s, p) \in Server
<1>1. Reactivated(s, p).row \in [People -> RowStates]
  BY DEF Reactivated, Server, RowStates
<1>2. Reactivated(s, p).clerk \in [People -> ClerkStates]
  BY DEF Reactivated, Server, ClerkStates
<1> QED BY <1>1, <1>2 DEF Server, Reactivated

\* A sync keeps the shape, and touches no config.
LEMMA SyncedTyped ==
  ASSUME NEW s \in Server
  PROVE  Synced(s) \in Server /\ Synced(s).config = s.config
  BY DEF Synced, Server, RowStates, StatusOf, InClerk

\* The same of the state a page leaves behind when it has read the list.
LEMMA AfterTyped ==
  ASSUME NEW s \in Server, NEW got
  PROVE  After(s, got) \in Server /\ After(s, got).config = s.config
  BY SyncedTyped DEF After

\* Whatever a page shows of the rows has the shape of a page.
LEMMA RenderedTyped ==
  ASSUME NEW s \in Server, NEW kind, NEW who, NEW role \in Roles, NEW got
  PROVE  PageTyped(Rendered(s, kind, who, role, got))
<1>1. PageTyped(NoPage)
  BY DEF PageTyped, NoPage, Roles, Statuses
<1>2. PageTyped(ConfigsPage(s, role, got))
  BY DEF PageTyped, ConfigsPage, NoPage, Assignable, Server
<1>3. PageTyped(UsersPage(s, role, got))
  BY DEF PageTyped, UsersPage, NoPage, Statuses
<1>4. PageTyped(UserDetailPage(s, who, role, got))
  BY DEF PageTyped, UserDetailPage, NoPage, Server, Statuses
<1>5. PageTyped(MePage(s, role))
  BY DEF PageTyped, MePage, NoPage, Server, Statuses
<1> QED BY <1>1, <1>2, <1>3, <1>4, <1>5 DEF Rendered

-----------------------------------------------------------------------------
(* The queue of calls *)

\* Calls are built with the fields they need.
LEMMA CallTyped ==
  ASSUME NEW op \in CallOps, NEW c \in Configs \cup {None}, NEW p \in People \cup {None},
         NEW new \in BOOLEAN, NEW clean \in BOOLEAN, Named(op, c, p, new)
  PROVE  Call(op, c, p, new, clean) \in Calls
  BY DEF Call, Calls

\* A call that is sent finds room, and the queue keeps its shape.
LEMMA SendTyped ==
  ASSUME CallsTyped, others \in Nat, NEW call \in Calls, Send(call), others' = others
  PROVE  CallsTyped'
<1>1. calls' \in Seq(Calls) /\ Len(calls') = Len(calls) + 1
  BY DEF CallsTyped, Send
<1>2. Len(calls) \in Nat
  BY LenProperties DEF CallsTyped
<1> QED BY <1>1, <1>2, DashboardAssumption DEF CallsTyped, Send

\* Marking calls changes neither their number nor their shape.
LEMMA MarkedTyped ==
  ASSUME NEW q \in Seq(Calls), NEW changed
  PROVE  Marked(q, changed) \in Seq(Calls) /\ Len(Marked(q, changed)) = Len(q)
<1>1. ASSUME NEW i \in 1 .. Len(q)
      PROVE  Marked(q, changed)[i] \in Calls
  <2>1. q[i] \in Calls
    BY ElementOfSeq, <1>1
  <2>2. [q[i] EXCEPT !.clean = FALSE] \in Calls
    BY <2>1 DEF Calls
  <2> QED BY <2>1, <2>2 DEF Marked
<1>2. Len(q) \in Nat
  BY LenProperties
<1>3. Marked(q, changed) \in [1 .. Len(q) -> Calls]
  BY <1>1 DEF Marked
<1> QED BY <1>2, <1>3, SeqDef

\* A dialog that is doubted is the dialog, but for the doubt.
LEMMA DoubtedTyped ==
  ASSUME dialog \in Dialogs, NEW changed
  PROVE  Doubted(changed) \in Dialogs
<1>1. (dialog.clean /\ {dialog.cfg, dialog.who} \cap changed = {}) \in BOOLEAN
  OBVIOUS
<1> QED BY <1>1 DEF Doubted, Dialogs

\* A page that is rendered again touches no config, and keeps every shape.
LEMMA RefreshTyped ==
  ASSUME Typed, NEW s \in Server, NEW got, NEW rest \in Seq(Calls), NEW ended, NEW own,
         Refresh(s, got, rest, ended, own)
  PROVE  /\ server' \in Server /\ server'.config = s.config
         /\ PageTyped(page') /\ dialog' \in Dialogs
         /\ calls' \in Seq(Calls) /\ Len(calls') = Len(rest)
<1>1. server' \in Server /\ server'.config = s.config
  BY AfterTyped DEF Refresh
<1>2. PageTyped(page')
  <2>1. PageTyped(NoPage)
    BY DEF PageTyped, NoPage, Roles, Statuses
  <2>2. PageTyped(Rendered(s, page.kind, page.who, claims, got))
    BY RenderedTyped DEF Typed
  <2>3. page' \in {NoPage, Rendered(s, page.kind, page.who, claims, got)}
    BY DEF Refresh
  <2> QED BY <2>1, <2>2, <2>3
<1>3. dialog' \in Dialogs
  <2>1. NoDialog \in Dialogs
    BY DEF NoDialog, Dialogs
  <2>2. \A x : Doubted(x) \in Dialogs
    BY DoubtedTyped DEF Typed, BrowserTyped
  <2>3. \E x : dialog' \in {NoDialog, Doubted(x)}
    BY DEF Refresh
  <2> QED BY <2>1, <2>2, <2>3
<1>4. \E x : calls' = Marked(rest, x)
  BY DEF Refresh
<1> QED BY <1>1, <1>2, <1>3, <1>4, MarkedTyped

\* A step of the rest of the world is counted, and keeps every shape.
LEMMA BehindTyped ==
  ASSUME Typed, NEW t \in Server, Behind(t)
  PROVE  Typed' /\ others' # others
<1>1. Len(calls) \in Nat /\ others \in Nat /\ MaxPending \in Nat
  BY LenProperties, DashboardAssumption DEF Typed, CallsTyped
<1>2. others' = others + 1 /\ others' \in Nat /\ Len(calls) + others' <= MaxPending
  BY <1>1 DEF Behind, Noticed
<1>3. calls' \in Seq(Calls) /\ Len(calls') = Len(calls)
  BY MarkedTyped DEF Behind, Typed, CallsTyped
<1>4. dialog' \in Dialogs
  BY DoubtedTyped DEF Behind, Typed, BrowserTyped
<1>5. server' = t /\ UNCHANGED <<claims, page, busy, undo>>
  BY DEF Behind
<1> QED BY <1>1, <1>2, <1>3, <1>4, <1>5 DEF Typed, CallsTyped, BrowserTyped, PageTyped

-----------------------------------------------------------------------------
(* The actions *)

\* What a browser does by itself keeps every shape, and touches no config.
LEMMA BrowseTyped ==
  ASSUME Typed, Browse
  PROVE  Typed' /\ server'.config = server.config /\ others' = others
<1> USE DashboardAssumption
<1> DEFINE Kept == server' = server /\ claims' = claims /\ page' = page /\ others' = others
           Ended == Typed' /\ server'.config = server.config /\ others' = others
<1>0. others \in Nat /\ NoDialog \in Dialogs
  BY DEF Typed, NoDialog, Dialogs
<1>1. ASSUME NEW call \in Calls, Send(call), Kept, dialog' \in Dialogs,
             busy' \subseteq Configs \cup People, undo' \subseteq Configs
      PROVE  Ended
  <2>1. CallsTyped'
    BY <1>1, <1>0, SendTyped DEF Typed
  <2> QED BY <2>1, <1>1 DEF Typed, BrowserTyped, PageTyped
<1>2. ASSUME Kept, UNCHANGED <<calls, busy>>, dialog' \in Dialogs, undo' \subseteq Configs
      PROVE  Ended
  BY <1>2 DEF Typed, CallsTyped, BrowserTyped, PageTyped
<1>3. dialog \in Dialogs /\ busy \subseteq Configs \cup People /\ undo \subseteq Configs
  BY DEF Typed, BrowserTyped
<1>4. ASSUME NEW kind, NEW who, NEW got, Open(kind, who, got)
      PROVE  Ended
  <2>1. server' \in Server /\ server'.config = server.config
    BY <1>4, AfterTyped DEF Open, Typed
  <2>2. PageTyped(page')
    BY <1>4, RenderedTyped DEF Open, Typed
  <2>3. calls' \in Seq(Calls) /\ Len(calls') = Len(calls)
    BY <1>4, MarkedTyped DEF Open, Typed, CallsTyped
  <2>4. UNCHANGED <<claims, dialog, undo, others>> /\ busy' = {}
    BY <1>4 DEF Open
  <2> QED BY <2>1, <2>2, <2>3, <2>4, <1>3 DEF Typed, CallsTyped, BrowserTyped, PageTyped
<1>5. ASSUME NEW c \in Configs, NEW op \in {"disable", "enable"}, Press(c, op)
      PROVE  Ended
  <2>1. Call(op, c, None, FALSE, Fresh(c)) \in Calls
    BY CallTyped DEF CallOps, Fresh, Named, Moves
  <2> QED BY <2>1, <1>1, <1>3, <1>5 DEF Press
<1>6. ASSUME NEW c \in Configs, Retrieve(c)
      PROVE  Ended
  <2>1. Call("file", c, None, FALSE, Fresh(c)) \in Calls
    BY CallTyped DEF CallOps, Fresh, Named, Moves
  <2> QED BY <2>1, <1>1, <1>3, <1>6 DEF Retrieve
<1>7. ASSUME NEW c \in Configs, RetrieveOwn(c)
      PROVE  Ended
  <2>1. Call("own", c, Me, FALSE, Fresh(c) /\ Fresh(Me)) \in Calls
    BY CallTyped DEF CallOps, Fresh, Named, Moves
  <2> QED BY <2>1, <1>1, <1>3, <1>7 DEF RetrieveOwn
<1>8. ASSUME NEW c \in Configs, NEW op \in {"assign", "return", "revoke"}, OpenConfig(c, op)
      PROVE  Ended
  <2>1. [kind |-> op, cfg |-> c, who |-> None, clean |-> Fresh(c)] \in Dialogs
    BY DEF Dialogs, Fresh
  <2> QED BY <2>1, <1>2, <1>3, <1>8 DEF OpenConfig
<1>9. ASSUME NEW c \in Configs, Undo(c)
      PROVE  Ended
  <2>1. Call("enable", c, None, FALSE, FALSE) \in Calls
    BY CallTyped DEF CallOps, Named, Moves
  <2>2. dialog' \in Dialogs
    BY <1>3, <1>9, DoubtedTyped DEF Undo
  <2> QED BY <2>1, <2>2, <1>1, <1>3, <1>9 DEF Undo
<1>10. ASSUME NEW c \in Configs, ToastEnds(c)
       PROVE  Ended
  BY <1>2, <1>3, <1>10 DEF ToastEnds
<1>11. ASSUME NEW p \in People, OpenPerson(p)
       PROVE  Ended
  <2>1. [kind |-> "suspend", cfg |-> None, who |-> p, clean |-> Fresh(p)] \in Dialogs
    BY DEF Dialogs, Fresh
  <2> QED BY <2>1, <1>2, <1>3, <1>11 DEF OpenPerson
<1>12. ASSUME NEW p \in People, Reactivate(p)
       PROVE  Ended
  <2>1. Call("reactivate", None, p, FALSE, Fresh(p)) \in Calls
    BY CallTyped DEF CallOps, Fresh, Named, Moves
  <2> QED BY <2>1, <1>1, <1>3, <1>12 DEF Reactivate
<1>13. ASSUME NEW p \in People, ConfirmAssign(p)
       PROVE  Ended
  <2>1. dialog.cfg \in Configs /\ dialog.clean \in BOOLEAN
    BY <1>3, <1>13 DEF ConfirmAssign, Dialogs
  <2>2. (dialog.clean /\ Fresh(p)) \in BOOLEAN /\ ReadAsNew(p) \in BOOLEAN
    BY DEF Fresh, ReadAsNew
  <2>3. Call("assign", dialog.cfg, p, ReadAsNew(p), dialog.clean /\ Fresh(p)) \in Calls
    BY <2>1, <2>2, CallTyped DEF CallOps, Named, Moves
  <2> QED BY <2>1, <2>3, <1>0, <1>1, <1>3, <1>13 DEF ConfirmAssign
<1>14. ASSUME NEW p \in People \cup {None}, Submit(p)
       PROVE  Ended
  <2>1. (p # None /\ ReadAsNew(p)) \in BOOLEAN /\ Fresh(p) \in BOOLEAN
    BY DEF Fresh, ReadAsNew
  <2>2. Call("generate", None, p, p # None /\ ReadAsNew(p), Fresh(p)) \in Calls
    BY <2>1, CallTyped DEF CallOps, Named, Moves
  <2> QED BY <2>2, <1>1, <1>3, <1>14 DEF Submit
<1>15. CASE Focus
  <2>1. PICK got : Refresh(server, got, calls, "", None)
    BY <1>15 DEF Focus
  <2>2. /\ server' \in Server /\ server'.config = server.config
        /\ PageTyped(page') /\ dialog' \in Dialogs
        /\ calls' \in Seq(Calls) /\ Len(calls') = Len(calls)
    BY <2>1, RefreshTyped DEF Typed, CallsTyped
  <2>3. UNCHANGED <<claims, busy, undo, others>>
    BY <1>15 DEF Focus
  <2> QED BY <2>2, <2>3, <1>3 DEF Typed, CallsTyped, BrowserTyped, PageTyped
<1>16. CASE OpenGenerate
  <2>1. [NoDialog EXCEPT !.kind = "generate"] \in Dialogs
    BY DEF NoDialog, Dialogs
  <2> QED BY <2>1, <1>2, <1>3, <1>16 DEF OpenGenerate
<1>17. CASE Cancel
  BY <1>0, <1>2, <1>3, <1>17 DEF Cancel
<1>18. CASE Confirm
  <2>1. dialog.cfg \in Configs /\ dialog.clean \in BOOLEAN /\ dialog.kind \in {"return", "revoke"}
    BY <1>3, <1>18 DEF Confirm, Dialogs
  <2>2. Call(dialog.kind, dialog.cfg, None, FALSE, dialog.clean) \in Calls
    BY <2>1, CallTyped DEF CallOps, Named, Moves
  <2> QED BY <2>1, <2>2, <1>0, <1>1, <1>3, <1>18 DEF Confirm
<1>19. CASE ConfirmSuspend
  <2>1. dialog.who \in People /\ dialog.clean \in BOOLEAN
    BY <1>3, <1>19 DEF ConfirmSuspend, Dialogs
  <2>2. Call("suspend", None, dialog.who, FALSE, dialog.clean) \in Calls
    BY <2>1, CallTyped DEF CallOps, Named, Moves
  <2> QED BY <2>1, <2>2, <1>0, <1>1, <1>3, <1>19 DEF ConfirmSuspend
<1> QED
  BY <1>4, <1>5, <1>6, <1>7, <1>8, <1>9, <1>10, <1>11, <1>12, <1>13, <1>14, <1>15, <1>16, <1>17, <1>18,
     <1>19 DEF Browse

\* The call the server takes next, and those behind it.
LEMMA HeadTyped ==
  ASSUME Typed, calls # <<>>
  PROVE  /\ Head(calls) \in Calls /\ Tail(calls) \in Seq(Calls)
         /\ Len(calls) \in Nat /\ Len(Tail(calls)) = Len(calls) - 1
  BY HeadTailProperties, LenProperties DEF Typed, CallsTyped

\* What a call does to the rows keeps their shape.
LEMMA EffectTyped ==
  ASSUME NEW s \in Server, NEW h \in Calls, NEW c \in Configs, NEW kept, h.op \notin {"file", "own"}
  PROVE  Effect(s, h, c, kept) \in Server
<1>1. h.op \in CallOps /\ h.who \in People \cup {None}
  BY DEF Calls
<1>2. None \in People \cup {None} /\ {"unassigned", "active", "disabled", "revoked"} \subseteq Statuses
  BY DEF Statuses
<1>3. CASE h.op \in {"assign", "return", "generate"}
  BY <1>1, <1>2, <1>3, SetConfigTyped DEF Effect
<1>4. CASE h.op \in {"disable", "enable", "revoke"}
  BY <1>1, <1>2, <1>4, SetStatusTyped DEF Effect
<1>5. CASE h.op \in {"suspend", "reactivate"}
  BY <1>1, <1>5, SuspendedTyped, ReactivatedTyped DEF Effect
<1> QED BY <1>1, <1>3, <1>4, <1>5 DEF CallOps

\* What a step without the admin role may do to the configs.
Switched ==
  \A c \in Configs :
    \/ server'.config[c] = server.config[c]
    \/ /\ claims = "ops" /\ server'.config[c].owner = server.config[c].owner
       /\ server'.config[c].status \in {"active", "disabled", "revoked"}

\* A call that goes through keeps every shape; those open to staff without the
\* admin role only switch.
LEMMA SucceedStep ==
  ASSUME Typed, NEW c \in Configs, NEW kept \in SUBSET Configs, Succeed(c, kept)
  PROVE  Typed' /\ (claims # "admin" => Switched)
<1> DEFINE h == Head(calls)
           s == IF h.new THEN NewPerson(server, h.who) ELSE server
           t == Effect(s, h, c, kept)
           rest == Tail(calls) \o HandOver(h, c)
<1>1. calls # <<>> /\ h.op \notin {"file", "own"} /\ claims \in Allowed(h.op)
  BY DEF Succeed
<1>2. h \in Calls /\ Tail(calls) \in Seq(Calls) /\ Len(calls) \in Nat /\ Len(Tail(calls)) = Len(calls) - 1
  BY <1>1, HeadTyped
<1>3. s \in Server /\ s.config = server.config
  <2>1. NewPerson(server, h.who).config = server.config
    BY DEF NewPerson, Typed, Server
  <2> QED BY <2>1, NewPersonTyped DEF Typed
<1>4. t \in Server
  BY <1>1, <1>2, <1>3, EffectTyped
<1>5. HandOver(h, c) \in Seq(Calls) /\ Len(HandOver(h, c)) \in {0, 1}
  <2>1. h.op = "assign" => h.cfg \in Configs
    BY <1>2 DEF Calls, Named, Moves
  <2>2. \A x \in Configs : Call("file", x, None, FALSE, TRUE) \in Calls
    BY CallTyped DEF CallOps, Named, Moves
  <2> DEFINE x == IF h.op = "generate" THEN c ELSE h.cfg
             fetch == Call("file", x, None, FALSE, TRUE)
  <2>3. HandOver(h, c) # <<>> => fetch \in Calls
    BY <2>1, <2>2 DEF HandOver
  <2>4. HandOver(h, c) \in {<<fetch>>, <<>>}
    BY DEF HandOver
  <2> HIDE DEF fetch
  <2>5. <<>> \in Seq(Calls) /\ Len(<<>>) = 0
    OBVIOUS
  <2>6. fetch \in Calls => <<fetch>> \in Seq(Calls) /\ Len(<<fetch>>) = 1
    OBVIOUS
  <2> QED BY <2>3, <2>4, <2>5, <2>6
<1>6. rest \in Seq(Calls) /\ Len(rest) <= Len(calls)
  BY <1>2, <1>5, ConcatProperties
<1>7. PICK got, ended : Refresh(t, got, rest, ended, Target(h))
  BY DEF Succeed
<1>8. /\ server' \in Server /\ server'.config = t.config
      /\ PageTyped(page') /\ dialog' \in Dialogs
      /\ calls' \in Seq(Calls) /\ Len(calls') = Len(rest)
  BY <1>4, <1>6, <1>7, RefreshTyped
<1>9. Typed'
  <2>1. UNCHANGED <<claims, others>> /\ busy' \subseteq busy
    BY DEF Succeed
  <2>2. undo' \subseteq Configs
    <3>1. h.op = "disable" => h.cfg \in Configs
      BY <1>2 DEF Calls, Named, Moves
    <3> QED BY <3>1 DEF Succeed, Typed, BrowserTyped
  <2>3. Len(calls') + others' <= MaxPending
    <3>1. Len(calls) + others <= MaxPending /\ others \in Nat /\ MaxPending \in Nat
      BY DashboardAssumption DEF Typed, CallsTyped
    <3>2. Len(calls') \in Nat
      BY <1>8, LenProperties
    <3>3. Len(calls') <= Len(calls)
      BY <1>6, <1>8
    <3> HIDE DEF h, s, t, rest
    <3> QED BY <3>1, <3>2, <3>3, <2>1, <1>2
  <2> QED BY <1>8, <2>1, <2>2, <2>3 DEF Typed, CallsTyped, BrowserTyped, PageTyped
<1>10. ASSUME claims # "admin"
       PROVE  Switched
  <2>1. claims = "ops" /\ h.op \in {"disable", "enable", "revoke"}
    BY <1>1, <1>10 DEF Allowed
  <2>2. PICK status \in {"active", "disabled", "revoked"} : t = SetStatus(s, h.cfg, status)
    BY <2>1 DEF Effect
  <2>3. ASSUME NEW d \in Configs
        PROVE  \/ t.config[d] = s.config[d]
               \/ t.config[d].owner = s.config[d].owner /\ t.config[d].status = status
    <3>1. t.config = [s.config EXCEPT ![h.cfg].status = status]
      BY <2>2, <1>3 DEF SetStatus, Server
    <3>2. s.config[d] \in [status: Statuses, owner: People \cup {None}]
      BY <1>3 DEF Server
    <3>3. CASE d = h.cfg
      <4>1. t.config[d] = [s.config[d] EXCEPT !.status = status]
        BY <3>1, <3>3, <1>3 DEF Server
      <4> QED BY <4>1, <3>2
    <3>4. CASE d # h.cfg
      BY <3>1, <3>4, <1>3 DEF Server
    <3> QED BY <3>3, <3>4
  <2> QED BY <2>1, <2>2, <2>3, <1>3, <1>8 DEF Switched
<1> QED BY <1>9, <1>10

\* A call that fails keeps every shape; without the admin role it leaves the
\* configs alone.
LEMMA FailStep ==
  ASSUME Typed, NEW c \in Configs, Fail(c)
  PROVE  Typed' /\ (claims # "admin" => server'.config = server.config)
<1> PICK h : h = Head(calls)
  OBVIOUS
<1>0. PICK t \in Left(h, c) :
      IF t = server THEN calls' = Tail(calls) /\ UNCHANGED <<server, page, dialog, touched>>
      ELSE \E got \in Gots(t, page.kind) : Refresh(t, got, Tail(calls), "", Target(h))
  BY DEF Fail
<1>1. h \in Calls /\ Tail(calls) \in Seq(Calls) /\ Len(calls) \in Nat /\ Len(Tail(calls)) = Len(calls) - 1
  BY HeadTyped DEF Fail
<1>2. t \in Server /\ (claims # "admin" => t.config = server.config)
  <2> PICK s : s = IF h.new THEN NewPerson(server, h.who) ELSE server
    OBVIOUS
  <2>1. NewPerson(server, h.who).config = server.config
    BY DEF NewPerson, Typed, Server
  <2>2. s \in Server /\ s.config = server.config
    BY <2>1, NewPersonTyped DEF Typed
  <2>3. SetConfig(s, c, "unassigned", None) \in Server
    BY <2>2, SetConfigTyped DEF Statuses
  <2>4. h.op = "generate" /\ claims \in Allowed(h.op) => claims = "admin"
    BY DEF Allowed
  <2>5. t \in {server, s, SetConfig(s, c, "unassigned", None)}
    BY <1>0 DEF Left
  <2>6. claims # "admin" => t \in {server, s}
    BY <1>0, <2>4 DEF Left
  <2> QED BY <2>2, <2>3, <2>5, <2>6 DEF Typed
<1>3. /\ server' \in Server /\ (claims # "admin" => server'.config = server.config)
      /\ PageTyped(page') /\ dialog' \in Dialogs
      /\ calls' \in Seq(Calls) /\ Len(calls') = Len(calls) - 1
  <2>1. CASE t = server
    BY <1>0, <2>1, <1>1 DEF Typed, BrowserTyped, PageTyped
  <2>2. CASE t # server
    <3>1. PICK got : Refresh(t, got, Tail(calls), "", Target(h))
      BY <1>0, <2>2
    <3> QED BY <3>1, <1>1, <1>2, RefreshTyped
  <2> QED BY <2>1, <2>2
<1>4. UNCHANGED <<claims, undo, others>> /\ busy' \subseteq busy
  BY DEF Fail
<1>5. Len(calls') + others' <= MaxPending
  BY <1>1, <1>3, <1>4, DashboardAssumption DEF Typed, CallsTyped
<1> QED BY <1>3, <1>4, <1>5 DEF Typed, CallsTyped, BrowserTyped, PageTyped

\* An answer with a key in it changes no row; without the admin role it is for
\* one's own config.
LEMMA DeliverStep ==
  ASSUME Typed, Deliver
  PROVE  /\ Typed' /\ server' = server
         /\ claims # "admin" => server.config[Head(calls).cfg].owner = Me
<1>1. PICK op \in {"file", "own"} : Delivered(op)
  BY DEF Deliver, DeliverFile, DeliverOwn
<1>2. Tail(calls) \in Seq(Calls) /\ Len(calls) \in Nat /\ Len(Tail(calls)) = Len(calls) - 1
  BY <1>1, HeadTyped DEF Delivered
<1>3. Typed' /\ server' = server
  <2>1. calls' = Tail(calls) /\ UNCHANGED <<server, claims, page, dialog, busy, undo, others>>
    BY <1>1 DEF Delivered
  <2>2. Len(calls') + others' <= MaxPending
    BY <2>1, <1>2, DashboardAssumption DEF Typed, CallsTyped
  <2> QED BY <1>2, <2>1, <2>2 DEF Typed, CallsTyped, BrowserTyped, PageTyped
<1>4. ASSUME claims # "admin"
      PROVE  server.config[Head(calls).cfg].owner = Me
  <2>1. op = "own"
    BY <1>1, <1>4 DEF Delivered, Allowed
  <2>2. Head(calls).op = "own" /\ Accepts(server, Head(calls))
    BY <1>1, <2>1 DEF Delivered
  <2> QED BY <2>2 DEF Accepts, Own
<1> QED BY <1>3, <1>4

\* The steps of the others are counted, and keep every shape.
LEMMA OthersStep ==
  ASSUME Typed, Others
  PROVE  Typed' /\ others' # others
<1>0. server \in Server /\ others \in Nat
  BY DEF Typed
<1>1. \A t \in Server : Behind(t) => Typed' /\ others' # others
  BY BehindTyped
<1>2. ASSUME NEW c \in Configs, NEW p \in People, OtherConfig(c, p)
      PROVE  Typed' /\ others' # others
  <2>1. \A status \in Statuses, owner \in People \cup {None} : SetConfig(server, c, status, owner) \in Server
    BY <1>0, SetConfigTyped
  <2>2. \A status \in Statuses : SetStatus(server, c, status) \in Server
    BY <1>0, SetStatusTyped
  <2>3. {"unassigned", "active", "disabled", "revoked"} \subseteq Statuses
    BY DEF Statuses
  <2> QED BY <1>1, <1>2, <2>1, <2>2, <2>3 DEF OtherConfig
<1>3. ASSUME NEW p \in People, OtherPerson(p)
      PROVE  Typed' /\ others' # others
  <2>1. \A kept : Suspended(server, p, kept) \in Server
    BY <1>0, SuspendedTyped
  <2>2. Reactivated(server, p) \in Server /\ NewPerson(server, p) \in Server
    BY <1>0, ReactivatedTyped, NewPersonTyped
  <2> QED BY <1>1, <1>3, <2>1, <2>2 DEF OtherPerson
<1>4. ASSUME NEW p \in People, NEW state \in ClerkStates, OtherClerk(p, state)
      PROVE  Typed' /\ others' # others
  <2>1. \A x \in ClerkStates : [server EXCEPT !.clerk[p] = x] \in Server
    BY <1>0 DEF Server
  <2>2. "ok" \in ClerkStates
    BY DEF ClerkStates
  <2> QED BY <1>1, <1>4, <2>1, <2>2 DEF OtherClerk
<1>5. CASE OtherSync
  BY <1>0, <1>1, <1>5, SyncedTyped DEF OtherSync
<1>6. ASSUME NEW role \in Roles, Demote(role)
      PROVE  Typed' /\ others' # others
  <2>1. UNCHANGED <<server, page, dialog, busy, undo, calls>> /\ others' = others + 1 /\ claims' \in Roles
    BY <1>6 DEF Demote
  <2>2. Len(calls) \in Nat /\ MaxPending \in Nat
    BY LenProperties, DashboardAssumption DEF Typed, CallsTyped
  <2>3. Len(calls) + others' <= MaxPending
    BY <1>0, <1>6, <2>1, <2>2 DEF Demote, Noticed
  <2> QED BY <1>0, <2>1, <2>3 DEF Typed, CallsTyped, BrowserTyped, PageTyped
<1> QED BY <1>2, <1>3, <1>4, <1>5, <1>6 DEF Others

-----------------------------------------------------------------------------
(* The theorems *)

\* A step that is no admin's and nobody else's at most switches configs off and
\* on, and delivers nobody else's keys.
OnlySwitches ==
  others' = others /\ claims # "admin" =>
    Switched /\ (Deliver => server.config[Head(calls).cfg].owner = Me)

\* The shapes hold at the start.
LEMMA InitTyped == Init => Typed
<1> SUFFICES ASSUME Init PROVE Typed
  OBVIOUS
<1>1. PICK clerk \in [People -> ClerkStates],
           first \in {[status |-> "none", owner |-> None], [status |-> "active", owner |-> Me]} :
        server = [config |-> [c \in Configs |-> first],
                  row |-> [p \in People |-> IF clerk[p] = "absent" THEN "none" ELSE StatusOf(clerk[p])],
                  clerk |-> clerk, last |-> None]
  BY DEF Init
<1>2. server \in Server
  BY <1>1, DashboardAssumption DEF Server, Statuses, RowStates, StatusOf
<1>3. PageTyped(page) /\ dialog \in Dialogs
  BY DEF Init, PageTyped, NoPage, NoDialog, Dialogs, Roles, Statuses
<1>4. calls \in Seq(Calls) /\ Len(calls) = 0 /\ others = 0
  BY DEF Init
<1>5. Len(calls) + others <= MaxPending
  BY <1>4, DashboardAssumption
<1> QED BY <1>2, <1>3, <1>4, <1>5 DEF Init, Typed, CallsTyped, BrowserTyped

\* Every step keeps every shape, and is within its role.
LEMMA TypedStep == Typed /\ [Next]_vars => Typed' /\ [OnlySwitches]_vars
<1> SUFFICES ASSUME Typed, [Next]_vars PROVE Typed' /\ [OnlySwitches]_vars
  OBVIOUS
<1>1. CASE Browse
  <2>1. Typed' /\ server'.config = server.config
    BY <1>1, BrowseTyped
  <2>2. Deliver /\ claims # "admin" => server.config[Head(calls).cfg].owner = Me
    BY DeliverStep
  <2> QED BY <2>1, <2>2 DEF OnlySwitches, Switched
<1>2. ASSUME NEW c \in Configs, NEW kept \in SUBSET Configs, Succeed(c, kept)
      PROVE  Typed' /\ [OnlySwitches]_vars
  BY <1>2, SucceedStep, DeliverStep DEF OnlySwitches
<1>3. ASSUME NEW c \in Configs, Fail(c)
      PROVE  Typed' /\ [OnlySwitches]_vars
  BY <1>3, FailStep, DeliverStep DEF OnlySwitches, Switched
<1>4. CASE Deliver
  BY <1>4, DeliverStep DEF OnlySwitches, Switched
<1>5. CASE Others
  BY <1>5, OthersStep DEF OnlySwitches
<1>6. CASE UNCHANGED vars
  BY <1>6 DEF vars, Typed, CallsTyped, BrowserTyped, PageTyped
<1> QED BY <1>1, <1>2, <1>3, <1>4, <1>5, <1>6 DEF Next, Serve

\* Every variable keeps its shape, and no more calls wait than the bound allows
\* (row-actions.tsx, lifecycle.ts, users/index.ts).
THEOREM TypeCorrect == Spec => []TypeOK
<1>1. Typed => TypeOK
  BY DEF Typed, CallsTyped, BrowserTyped, PageTyped, TypeOK
<1> QED BY InitTyped, TypedStep, <1>1, PTL DEF Spec

\* Whatever page a browser still shows: once its session is without the admin role
\* its calls at most switch configs off and on or revoke them, and its owner gets
\* no keys but their own (actingStaff at the head of every function,
\* getOwnConfigFile).
THEOREM RoleRevoked == Spec => WithoutRoleOnlySwitches
<1>1. [OnlySwitches]_vars
        => [others' = others /\ claims # "admin" =>
              /\ \A c \in Configs :
                   \/ server'.config[c] = server.config[c]
                   \/ /\ claims = "ops" /\ server'.config[c].owner = server.config[c].owner
                      /\ server'.config[c].status \in {"active", "disabled", "revoked"}
              /\ Deliver => server.config[Head(calls).cfg].owner = Me]_vars
  BY DEF OnlySwitches, Switched
<1> QED BY InitTyped, TypedStep, <1>1, PTL DEF Spec, WithoutRoleOnlySwitches

-----------------------------------------------------------------------------
(* What a clean call may rely on *)

\* The status a transition of a config's row asks for.
Lets(op, status) ==
  /\ op = "assign" => status = "unassigned"
  /\ op = "enable" => status = "disabled"
  /\ op \in {"disable", "return"} => status = "active"
  /\ op = "revoke" => status # "revoked"

\* Somebody who is active and exists.
Present(s, p) == s.row[p] = "active" /\ (p \in Local \/ s.clerk[p] # "absent")

\* A call whose row nobody has changed is one the server accepts.
Sound(s, h) ==
  h.clean =>
    /\ h.op = "suspend" \/ Accepts(s, h)
    /\ h.op \in {"assign", "generate"} /\ h.who # None /\ ~h.new => Present(s, h.who)

\* A transition of a config, the suspension of a person, is under way.
Moving(q, c)  == \E i \in 1 .. Len(q) : q[i].op \in Moves /\ q[i].cfg = c
Leaving(q, p) == \E i \in 1 .. Len(q) : q[i].op = "suspend" /\ q[i].who = p

\* What is behind another call about the same config, or the suspension of the
\* person it is for, is not clean.
Ordered(q, t) ==
  \A i, j \in 1 .. Len(q) : i < j =>
    /\ q[i].op \in Moves /\ q[j].op \in Moves /\ q[i].cfg = q[j].cfg => q[i].cfg \in t
    /\ q[i].op \in Moves /\ q[j].cfg = q[i].cfg /\ q[j].op # "file" => ~q[j].clean
    /\ /\ q[i].op = "suspend" /\ q[j].op \in {"assign", "generate"}
       /\ ~q[j].new /\ q[j].who = q[i].who
       => ~q[j].clean

\* A config with a transition under way is known to have changed, or its items
\* are disabled and no dialog is about it; somebody who is being suspended is
\* known to have changed, or the page lets nobody pick them.
Held ==
  /\ \A c \in Configs :
       Moving(calls, c) => c \in touched \/ (c \in busy /\ page.kind # "me" /\ dialog.cfg # c)
  /\ \A p \in People : Leaving(calls, p) => p \in touched \/ page.kind # "configs"

\* A dialog nothing has changed behind is about a row that lets its call through.
DialogSound ==
  /\ dialog.kind \in {"assign", "return", "revoke"} =>
       /\ page.kind # "me"
       /\ dialog.clean => /\ ~Moving(calls, dialog.cfg)
                          /\ Lets(dialog.kind, server.config[dialog.cfg].status)
  /\ dialog.kind = "suspend" => page.kind # "configs"

\* Of what has not changed since, a page shows what is true.
PageSound(pg, s, t) ==
  /\ pg.kind # "configs" => pg.options = {}
  /\ pg.kind = "configs" => \A p \in People : pg.people[p].status = "none"
  /\ \A c \in Configs : c \notin t => pg.rows[c] \in {"none", s.config[c].status}
  /\ pg.kind = "me" =>
       \A c \in Configs : pg.rows[c] = "active" /\ c \notin t /\ Me \notin t => Own(s, c)
  /\ \A p \in pg.options : p \notin t => Present(s, p)

QueueSound == Ordered(calls, touched) /\ \A i \in 1 .. Len(calls) : Sound(server, calls[i])

DashInv == QueueSound /\ Held /\ DialogSound /\ PageSound(page, server, touched)

-----------------------------------------------------------------------------
(* Calls, one by one *)

\* The server accepts a transition by the status of its row alone.
LEMMA AcceptsMoves ==
  ASSUME NEW s, NEW h \in Calls, h.op \in Moves
  PROVE  Accepts(s, h) <=> Lets(h.op, s.config[h.cfg].status)
<1>1. h.cfg \in Configs /\ h.cfg # None
  BY DashboardAssumption DEF Calls, Named
<1> QED BY <1>1 DEF Accepts, Lets, Moves

\* The calls the server has nothing to look up for.
LEMMA AcceptsOthers ==
  ASSUME NEW s, NEW h, h.op \in {"file", "generate", "reactivate"}
  PROVE  Accepts(s, h)
  BY DEF Accepts

\* An item of a menu is a transition the status it is shown for lets through.
LEMMA MenuLets ==
  ASSUME NEW status, NEW op \in Menu(status) \cap Moves
  PROVE  Lets(op, status)
  BY DEF Menu, Moves, Lets

\* A call that somebody in particular has to be there for, and somebody who is
\* not worse off in t than in s.
Needs(h)          == h.op = "own" \/ (h.op \in {"assign", "generate"} /\ ~h.new)
NotWorse(s, t, p) == /\ s.row[p] = "active" => t.row[p] = "active"
                     /\ s.clerk[p] # "absent" => t.clerk[p] # "absent"

\* A call stays sound while its config stays as it is, and the person it needs
\* is not worse off.
LEMMA SoundKept ==
  ASSUME NEW s \in Server, NEW t \in Server, NEW h \in Calls, Sound(s, h),
         h.cfg \in Configs => t.config[h.cfg] = s.config[h.cfg],
         h.who \in People /\ Needs(h) => NotWorse(s, t, h.who)
  PROVE  Sound(t, h)
<1> SUFFICES ASSUME h.clean PROVE Sound(t, h)
  BY DEF Sound
<1>1. h.op = "suspend" \/ Accepts(t, h)
  <2>1. CASE h.op \in Moves
    <3>1. h.cfg \in Configs
      BY <2>1 DEF Calls, Named
    <3>2. Accepts(s, h)
      BY <2>1 DEF Sound, Moves
    <3> QED BY <2>1, <3>1, <3>2, AcceptsMoves
  <2>2. CASE h.op \in {"file", "generate", "reactivate"}
    BY <2>2, AcceptsOthers
  <2>3. CASE h.op = "own"
    <3>1. h.cfg \in Configs /\ h.who = Me /\ Me \in People
      BY <2>3, DashboardAssumption DEF Calls, Named
    <3>2. Own(s, h.cfg)
      BY <2>3 DEF Sound, Accepts
    <3>3. Own(t, h.cfg)
      BY <2>3, <3>1, <3>2 DEF Own, Needs, NotWorse
    <3> QED BY <2>3, <3>3 DEF Accepts
  <2>4. CASE h.op = "suspend"
    BY <2>4
  <2> QED BY <2>1, <2>2, <2>3, <2>4 DEF Calls, CallOps, Moves
<1>2. ASSUME h.op \in {"assign", "generate"}, h.who # None, ~h.new
      PROVE  Present(t, h.who)
  <2>1. h.who \in People /\ Present(s, h.who)
    BY <1>2 DEF Calls, Sound
  <2> QED BY <1>2, <2>1 DEF Present, Needs, NotWorse
<1> QED BY <1>1, <1>2 DEF Sound

\* In particular while neither is among the rows that changed.
LEMMA SoundUnchanged ==
  ASSUME NEW s \in Server, NEW t \in Server, NEW h \in Calls, Sound(s, h),
         {h.cfg, h.who} \cap Changed(s, t) = {}
  PROVE  Sound(t, h)
<1>1. h.cfg \in Configs => t.config[h.cfg] = s.config[h.cfg]
  BY DEF Changed
<1>2. h.who \in People => NotWorse(s, t, h.who)
  BY DEF Changed, NotWorse
<1> QED BY <1>1, <1>2, SoundKept

\* The same call, perhaps no longer clean.
Weaker(g, h) ==
  /\ g.op = h.op /\ g.cfg = h.cfg /\ g.who = h.who /\ g.new = h.new
  /\ g.clean => h.clean

\* q is what is left of r after its first k calls, perhaps with files fetched.
Follows(q, r, k) ==
  \A i \in 1 .. Len(q) :
    \/ q[i].op = "file"
    \/ i + k \in 1 .. Len(r) /\ Weaker(q[i], r[i + k])

\* Marking takes cleanness away, from the calls about what changed.
LEMMA MarkedWeaker ==
  ASSUME NEW q \in Seq(Calls), NEW changed, NEW i \in 1 .. Len(q)
  PROVE  /\ Weaker(Marked(q, changed)[i], q[i])
         /\ Marked(q, changed)[i].clean =>
              /\ {q[i].cfg, q[i].who} \cap changed = {}
              /\ Marked(q, changed)[i] = q[i]
<1>1. q[i] \in Calls
  BY ElementOfSeq
<1>2. Marked(q, changed)[i] = IF {q[i].cfg, q[i].who} \cap changed # {}
                              THEN [q[i] EXCEPT !.clean = FALSE] ELSE q[i]
  BY DEF Marked
<1>3. Weaker([q[i] EXCEPT !.clean = FALSE], q[i]) /\ ~[q[i] EXCEPT !.clean = FALSE].clean
  BY <1>1 DEF Calls, Weaker
<1> QED BY <1>1, <1>2, <1>3 DEF Weaker

\* Marking changes nothing of what follows what.
LEMMA MarkedFollows ==
  ASSUME NEW q \in Seq(Calls), NEW r, NEW k, NEW changed, Follows(q, r, k)
  PROVE  Follows(Marked(q, changed), r, k)
<1>1. Len(Marked(q, changed)) = Len(q)
  BY MarkedTyped
<1>2. ASSUME NEW i \in 1 .. Len(q)
      PROVE  \/ Marked(q, changed)[i].op = "file"
             \/ i + k \in 1 .. Len(r) /\ Weaker(Marked(q, changed)[i], r[i + k])
  BY <1>2, MarkedWeaker DEF Follows, Weaker
<1> QED BY <1>1, <1>2 DEF Follows

\* What is under way in the rest was under way before.
LEMMA FollowsPending ==
  ASSUME NEW q, NEW r, NEW k, Follows(q, r, k), NEW x
  PROVE  /\ Moving(q, x) => Moving(r, x)
         /\ Leaving(q, x) => Leaving(r, x)
  BY DEF Follows, Moving, Leaving, Weaker, Moves

\* The order of the calls is kept with them.
LEMMA FollowsOrdered ==
  ASSUME NEW q \in Seq(Calls), NEW r \in Seq(Calls), NEW k \in Nat, Follows(q, r, k),
         NEW t, NEW u, Ordered(r, t),
         \A i \in 1 .. Len(q) : q[i].op \in Moves /\ q[i].cfg \in t => q[i].cfg \in u
  PROVE  Ordered(q, u)
<1> SUFFICES ASSUME NEW i \in 1 .. Len(q), NEW j \in 1 .. Len(q), i < j
             PROVE  /\ q[i].op \in Moves /\ q[j].op \in Moves /\ q[i].cfg = q[j].cfg => q[i].cfg \in u
                    /\ q[i].op \in Moves /\ q[j].cfg = q[i].cfg /\ q[j].op # "file" => ~q[j].clean
                    /\ /\ q[i].op = "suspend" /\ q[j].op \in {"assign", "generate"}
                       /\ ~q[j].new /\ q[j].who = q[i].who
                       => ~q[j].clean
  BY DEF Ordered
<1>1. CASE q[i].op = "file" \/ q[j].op = "file"
  BY <1>1 DEF Moves
<1>2. CASE q[i].op # "file" /\ q[j].op # "file"
  <2>1. /\ i + k \in 1 .. Len(r) /\ Weaker(q[i], r[i + k])
        /\ j + k \in 1 .. Len(r) /\ Weaker(q[j], r[j + k])
    BY <1>2 DEF Follows
  <2>2. i + k < j + k
    OBVIOUS
  <2> QED BY <2>1, <2>2 DEF Ordered, Weaker
<1> QED BY <1>1, <1>2

-----------------------------------------------------------------------------
(* Pages and queues *)

\* A page is sound when it is rendered, but for what it could not know.
LEMMA RenderedSound ==
  ASSUME NEW s \in Server, NEW kind, NEW who, NEW role, NEW got \in Gots(s, kind),
         NEW t, Unknown(s, kind, got) \subseteq t
  PROVE  LET pg == Rendered(s, kind, who, role, got)
         IN  PageSound(pg, After(s, got), t) /\ pg.kind \in {kind, "none"}
<1>0. After(s, got).config = s.config /\ After(s, got).clerk = s.clerk
  BY DEF After, Synced, Server
<1>1. CASE kind = "configs"
  <2> DEFINE pg == ConfigsPage(s, role, got)
  <2>1. /\ pg.kind = "configs" /\ pg.options = Assignable(s, got)
        /\ \A p \in People : pg.people[p].status = "none"
        /\ \A c \in Configs : pg.rows[c] = s.config[c].status
    BY DEF ConfigsPage, NoPage, Hidden
  <2>2. ASSUME NEW p \in Assignable(s, got), p \notin t
        PROVE  Present(After(s, got), p)
    <3>1. p \in People /\ After(s, got).row[p] = "active" /\ AccessOf(s, got, p) # "missing"
      BY DEF Assignable
    <3>2. got \in {"fresh", "down", "cached"} /\ (got = "cached" => s.last # None)
      BY <1>1 DEF Gots
    <3>3. ASSUME p \notin Local PROVE s.clerk[p] # "absent"
      BY <2>2, <3>1, <3>2, <3>3 DEF AccessOf, Unknown
    <3> QED BY <1>0, <3>1, <3>3 DEF Present
  <2> HIDE DEF pg
  <2>3. PageSound(pg, After(s, got), t)
    BY <1>0, <2>1, <2>2 DEF PageSound
  <2> QED BY <1>1, <2>1, <2>3 DEF Rendered, pg
<1>2. CASE kind = "users"
  <2> DEFINE pg == UsersPage(s, role, got)
  <2>1. pg.kind = "users" /\ pg.options = {} /\ \A c \in Configs : pg.rows[c] = "none"
    BY DEF UsersPage, NoPage
  <2> HIDE DEF pg
  <2> QED BY <1>2, <2>1 DEF Rendered, pg, PageSound
<1>3. CASE kind = "user"
  <2> DEFINE pg == UserDetailPage(s, who, role, got)
  <2>1. /\ pg.kind = "user" /\ pg.options = {}
        /\ \A c \in Configs : pg.rows[c] \in {"none", s.config[c].status}
    BY DEF UserDetailPage, NoPage
  <2> HIDE DEF pg
  <2> QED BY <1>0, <1>3, <2>1 DEF Rendered, pg, PageSound
<1>4. CASE kind = "me"
  <2> DEFINE pg == MePage(s, role)
  <2>1. /\ pg.kind = "me" /\ pg.options = {}
        /\ \A c \in Configs : /\ pg.rows[c] \in {"none", s.config[c].status}
                              /\ pg.rows[c] = "active" => Own(s, c)
    BY DEF MePage, NoPage, Own
  <2>2. After(s, got) = s
    BY <1>4 DEF Gots, After
  <2> HIDE DEF pg
  <2> QED BY <1>4, <2>1, <2>2 DEF Rendered, pg, PageSound
<1>5. CASE kind \notin {"configs", "users", "user", "me"}
  <2>1. NoPage.kind = "none" /\ NoPage.options = {} /\ \A c \in Configs : NoPage.rows[c] = "none"
    BY DEF NoPage
  <2>2. Rendered(s, kind, who, role, got) = NoPage
    BY <1>5 DEF Rendered
  <2> QED BY <2>1, <2>2 DEF PageSound
<1> QED BY <1>1, <1>2, <1>3, <1>4, <1>5

\* So is the empty page.
LEMMA NoPageSound ==
  ASSUME NEW s, NEW t
  PROVE  PageSound(NoPage, s, t) /\ NoPage.kind = "none"
  BY DEF PageSound, NoPage

\* What is marked as changed no longer has to be shown as it is.
LEMMA PageKept ==
  ASSUME NEW pg, PageTyped(pg), NEW s \in Server, NEW u \in Server, NEW t, NEW v,
         PageSound(pg, s, t), t \subseteq v, Changed(s, u) \subseteq v
  PROVE  PageSound(pg, u, v)
<1>1. ASSUME NEW c \in Configs, c \notin v
      PROVE  pg.rows[c] \in {"none", u.config[c].status}
  BY <1>1 DEF PageSound, Changed
<1>2. ASSUME pg.kind = "me", NEW c \in Configs, pg.rows[c] = "active", c \notin v, Me \notin v
      PROVE  Own(u, c)
  <2>1. Own(s, c) /\ u.config[c] = s.config[c] /\ u.row[Me] = s.row[Me]
    BY <1>2, DashboardAssumption DEF PageSound, Changed
  <2> QED BY <2>1 DEF Own
<1>3. ASSUME NEW p \in pg.options, p \notin v
      PROVE  Present(u, p)
  BY <1>3 DEF PageSound, PageTyped, Changed, Present
<1> QED BY <1>1, <1>2, <1>3 DEF PageSound

\* Only transitions of configs hold a config.
LEMMA MovesConfig ==
  ASSUME NEW q \in Seq(Calls), NEW x, Moving(q, x)
  PROVE  x \in Configs /\ x \in Targets(q)
<1>1. PICK i \in 1 .. Len(q) : q[i].op \in Moves /\ q[i].cfg = x
  BY DEF Moving
<1>2. q[i] \in Calls
  BY ElementOfSeq
<1>3. x \in Configs /\ x # None
  BY <1>1, <1>2, DashboardAssumption DEF Calls, Named
<1>4. {q[i].cfg, q[i].who} \in {{q[j].cfg, q[j].who} : j \in 1 .. Len(q)}
  OBVIOUS
<1>5. x \in UNION {{q[j].cfg, q[j].who} : j \in 1 .. Len(q)}
  BY <1>1, <1>4
<1> QED BY <1>3, <1>5 DEF Targets

\* Somebody whose suspension waits is the target of a waiting call.
LEMMA LeavingTarget ==
  ASSUME NEW q \in Seq(Calls), NEW x, Leaving(q, x)
  PROVE  x \in People /\ x \in Targets(q)
<1>1. PICK i \in 1 .. Len(q) : q[i].op = "suspend" /\ q[i].who = x
  BY DEF Leaving
<1>2. q[i] \in Calls
  BY ElementOfSeq
<1>3. x \in People /\ x # None
  BY <1>1, <1>2, DashboardAssumption DEF Calls, Named
<1>4. {q[i].cfg, q[i].who} \in {{q[j].cfg, q[j].who} : j \in 1 .. Len(q)}
  OBVIOUS
<1>5. x \in UNION {{q[j].cfg, q[j].who} : j \in 1 .. Len(q)}
  BY <1>1, <1>4
<1> QED BY <1>3, <1>5 DEF Targets

\* The page is rendered again: rest is what is left of the calls, and what the
\* call that ended did to the rows it was about is sound for them.
LEMMA RefreshSound ==
  ASSUME Typed, DashInv, NEW s \in Server, NEW got \in Gots(s, page.kind),
         NEW rest \in Seq(Calls), NEW ended, NEW own, NEW k \in Nat,
         Refresh(s, got, rest, ended, own), Follows(rest, calls, k),
         \A i \in 1 .. Len(rest) :
           {rest[i].cfg, rest[i].who} \cap (Changed(server, s) \ {own}) = {} => Sound(s, rest[i]),
         own \in Configs => Moving(calls, own),
         \A c \in Configs : Moving(rest, c) /\ c \in busy /\ c \notin touched => c \in busy'
  PROVE  DashInv'
<1> DEFINE t == After(s, got)
           changed == (Changed(server, s) \ {own}) \cup Changed(s, t)
           u == (touched \cap Targets(rest)) \cup Unknown(s, page.kind, got)
<1>1. /\ server' = t /\ calls' = Marked(rest, changed) /\ touched' = u
      /\ \/ dialog' = NoDialog
         \/ dialog' = Doubted(changed) /\ page'.kind # "none"
      /\ page' \in {NoPage, Rendered(s, page.kind, page.who, claims, got)}
  BY DEF Refresh
<1>2. t \in Server /\ t.config = s.config
  BY AfterTyped
<1> HIDE DEF t, changed, u
<1>3. PageSound(page, server, touched)' /\ page'.kind \in {page.kind, "none"}
  <2>1. Unknown(s, page.kind, got) \subseteq u
    BY DEF u
  <2>2. LET pg == Rendered(s, page.kind, page.who, claims, got)
        IN  PageSound(pg, t, u) /\ pg.kind \in {page.kind, "none"}
    BY <2>1, RenderedSound DEF t
  <2>3. PageSound(NoPage, t, u) /\ NoPage.kind = "none"
    BY NoPageSound
  <2>4. PageSound(page', t, u) /\ page'.kind \in {page.kind, "none"}
    BY <1>1, <2>2, <2>3
  <2> QED BY <1>1, <2>4
<1>4. calls' \in Seq(Calls) /\ Len(calls') = Len(rest) /\ Follows(calls', calls, k)
  BY <1>1, MarkedTyped, MarkedFollows
<1>5. ASSUME NEW x \in Targets(rest), x \in touched
      PROVE  x \in touched'
  BY <1>1, <1>5 DEF u
<1>6. Ordered(calls, touched)'
  <2>1. ASSUME NEW i \in 1 .. Len(calls'), calls'[i].op \in Moves, calls'[i].cfg \in touched
        PROVE  calls'[i].cfg \in touched'
    <3>1. Weaker(calls'[i], rest[i]) /\ i \in 1 .. Len(rest)
      BY <1>1, <1>4, <2>1, MarkedWeaker
    <3>2. Moving(rest, calls'[i].cfg)
      BY <2>1, <3>1 DEF Moving, Weaker
    <3> QED BY <2>1, <3>2, <1>5, MovesConfig
  <2> QED BY <1>4, <2>1, FollowsOrdered DEF Typed, CallsTyped, DashInv, QueueSound
<1>7. ASSUME NEW i \in 1 .. Len(calls')
      PROVE  Sound(server', calls'[i])
  <2>1. i \in 1 .. Len(rest) /\ rest[i] \in Calls /\ calls'[i] \in Calls
    BY <1>4, ElementOfSeq
  <2>2. CASE calls'[i].clean
    <3>1. {rest[i].cfg, rest[i].who} \cap changed = {} /\ calls'[i] = rest[i]
      BY <1>1, <2>1, <2>2, MarkedWeaker
    <3>2. Sound(s, rest[i]) /\ {rest[i].cfg, rest[i].who} \cap Changed(s, t) = {}
      BY <2>1, <3>1 DEF changed
    <3>3. Sound(t, rest[i])
      BY <1>2, <2>1, <3>2, SoundUnchanged
    <3> QED BY <1>1, <3>1, <3>3
  <2>3. CASE ~calls'[i].clean
    BY <2>3 DEF Sound
  <2> QED BY <2>2, <2>3
<1>8. \A x : /\ Moving(calls', x) => Moving(rest, x) /\ Moving(calls, x)
             /\ Leaving(calls', x) => Leaving(rest, x) /\ Leaving(calls, x)
  <2>1. Follows(rest, rest, 0)
    <3>1. \A i \in 1 .. Len(rest) : i + 0 = i /\ Weaker(rest[i], rest[i])
      BY DEF Weaker
    <3> QED BY <3>1 DEF Follows
  <2>2. Follows(calls', rest, 0)
    BY <1>1, <2>1, MarkedFollows
  <2> QED BY <1>4, <2>2, FollowsPending
<1>9. dialog'.cfg \in {dialog.cfg, None}
  BY <1>1 DEF NoDialog, Doubted, Typed, BrowserTyped, Dialogs
<1>10. Held'
  <2>1. ASSUME NEW c \in Configs, Moving(calls', c)
        PROVE  c \in touched' \/ (c \in busy' /\ page'.kind # "me" /\ dialog'.cfg # c)
    <3>1. Moving(rest, c) /\ Moving(calls, c)
      BY <1>8, <2>1
    <3>2. c \in touched => c \in touched'
      BY <1>5, <3>1, MovesConfig
    <3>3. c # None
      BY DashboardAssumption
    <3> QED BY <1>3, <1>9, <3>1, <3>2, <3>3 DEF DashInv, Held
  <2>2. ASSUME NEW p \in People, Leaving(calls', p)
        PROVE  p \in touched' \/ page'.kind # "configs"
    <3>1. Leaving(rest, p) /\ Leaving(calls, p)
      BY <1>8, <2>2
    <3>2. p \in touched => p \in touched'
      BY <1>5, <3>1, LeavingTarget
    <3> QED BY <1>3, <3>1, <3>2 DEF DashInv, Held
  <2> QED BY <2>1, <2>2 DEF Held
<1>11. DialogSound'
  <2>1. CASE dialog' = NoDialog
    BY <2>1 DEF DialogSound, NoDialog
  <2>2. CASE dialog' = Doubted(changed)
    <3>1. /\ dialog'.kind = dialog.kind /\ dialog'.cfg = dialog.cfg
          /\ dialog'.clean => dialog.clean /\ dialog.cfg \notin changed
      BY <2>2 DEF Doubted, Typed, BrowserTyped, Dialogs
    <3>2. ASSUME dialog.kind \in {"assign", "return", "revoke"}, dialog'.clean
          PROVE  /\ ~Moving(calls', dialog.cfg)
                 /\ Lets(dialog.kind, server'.config[dialog.cfg].status)
      <4>1. ~Moving(calls, dialog.cfg) /\ Lets(dialog.kind, server.config[dialog.cfg].status)
        BY <3>1, <3>2 DEF DashInv, DialogSound
      <4>2. dialog.cfg \in Configs
        BY <3>2 DEF Typed, BrowserTyped, Dialogs
      <4>3. dialog.cfg # own
        BY <4>1, <4>2
      <4>4. s.config[dialog.cfg] = server.config[dialog.cfg]
        BY <3>1, <3>2, <4>2, <4>3 DEF changed, Changed
      <4> QED BY <1>1, <1>2, <1>8, <4>1, <4>4
    <3> QED BY <1>3, <3>1, <3>2 DEF DashInv, DialogSound
  <2> QED BY <1>1, <2>1, <2>2
<1> QED BY <1>3, <1>6, <1>7, <1>10, <1>11 DEF DashInv, QueueSound

\* What is left when the oldest call is taken away.
LEMMA TailFollows ==
  ASSUME Typed, calls # <<>>, NEW f \in Seq(Calls),
         f = <<>> \/ (Len(f) = 1 /\ f[1].op = "file")
  PROVE  Follows(Tail(calls) \o f, calls, 1)
<1>1. /\ Tail(calls) \in Seq(Calls) /\ Len(calls) \in Nat /\ Len(Tail(calls)) = Len(calls) - 1
      /\ \A i \in 1 .. Len(Tail(calls)) : Tail(calls)[i] = calls[i + 1]
  BY HeadTailProperties, LenProperties DEF Typed, CallsTyped
<1>2. /\ Len(Tail(calls) \o f) = Len(Tail(calls)) + Len(f)
      /\ \A i \in 1 .. Len(Tail(calls)) + Len(f) :
           (Tail(calls) \o f)[i] = IF i <= Len(Tail(calls)) THEN Tail(calls)[i] ELSE f[i - Len(Tail(calls))]
  BY <1>1, ConcatProperties
<1>3. Len(f) \in {0, 1}
  OBVIOUS
<1> SUFFICES ASSUME NEW i \in 1 .. Len(Tail(calls) \o f)
             PROVE  \/ (Tail(calls) \o f)[i].op = "file"
                    \/ i + 1 \in 1 .. Len(calls) /\ Weaker((Tail(calls) \o f)[i], calls[i + 1])
  BY DEF Follows
<1>4. CASE i <= Len(Tail(calls))
  <2>1. (Tail(calls) \o f)[i] = calls[i + 1] /\ i + 1 \in 1 .. Len(calls)
    BY <1>1, <1>2, <1>4
  <2> QED BY <2>1 DEF Weaker
<1>5. CASE ~(i <= Len(Tail(calls)))
  <2>1. \A m \in Nat, n \in {0, 1} : i \in 1 .. m + n /\ ~(i <= m) => i - m = 1 /\ n = 1
    OBVIOUS
  <2>2. Len(Tail(calls)) \in Nat /\ i \in 1 .. Len(Tail(calls)) + Len(f)
    BY <1>1, <1>2, LenProperties
  <2>3. i - Len(Tail(calls)) = 1 /\ Len(f) = 1
    BY <1>3, <1>5, <2>1, <2>2
  <2>4. (Tail(calls) \o f)[i] = f[1] /\ f # <<>>
    BY <1>2, <1>5, <2>2, <2>3
  <2> QED BY <2>4
<1> QED BY <1>4, <1>5

\* The mark that ends with a call is of a row nothing else clean is under way for.
LEMMA SettledHeld ==
  ASSUME Typed, DashInv, calls # <<>>, busy' = busy \ Settled(Head(calls)),
         NEW rest \in Seq(Calls), Follows(rest, calls, 1),
         NEW c \in Configs, Moving(rest, c), c \in busy, c \notin touched
  PROVE  c \in busy'
<1> SUFFICES ASSUME c \in Settled(Head(calls)) PROVE FALSE
  OBVIOUS
<1> DEFINE h == Head(calls)
<1>1. h \in Calls /\ h = calls[1] /\ 1 \in 1 .. Len(calls)
  BY HeadTyped, HeadTailProperties, LenProperties DEF Typed, CallsTyped
<1>2. h.op \in Moves /\ h.cfg = c
  <2>1. h.op \notin {"file", "own", "generate"} /\ Target(h) = c
    BY DEF Settled
  <2>2. h.op \notin {"suspend", "reactivate"}
    BY <1>1, <2>1, DashboardAssumption DEF Calls, Named, Target
  <2>3. h.op \in Moves
    BY <1>1, <2>1, <2>2 DEF Calls, CallOps, Moves
  <2> QED BY <1>1, <2>1, <2>3, DashboardAssumption DEF Calls, Named, Target
<1>3. PICK i \in 1 .. Len(rest) : rest[i].op \in Moves /\ rest[i].cfg = c
  BY DEF Moving
<1>4. i + 1 \in 1 .. Len(calls) /\ calls[i + 1].op \in Moves /\ calls[i + 1].cfg = c
  BY <1>3 DEF Follows, Weaker, Moves
<1>5. 1 < i + 1 /\ Ordered(calls, touched)
  BY DEF DashInv, QueueSound
<1> QED BY <1>1, <1>2, <1>4, <1>5 DEF Ordered

\* A call is answered, and nothing else changes but the mark of its row.
LEMMA AnsweredSound ==
  ASSUME Typed, DashInv, calls # <<>>, calls' = Tail(calls),
         UNCHANGED <<server, page, dialog, touched>>,
         busy' = busy \/ busy' = busy \ Settled(Head(calls))
  PROVE  DashInv'
<1>1. Follows(calls', calls, 1) /\ calls' \in Seq(Calls)
  <2>1. <<>> \in Seq(Calls) /\ Tail(calls) \o <<>> = Tail(calls)
    BY HeadTyped, ConcatProperties
  <2> QED BY <2>1, TailFollows, HeadTyped
<1>2. \A c \in Configs : Moving(calls', c) /\ c \in busy /\ c \notin touched => c \in busy'
  BY <1>1, SettledHeld
<1>3. \A x : /\ Moving(calls', x) => Moving(calls, x)
             /\ Leaving(calls', x) => Leaving(calls, x)
  BY <1>1, FollowsPending
<1>4. Ordered(calls, touched)'
  BY <1>1, FollowsOrdered DEF Typed, CallsTyped, DashInv, QueueSound
<1>5. \A i \in 1 .. Len(calls') : Sound(server', calls'[i])
  <2>1. /\ Len(calls) \in Nat /\ Len(calls') = Len(calls) - 1
        /\ \A i \in 1 .. Len(calls') : calls'[i] = calls[i + 1]
    BY HeadTailProperties, LenProperties DEF Typed, CallsTyped
  <2>2. \A i \in 1 .. Len(calls') : i + 1 \in 1 .. Len(calls)
    BY <2>1
  <2> QED BY <2>1, <2>2 DEF DashInv, QueueSound
<1>6. Held'
  BY <1>2, <1>3 DEF DashInv, Held
<1>7. DialogSound'
  BY <1>3 DEF DashInv, DialogSound
<1> QED BY <1>4, <1>5, <1>6, <1>7 DEF DashInv, QueueSound

\* The rest of the world changes rows: what shows or names them is marked.
LEMMA BehindSound ==
  ASSUME Typed, DashInv, NEW t \in Server, Behind(t)
  PROVE  DashInv'
<1> DEFINE changed == Changed(server, t)
<1>1. /\ server' = t /\ page' = page /\ busy' = busy
      /\ touched' = touched \cup changed
      /\ calls' = Marked(calls, changed) /\ dialog' = Doubted(changed)
  BY DEF Behind
<1>2. calls \in Seq(Calls) /\ server \in Server /\ PageTyped(page) /\ dialog \in Dialogs
  BY DEF Typed, CallsTyped, BrowserTyped
<1>3. Follows(calls, calls, 0)
  <2>1. \A i \in 1 .. Len(calls) : i + 0 = i /\ Weaker(calls[i], calls[i])
    BY DEF Weaker
  <2> QED BY <2>1 DEF Follows
<1>4. calls' \in Seq(Calls) /\ Len(calls') = Len(calls) /\ Follows(calls', calls, 0)
  BY <1>1, <1>2, <1>3, MarkedTyped, MarkedFollows
<1>5. \A x : /\ Moving(calls', x) => Moving(calls, x)
             /\ Leaving(calls', x) => Leaving(calls, x)
  BY <1>4, FollowsPending
<1>6. Ordered(calls, touched)'
  BY <1>1, <1>2, <1>4, FollowsOrdered DEF DashInv, QueueSound
<1>7. ASSUME NEW i \in 1 .. Len(calls')
      PROVE  Sound(server', calls'[i])
  <2>1. i \in 1 .. Len(calls) /\ calls[i] \in Calls /\ Sound(server, calls[i])
    BY <1>2, <1>4, ElementOfSeq DEF DashInv, QueueSound
  <2>2. CASE calls'[i].clean
    <3>1. {calls[i].cfg, calls[i].who} \cap changed = {} /\ calls'[i] = calls[i]
      BY <1>1, <1>2, <2>1, <2>2, MarkedWeaker
    <3> QED BY <1>1, <1>2, <2>1, <3>1, SoundUnchanged
  <2>3. CASE ~calls'[i].clean
    BY <2>3 DEF Sound
  <2> QED BY <2>2, <2>3
<1>8. /\ dialog'.kind = dialog.kind /\ dialog'.cfg = dialog.cfg
      /\ dialog'.clean => dialog.clean /\ dialog.cfg \notin changed
  BY <1>1, <1>2 DEF Doubted, Dialogs
<1>9. Held'
  BY <1>1, <1>5, <1>8 DEF DashInv, Held
<1>10. DialogSound'
  <2>1. dialog.kind \in {"assign", "return", "revoke"} => dialog.cfg \in Configs
    BY <1>2 DEF Dialogs
  <2>2. ASSUME dialog.cfg \in Configs, dialog.cfg \notin changed
        PROVE  t.config[dialog.cfg] = server.config[dialog.cfg]
    BY <2>2 DEF Changed
  <2> HIDE DEF changed
  <2> QED BY <1>1, <1>5, <1>8, <2>1, <2>2 DEF DashInv, DialogSound
<1>11. PageSound(page, server, touched)'
  <2>1. PageSound(page, t, touched \cup changed)
    BY <1>2, PageKept DEF DashInv
  <2> QED BY <1>1, <2>1
<1> QED BY <1>6, <1>7, <1>9, <1>10, <1>11 DEF DashInv, QueueSound

\* Opening a page: everything still under way counts as changed.
LEMMA OpenSound ==
  ASSUME Typed, DashInv, NEW kind, NEW who, NEW got \in Gots(server, kind), Open(kind, who, got)
  PROVE  DashInv'
<1> DEFINE t == After(server, got)
           changed == Changed(server, t)
<1>1. /\ server' = t /\ page' = Rendered(server, kind, who, claims, got)
      /\ calls' = Marked(calls, changed)
      /\ touched' = Unknown(server, kind, got) \cup Targets(calls)
      /\ dialog' = dialog /\ dialog.kind = "none"
  BY DEF Open
<1>2. calls \in Seq(Calls) /\ server \in Server /\ t \in Server
  BY AfterTyped DEF Typed, CallsTyped
<1> HIDE DEF t, changed
<1>3. Follows(calls, calls, 0)
  <2>1. \A i \in 1 .. Len(calls) : i + 0 = i /\ Weaker(calls[i], calls[i])
    BY DEF Weaker
  <2> QED BY <2>1 DEF Follows
<1>4. calls' \in Seq(Calls) /\ Len(calls') = Len(calls) /\ Follows(calls', calls, 0)
  BY <1>1, <1>2, <1>3, MarkedTyped, MarkedFollows
<1>5. \A x : Moving(calls', x) \/ Leaving(calls', x) => x \in touched'
  BY <1>1, <1>2, <1>4, FollowsPending, MovesConfig, LeavingTarget
<1>6. Ordered(calls, touched)'
  <2>1. \A i \in 1 .. Len(calls') : calls'[i].op \in Moves => calls'[i].cfg \in touched'
    BY <1>5 DEF Moving
  <2> QED BY <1>2, <1>4, <2>1, FollowsOrdered DEF DashInv, QueueSound
<1>7. ASSUME NEW i \in 1 .. Len(calls')
      PROVE  Sound(server', calls'[i])
  <2>1. i \in 1 .. Len(calls) /\ calls[i] \in Calls /\ Sound(server, calls[i])
    BY <1>2, <1>4, ElementOfSeq DEF DashInv, QueueSound
  <2>2. CASE calls'[i].clean
    <3>1. {calls[i].cfg, calls[i].who} \cap changed = {} /\ calls'[i] = calls[i]
      BY <1>1, <1>2, <2>1, <2>2, MarkedWeaker
    <3> QED BY <1>1, <1>2, <2>1, <3>1, SoundUnchanged DEF changed
  <2>3. CASE ~calls'[i].clean
    BY <2>3 DEF Sound
  <2> QED BY <2>2, <2>3
<1>8. Held'
  BY <1>5 DEF Held
<1>9. DialogSound'
  BY <1>1 DEF DialogSound
<1>10. PageSound(page, server, touched)'
  <2>1. LET pg == Rendered(server, kind, who, claims, got)
        IN  PageSound(pg, After(server, got), touched')
    BY <1>1, <1>2, RenderedSound
  <2> QED BY <1>1, <2>1 DEF t
<1> QED BY <1>6, <1>7, <1>8, <1>9, <1>10 DEF DashInv, QueueSound

\* A call is sent: its row lets it through, or it is not clean, and nothing else
\* clean is under way for it.
LEMMA SendSound ==
  ASSUME Typed, DashInv, NEW call \in Calls, Send(call),
         UNCHANGED <<server, page>>, touched \subseteq touched', busy \subseteq busy',
         Sound(server, call),
         call.clean /\ call.op # "file" => ~Moving(calls, call.cfg),
         call.clean /\ call.op \in {"assign", "generate"} /\ ~call.new => ~Leaving(calls, call.who),
         call.op \in Moves =>
           /\ Moving(calls, call.cfg) => call.cfg \in touched'
           /\ call.cfg \in touched' \/ (call.cfg \in busy' /\ page.kind # "me" /\ dialog'.cfg # call.cfg)
           /\ dialog'.cfg = call.cfg => ~dialog'.clean,
         call.op = "suspend" => page.kind # "configs",
         \/ dialog' = NoDialog
         \/ /\ dialog'.kind = dialog.kind /\ dialog'.cfg = dialog.cfg
            /\ dialog'.clean => dialog.clean
  PROVE  DashInv'
<1>1. /\ calls \in Seq(Calls) /\ Len(calls) \in Nat
      /\ calls' \in Seq(Calls) /\ Len(calls') = Len(calls) + 1
      /\ \A i \in 1 .. Len(calls) : calls'[i] = calls[i] /\ i \in 1 .. Len(calls')
      /\ calls'[Len(calls) + 1] = call
  BY LenProperties, AppendProperties DEF Send, Typed, CallsTyped
<1>2. \A i \in 1 .. Len(calls') : i \in 1 .. Len(calls) \/ i = Len(calls) + 1
  BY <1>1
<1>3. \A x : /\ Moving(calls', x) => Moving(calls, x) \/ (call.op \in Moves /\ call.cfg = x)
             /\ Leaving(calls', x) => Leaving(calls, x) \/ (call.op = "suspend" /\ call.who = x)
  BY <1>1, <1>2 DEF Moving, Leaving
<1>4. Ordered(calls, touched)'
  <2> SUFFICES ASSUME NEW i \in 1 .. Len(calls'), NEW j \in 1 .. Len(calls'), i < j
               PROVE  LET p == calls'[i]  q == calls'[j]
                      IN  /\ p.op \in Moves /\ q.op \in Moves /\ p.cfg = q.cfg => p.cfg \in touched'
                          /\ p.op \in Moves /\ q.cfg = p.cfg /\ q.op # "file" => ~q.clean
                          /\ /\ p.op = "suspend" /\ q.op \in {"assign", "generate"}
                             /\ ~q.new /\ q.who = p.who
                             => ~q.clean
    BY DEF Ordered
  <2>1. i \in 1 .. Len(calls) /\ calls'[i] = calls[i]
    BY <1>1, <1>2
  <2>2. CASE j \in 1 .. Len(calls)
    BY <1>1, <2>1, <2>2 DEF DashInv, QueueSound, Ordered
  <2>3. CASE j = Len(calls) + 1
    <3>1. calls'[j] = call
      BY <1>1, <2>3
    <3>2. calls[i].op \in Moves => Moving(calls, calls[i].cfg)
      BY <2>1 DEF Moving
    <3>3. calls[i].op = "suspend" => Leaving(calls, calls[i].who)
      BY <2>1 DEF Leaving
    <3> QED BY <2>1, <3>1, <3>2, <3>3
  <2> QED BY <1>2, <2>2, <2>3
<1>5. \A i \in 1 .. Len(calls') : Sound(server', calls'[i])
  BY <1>1, <1>2 DEF DashInv, QueueSound
<1>6. dialog'.cfg \in {dialog.cfg, None}
  BY DEF NoDialog
<1>7. Held'
  <2>1. ASSUME NEW c \in Configs, Moving(calls', c)
        PROVE  c \in touched' \/ (c \in busy' /\ page.kind # "me" /\ dialog'.cfg # c)
    <3>1. c # None
      BY DashboardAssumption
    <3>2. CASE Moving(calls, c)
      BY <1>6, <3>1, <3>2 DEF DashInv, Held
    <3>3. CASE call.op \in Moves /\ call.cfg = c
      BY <3>3
    <3> QED BY <1>3, <2>1, <3>2, <3>3
  <2>2. ASSUME NEW p \in People, Leaving(calls', p)
        PROVE  p \in touched' \/ page.kind # "configs"
    BY <1>3, <2>2 DEF DashInv, Held
  <2> QED BY <2>1, <2>2 DEF Held
<1>8. DialogSound'
  <2>1. CASE dialog' = NoDialog
    BY <2>1 DEF DialogSound, NoDialog
  <2>2. CASE /\ dialog'.kind = dialog.kind /\ dialog'.cfg = dialog.cfg
             /\ dialog'.clean => dialog.clean
    BY <1>3, <2>2 DEF DashInv, DialogSound
  <2> QED BY <2>1, <2>2
<1>9. PageSound(page, server, touched)'
  BY DEF DashInv, PageSound
<1> QED BY <1>4, <1>5, <1>7, <1>8, <1>9 DEF DashInv, QueueSound

-----------------------------------------------------------------------------
(* The steps *)

\* A file is fetched whatever the row says.
LEMMA FileSound ==
  ASSUME NEW s, NEW h, h.op = "file"
  PROVE  Sound(s, h)
  BY AcceptsOthers DEF Sound

\* What is behind a call that has ended is sound for what it left: about the same
\* config nothing is clean, and nobody is worse off but who it suspended.
LEMMA EndedSound ==
  ASSUME Typed, DashInv, calls # <<>>, NEW h, h = Head(calls), h.op \notin {"file", "own"},
         NEW t \in Server, NEW rest \in Seq(Calls), Follows(rest, calls, 1),
         h.op = "suspend" => h.who # Me,
         h.cfg = None /\ h.op # "suspend" /\ h.who \in People => NotWorse(server, t, h.who)
  PROVE  /\ Target(h) \in Configs => Moving(calls, Target(h))
         /\ \A i \in 1 .. Len(rest) :
              {rest[i].cfg, rest[i].who} \cap (Changed(server, t) \ {Target(h)}) = {} => Sound(t, rest[i])
<1>1. h \in Calls /\ h = calls[1] /\ 1 \in 1 .. Len(calls)
  BY HeadTyped, HeadTailProperties, LenProperties DEF Typed, CallsTyped
<1>2. /\ h.cfg # None => h.op \in Moves /\ Target(h) = h.cfg /\ h.cfg \in Configs
      /\ h.cfg = None => Target(h) = h.who /\ Target(h) \notin Configs
  BY <1>1, DashboardAssumption DEF Calls, CallOps, Named, Moves, Target
<1>3. Target(h) \in Configs => Moving(calls, Target(h))
  BY <1>1, <1>2 DEF Moving
<1>4. ASSUME NEW i \in 1 .. Len(rest), rest[i].op # "file", rest[i].clean,
             {rest[i].cfg, rest[i].who} \cap (Changed(server, t) \ {Target(h)}) = {}
      PROVE  Sound(t, rest[i])
  <2> DEFINE g == rest[i]
  <2>1. /\ i + 1 \in 1 .. Len(calls) /\ Weaker(g, calls[i + 1]) /\ 1 < i + 1
        /\ g \in Calls /\ calls[i + 1] \in Calls
    BY <1>4, ElementOfSeq DEF Follows, Typed, CallsTyped
  <2>2. Sound(server, g)
    <3>1. Sound(server, calls[i + 1])
      BY <2>1 DEF DashInv, QueueSound
    <3> QED BY <2>1, <3>1 DEF Weaker, Sound, Accepts
  <2>3. calls[i + 1].clean /\ calls[i + 1].op # "file"
    BY <1>4, <2>1 DEF Weaker
  <2>4. Ordered(calls, touched)
    BY DEF DashInv, QueueSound
  <2>5. ~(h.op \in Moves /\ g.cfg = h.cfg)
    BY <1>1, <2>1, <2>3, <2>4 DEF Ordered, Weaker
  <2>6. g.cfg \in Configs => t.config[g.cfg] = server.config[g.cfg]
    BY <1>2, <1>4, <2>5 DEF Changed
  <2>7. ASSUME g.who \in People, Needs(g)
        PROVE  NotWorse(server, t, g.who)
    <3>1. CASE g.who # Target(h)
      BY <1>4, <2>7, <3>1 DEF Changed, NotWorse
    <3>2. CASE g.who = Target(h) /\ h.op # "suspend"
      <4>1. h.cfg = None /\ h.who = g.who
        BY <1>2, <2>7, <3>2, DashboardAssumption
      <4> QED BY <2>7, <3>2, <4>1
    <3>3. CASE g.who = Target(h) /\ h.op = "suspend"
      <4>1. h.who = g.who
        BY <1>1, <1>2, <3>3 DEF Calls, Named
      <4>2. CASE g.op = "own"
        BY <2>1, <3>3, <4>1, <4>2 DEF Calls, Named
      <4>3. CASE g.op \in {"assign", "generate"} /\ ~g.new
        BY <1>1, <2>1, <2>3, <2>4, <3>3, <4>1, <4>3 DEF Ordered, Weaker
      <4> QED BY <2>7, <4>2, <4>3 DEF Needs
    <3> QED BY <3>1, <3>2, <3>3
  <2> QED BY <2>1, <2>2, <2>6, <2>7, SoundKept DEF Typed
<1>5. ASSUME NEW i \in 1 .. Len(rest), rest[i].op = "file" \/ ~rest[i].clean
      PROVE  Sound(t, rest[i])
  BY <1>5, FileSound DEF Sound
<1> QED BY <1>3, <1>4, <1>5

\* Nobody is worse off for their own reactivation.
LEMMA ReactivatedKeeps ==
  ASSUME NEW s \in Server, NEW p \in People
  PROVE  NotWorse(s, Reactivated(s, p), p)
<1>1. Reactivated(s, p).row[p] = "active"
  BY DEF Reactivated, Server
<1>2. s.clerk[p] # "absent" => Reactivated(s, p).clerk[p] = "ok"
  BY DEF Reactivated, Server
<1> QED BY <1>1, <1>2 DEF NotWorse

\* A queue of one call.
LEMMA OneCall ==
  ASSUME NEW h \in Calls
  PROVE  <<h>> \in Seq(Calls) /\ Len(<<h>>) = 1
  OBVIOUS

\* A call that went through.
LEMMA SucceedSound ==
  ASSUME Typed, DashInv, NEW c \in Configs, NEW kept \in SUBSET Configs, Succeed(c, kept)
  PROVE  DashInv'
<1> PICK h : h = Head(calls)
  OBVIOUS
<1> PICK s : s = IF h.new THEN NewPerson(server, h.who) ELSE server
  OBVIOUS
<1> PICK t : t = Effect(s, h, c, kept)
  OBVIOUS
<1>1. calls # <<>> /\ h.op \notin {"file", "own"} /\ Accepts(server, h) /\ h \in Calls
  BY HeadTyped DEF Succeed
<1> PICK ended : ended = IF h.op = "generate" THEN "generate" ELSE ""
  OBVIOUS
<1>2. PICK got \in Gots(t, page.kind) :
        Refresh(t, got, Tail(calls) \o HandOver(h, c), ended, Target(h))
  BY DEF Succeed
<1>3. s \in Server /\ t \in Server
  BY <1>1, NewPersonTyped, EffectTyped DEF Typed
<1>4. /\ HandOver(h, c) \in Seq(Calls)
      /\ HandOver(h, c) = <<>> \/ (Len(HandOver(h, c)) = 1 /\ HandOver(h, c)[1].op = "file")
  <2> PICK x : x = IF h.op = "generate" THEN c ELSE h.cfg
    OBVIOUS
  <2>1. HandOver(h, c) # <<>> => x \in Configs
    BY <1>1 DEF HandOver, Calls, Named, Moves
  <2> PICK fetch : fetch = Call("file", x, None, FALSE, TRUE)
    OBVIOUS
  <2>2. HandOver(h, c) \in {<<fetch>>, <<>>}
    BY DEF HandOver
  <2>3. fetch.op = "file"
    BY DEF Call
  <2>4. x \in Configs => fetch \in Calls
    BY CallTyped DEF CallOps, Named, Moves
  <2>5. <<>> \in Seq(Calls)
    BY EmptySeq
  <2>6. fetch \in Calls => <<fetch>> \in Seq(Calls) /\ Len(<<fetch>>) = 1
    BY OneCall
  <2>7. <<fetch>>[1] = fetch
    OBVIOUS
  <2> QED BY <2>1, <2>2, <2>3, <2>4, <2>5, <2>6, <2>7
<1> PICK rest : rest = Tail(calls) \o HandOver(h, c)
  OBVIOUS
<1>5. rest \in Seq(Calls) /\ Follows(rest, calls, 1)
  BY <1>1, <1>4, HeadTyped, ConcatProperties, TailFollows
<1>6. ASSUME h.cfg = None, h.op # "suspend", h.who \in People
      PROVE  NotWorse(server, t, h.who)
  <2>1. h.op \in {"generate", "reactivate"}
    BY <1>1, <1>6, DashboardAssumption DEF Calls, CallOps, Named, Moves
  <2>2. NotWorse(server, s, h.who)
    BY <1>6 DEF NewPerson, NotWorse, Typed, Server
  <2>3. CASE h.op = "generate"
    BY <1>3, <2>2, <2>3 DEF Effect, SetConfig, NotWorse, Server
  <2>4. CASE h.op = "reactivate"
    <3>1. t = Reactivated(s, h.who)
      BY <2>4 DEF Effect
    <3>2. NotWorse(s, t, h.who)
      BY <1>3, <1>6, <3>1, ReactivatedKeeps
    <3> QED BY <2>2, <3>2 DEF NotWorse
  <2> QED BY <2>1, <2>3, <2>4
<1>7. h.op = "suspend" => h.who # Me
  BY <1>1 DEF Accepts
<1>8. /\ Target(h) \in Configs => Moving(calls, Target(h))
      /\ \A i \in 1 .. Len(rest) :
           {rest[i].cfg, rest[i].who} \cap (Changed(server, t) \ {Target(h)}) = {} => Sound(t, rest[i])
  BY <1>1, <1>3, <1>5, <1>6, <1>7, EndedSound
<1>9. \A d \in Configs : Moving(rest, d) /\ d \in busy /\ d \notin touched => d \in busy'
  <2>1. busy' = busy \ Settled(Head(calls))
    BY DEF Succeed
  <2> QED BY <1>1, <1>5, <2>1, SettledHeld
<1> QED BY <1>2, <1>3, <1>5, <1>8, <1>9, RefreshSound

\* A call that failed.
LEMMA FailSound ==
  ASSUME Typed, DashInv, NEW c \in Configs, Fail(c)
  PROVE  DashInv'
<1> PICK h : h = Head(calls)
  OBVIOUS
<1>0. PICK t \in Left(h, c) :
      IF t = server THEN calls' = Tail(calls) /\ UNCHANGED <<server, page, dialog, touched>>
      ELSE \E got \in Gots(t, page.kind) : Refresh(t, got, Tail(calls), "", Target(h))
  BY DEF Fail
<1>1. calls # <<>> /\ h \in Calls /\ busy' = busy \ Settled(h)
  BY HeadTyped DEF Fail
<1>2. CASE t = server
  BY <1>0, <1>1, <1>2, AnsweredSound
<1>3. CASE t # server
  <2> PICK s : s = IF h.new THEN NewPerson(server, h.who) ELSE server
    OBVIOUS
  <2>1. PICK got \in Gots(t, page.kind) : Refresh(t, got, Tail(calls), "", Target(h))
    BY <1>0, <1>3
  <2>2. h.op \in {"assign", "generate"} /\ t \in {s, SetConfig(s, c, "unassigned", None)}
    <3>1. h.new => h.op \in {"assign", "generate"}
      BY <1>1 DEF Calls, Named
    <3> QED BY <1>0, <1>3, <3>1 DEF Left
  <2>3. s \in Server /\ t \in Server
    BY <2>2, NewPersonTyped, SetConfigTyped DEF Typed, Statuses
  <2>4. h.who \in People => NotWorse(server, t, h.who)
    <3>1. h.who \in People => NotWorse(server, s, h.who)
      BY DEF NewPerson, NotWorse, Typed, Server
    <3> QED BY <2>2, <2>3, <3>1 DEF SetConfig, NotWorse, Server
  <2>5. Tail(calls) \in Seq(Calls) /\ Follows(Tail(calls), calls, 1)
    <3>1. <<>> \in Seq(Calls) /\ Tail(calls) \o <<>> = Tail(calls)
      BY <1>1, HeadTyped, ConcatProperties
    <3> QED BY <1>1, <3>1, TailFollows, HeadTyped
  <2> PICK rest : rest = Tail(calls)
    OBVIOUS
  <2>6. /\ Target(h) \in Configs => Moving(calls, Target(h))
        /\ \A i \in 1 .. Len(rest) :
             {rest[i].cfg, rest[i].who} \cap (Changed(server, t) \ {Target(h)}) = {} => Sound(t, rest[i])
    BY <1>1, <2>2, <2>3, <2>4, <2>5, EndedSound
  <2>7. \A d \in Configs : Moving(rest, d) /\ d \in busy /\ d \notin touched => d \in busy'
    BY <1>1, <2>5, SettledHeld
  <2> QED BY <2>1, <2>3, <2>5, <2>6, <2>7, RefreshSound
<1> QED BY <1>2, <1>3

\* An answer with a key in it.
LEMMA DeliverSound ==
  ASSUME Typed, DashInv, Deliver
  PROVE  DashInv'
  BY AnsweredSound DEF Deliver, DeliverFile, DeliverOwn, Delivered

\* The rest of the world.
LEMMA OthersSound ==
  ASSUME Typed, DashInv, Others
  PROVE  DashInv'
<1>0. server \in Server
  BY DEF Typed
<1>1. \A t \in Server : Behind(t) => DashInv'
  BY BehindSound
<1>2. ASSUME NEW c \in Configs, NEW p \in People, OtherConfig(c, p)
      PROVE  DashInv'
  <2>1. \A status \in Statuses, owner \in People \cup {None} : SetConfig(server, c, status, owner) \in Server
    BY <1>0, SetConfigTyped
  <2>2. \A status \in Statuses : SetStatus(server, c, status) \in Server
    BY <1>0, SetStatusTyped
  <2>3. {"unassigned", "active", "disabled", "revoked"} \subseteq Statuses
    BY DEF Statuses
  <2> QED BY <1>1, <1>2, <2>1, <2>2, <2>3 DEF OtherConfig
<1>3. ASSUME NEW p \in People, OtherPerson(p)
      PROVE  DashInv'
  <2>1. \A kept : Suspended(server, p, kept) \in Server
    BY <1>0, SuspendedTyped
  <2>2. Reactivated(server, p) \in Server /\ NewPerson(server, p) \in Server
    BY <1>0, ReactivatedTyped, NewPersonTyped
  <2> QED BY <1>1, <1>3, <2>1, <2>2 DEF OtherPerson
<1>4. ASSUME NEW p \in People, NEW state \in ClerkStates, OtherClerk(p, state)
      PROVE  DashInv'
  <2>1. \A x \in ClerkStates : [server EXCEPT !.clerk[p] = x] \in Server
    BY <1>0 DEF Server
  <2>2. "ok" \in ClerkStates
    BY DEF ClerkStates
  <2> QED BY <1>1, <1>4, <2>1, <2>2 DEF OtherClerk
<1>5. CASE OtherSync
  BY <1>0, <1>1, <1>5, SyncedTyped DEF OtherSync
<1>6. ASSUME NEW role \in Roles, Demote(role)
      PROVE  DashInv'
  BY <1>6 DEF Demote, DashInv, QueueSound, Held, DialogSound
<1> QED BY <1>2, <1>3, <1>4, <1>5, <1>6 DEF Others

\* A step that only opens or closes a dialog.
LEMMA DialogStep ==
  ASSUME Typed, DashInv, UNCHANGED <<server, page, busy, calls, touched>>,
         \A c \in Configs : dialog'.cfg = c /\ Moving(calls, c) => c \in touched,
         DialogSound'
  PROVE  DashInv'
<1>1. Held'
  <2>1. \A c \in Configs :
          Moving(calls, c) => c \in touched \/ (c \in busy /\ page.kind # "me" /\ dialog'.cfg # c)
    BY DEF DashInv, Held
  <2> QED BY <2>1 DEF DashInv, Held
<1> QED BY <1>1 DEF DashInv, QueueSound

\* What the browser does by itself.
LEMMA BrowseSound ==
  ASSUME Typed, DashInv, Browse
  PROVE  DashInv'
<1> DEFINE Kinds == {"assign", "return", "revoke"}
<1>0. /\ dialog.kind = "none" => dialog.cfg = None
      /\ dialog.kind \in Kinds => dialog.cfg \in Configs
      /\ dialog \in Dialogs /\ None \notin Configs /\ None \notin People
      /\ Held /\ DialogSound /\ PageSound(page, server, touched)
  BY DashboardAssumption DEF Typed, BrowserTyped, Dialogs, DashInv
<1>1. ASSUME NEW c \in Configs, NEW op \in Moves, op \in Offers(c), Fresh(c)
      PROVE  /\ page.kind # "me" /\ Lets(op, server.config[c].status)
  <2>1. page.kind # "me" /\ op \in Menu(page.rows[c])
    BY <1>1 DEF Offers, Moves
  <2>2. page.rows[c] # "none"
    BY <2>1 DEF Menu
  <2>3. page.rows[c] = server.config[c].status
    BY <1>0, <1>1, <2>2 DEF PageSound, Fresh
  <2> QED BY <1>1, <2>1, <2>3, MenuLets
<1>2. ASSUME NEW c \in Configs, NEW op \in Moves, op \in Offers(c)
      PROVE  page.kind # "me"
  BY <1>2 DEF Offers, Moves
<1>3. ASSUME NEW c \in Configs, Enabled(c), Moving(calls, c)
      PROVE  c \in touched
  BY <1>0, <1>3 DEF Enabled, Held
<1>4. ASSUME NEW kind, NEW who, NEW got \in Gots(server, kind), Open(kind, who, got)
      PROVE  DashInv'
  BY <1>4, OpenSound
<1>5. ASSUME NEW c \in Configs, NEW op \in {"disable", "enable"}, Press(c, op)
      PROVE  DashInv'
  <2> PICK call : call = Call(op, c, None, FALSE, Fresh(c))
    OBVIOUS
  <2>1. /\ call.op = op /\ call.cfg = c /\ call.who = None /\ call.clean = Fresh(c)
        /\ call \in Calls /\ op \in Moves
    BY CallTyped DEF Call, CallOps, Fresh, Named, Moves
  <2>2. /\ Enabled(c) /\ op \in Offers(c) /\ Send(call) /\ busy' = busy \cup {c}
        /\ UNCHANGED <<server, page, dialog, touched>> /\ dialog.kind = "none"
    BY <1>5 DEF Press, Enabled
  <2>3. Sound(server, call)
    BY <1>1, <2>1, <2>2, AcceptsMoves DEF Sound, Moves
  <2>4. call.clean => ~Moving(calls, c)
    BY <1>3, <2>1, <2>2 DEF Fresh
  <2>5. page.kind # "me"
    BY <1>2, <2>1, <2>2
  <2>6. Moving(calls, c) => c \in touched
    BY <1>3, <2>2
  <2> QED BY <1>0, <2>1, <2>2, <2>3, <2>4, <2>5, <2>6, SendSound
<1>6. ASSUME NEW c \in Configs, Retrieve(c)
      PROVE  DashInv'
  <2> PICK call : call = Call("file", c, None, FALSE, Fresh(c))
    OBVIOUS
  <2>1. call.op = "file" /\ call \in Calls
    BY CallTyped DEF Call, CallOps, Fresh, Named, Moves
  <2>2. Send(call) /\ UNCHANGED <<server, page, dialog, busy, touched>>
    BY <1>6 DEF Retrieve
  <2> QED BY <2>1, <2>2, FileSound, SendSound DEF Moves
<1>7. ASSUME NEW c \in Configs, RetrieveOwn(c)
      PROVE  DashInv'
  <2> PICK call : call = Call("own", c, Me, FALSE, Fresh(c) /\ Fresh(Me))
    OBVIOUS
  <2>1. /\ call.op = "own" /\ call.cfg = c /\ call.clean = (Fresh(c) /\ Fresh(Me)) /\ call \in Calls
    BY CallTyped, DashboardAssumption DEF Call, CallOps, Fresh, Named, Moves
  <2>2. /\ "own" \in Offers(c) /\ Send(call) /\ UNCHANGED <<server, page, dialog, busy, touched>>
    BY <1>7 DEF RetrieveOwn
  <2>3. page.kind = "me" /\ page.rows[c] = "active"
    BY <2>2 DEF Offers, Menu
  <2>4. call.clean => Own(server, c)
    BY <1>0, <2>1, <2>3 DEF PageSound, Fresh
  <2>5. Sound(server, call)
    BY <2>1, <2>4 DEF Sound, Accepts
  <2>6. call.clean => ~Moving(calls, c)
    BY <1>0, <2>1, <2>3 DEF Held, Fresh
  <2> QED BY <2>1, <2>2, <2>5, <2>6, SendSound DEF Moves
<1>8. ASSUME NEW c \in Configs, NEW op \in Kinds, OpenConfig(c, op)
      PROVE  DashInv'
  <2>1. /\ Enabled(c) /\ op \in Offers(c) /\ op \in Moves
        /\ dialog'.kind = op /\ dialog'.cfg = c /\ dialog'.clean = Fresh(c)
        /\ UNCHANGED <<server, page, busy, calls, touched>>
    BY <1>8 DEF OpenConfig, Moves
  <2>2. DialogSound'
    <3>1. page.kind # "me" /\ (Fresh(c) => Lets(op, server.config[c].status))
      BY <1>1, <1>2, <2>1
    <3>2. Fresh(c) => ~Moving(calls, c)
      BY <1>3, <2>1 DEF Fresh
    <3> QED BY <2>1, <3>1, <3>2 DEF DialogSound
  <2> QED BY <1>3, <2>1, <2>2, DialogStep
<1>9. ASSUME NEW c \in Configs, Undo(c)
      PROVE  DashInv'
  <2> PICK call : call = Call("enable", c, None, FALSE, FALSE)
    OBVIOUS
  <2>1. call.op = "enable" /\ call.cfg = c /\ ~call.clean /\ call \in Calls
    BY CallTyped DEF Call, CallOps, Named, Moves
  <2>2. /\ Send(call) /\ UNCHANGED <<server, page>> /\ busy \subseteq busy'
        /\ touched' = touched \cup {c} /\ dialog' = Doubted({c})
    BY <1>9 DEF Undo
  <2>3. /\ dialog'.kind = dialog.kind /\ dialog'.cfg = dialog.cfg
        /\ dialog'.clean => dialog.clean /\ dialog.cfg # c
    BY <1>0, <2>2 DEF Doubted, Dialogs
  <2>4. Sound(server, call)
    BY <2>1 DEF Sound
  <2> QED BY <2>1, <2>2, <2>3, <2>4, SendSound
<1>10. ASSUME NEW c \in Configs, ToastEnds(c)
       PROVE  DashInv'
  BY <1>10 DEF ToastEnds, DashInv, QueueSound, Held, DialogSound
<1>11. ASSUME NEW p \in People, OpenPerson(p)
       PROVE  DashInv'
  <2>1. /\ "suspend" \in PersonOffers(p)
        /\ dialog'.kind = "suspend" /\ dialog'.cfg = None
        /\ UNCHANGED <<server, page, busy, calls, touched>>
    BY <1>11 DEF OpenPerson
  <2>2. page.kind # "configs"
    BY <1>0, <2>1 DEF PersonOffers, PageSound
  <2>3. DialogSound'
    BY <2>1, <2>2 DEF DialogSound
  <2> QED BY <1>0, <2>1, <2>3, DialogStep
<1>12. ASSUME NEW p \in People, Reactivate(p)
       PROVE  DashInv'
  <2> PICK call : call = Call("reactivate", None, p, FALSE, Fresh(p))
    OBVIOUS
  <2>1. call.op = "reactivate" /\ call.cfg = None /\ call \in Calls
    BY CallTyped DEF Call, CallOps, Fresh, Named, Moves
  <2>2. Send(call) /\ UNCHANGED <<server, page, dialog, touched>> /\ busy \subseteq busy'
    BY <1>12 DEF Reactivate
  <2>3. Sound(server, call)
    <3>1. Accepts(server, call)
      BY <2>1 DEF Accepts
    <3> QED BY <2>1, <3>1 DEF Sound
  <2>4. ~Moving(calls, None)
    BY <1>0, MovesConfig DEF Typed, CallsTyped
  <2> QED BY <2>1, <2>2, <2>3, <2>4, SendSound DEF Moves
<1>13. ASSUME NEW p \in People, p \in page.options, Fresh(p)
       PROVE  Present(server, p) /\ ~Leaving(calls, p)
  <2>1. page.kind = "configs"
    BY <1>0, <1>13 DEF PageSound
  <2> QED BY <1>0, <1>13, <2>1 DEF PageSound, Held, Fresh
<1>14. ASSUME NEW p \in People, ConfirmAssign(p)
       PROVE  DashInv'
  <2> PICK c \in Configs : c = dialog.cfg
    BY <1>0, <1>14 DEF ConfirmAssign
  <2> PICK call : call = Call("assign", c, p, ReadAsNew(p), dialog.clean /\ Fresh(p))
    OBVIOUS
  <2>1. /\ call.op = "assign" /\ call.cfg = c /\ call.who = p /\ call.new = ReadAsNew(p)
        /\ call.clean = (dialog.clean /\ Fresh(p))
    BY DEF Call
  <2>2. call \in Calls
    <3>1. ReadAsNew(p) \in BOOLEAN /\ (dialog.clean /\ Fresh(p)) \in BOOLEAN
      BY <1>0 DEF ReadAsNew, Fresh, Dialogs
    <3> QED BY <3>1, CallTyped DEF CallOps, Named, Moves
  <2>3. /\ dialog.kind = "assign" /\ Send(call) /\ busy' = busy \cup {c} /\ dialog' = NoDialog
        /\ UNCHANGED <<server, page, touched>>
    BY <1>14 DEF ConfirmAssign
  <2>4. /\ page.kind # "me"
        /\ call.clean => ~Moving(calls, c) /\ Lets("assign", server.config[c].status)
        /\ Moving(calls, c) => c \in touched
    BY <1>0, <2>1, <2>3 DEF DialogSound, Held
  <2>5. call.clean /\ ~call.new => Present(server, p) /\ ~Leaving(calls, p)
    BY <1>13, <2>1 DEF ReadAsNew
  <2>6. Sound(server, call)
    BY <2>1, <2>2, <2>4, <2>5, AcceptsMoves DEF Sound, Moves
  <2>7. dialog'.cfg # c
    BY <1>0, <2>3 DEF NoDialog
  <2> QED BY <2>1, <2>2, <2>3, <2>4, <2>5, <2>6, <2>7, SendSound
<1>15. ASSUME NEW p \in People \cup {None}, Submit(p)
       PROVE  DashInv'
  <2> PICK call : call = Call("generate", None, p, p # None /\ ReadAsNew(p), Fresh(p))
    OBVIOUS
  <2>1. /\ call.op = "generate" /\ call.cfg = None /\ call.who = p
        /\ call.new = (p # None /\ ReadAsNew(p)) /\ call.clean = Fresh(p)
    BY DEF Call
  <2>2. call \in Calls
    <3>1. (p # None /\ ReadAsNew(p)) \in BOOLEAN /\ Fresh(p) \in BOOLEAN
      BY DEF ReadAsNew, Fresh
    <3>2. p # None => p \in People
      OBVIOUS
    <3> QED BY <3>1, <3>2, CallTyped DEF CallOps, Named, Moves
  <2>3. Send(call) /\ UNCHANGED <<server, page, dialog, busy, touched>>
    BY <1>15 DEF Submit
  <2>4. ~Moving(calls, None) /\ ~Leaving(calls, None)
    BY <1>0, MovesConfig, LeavingTarget DEF Typed, CallsTyped
  <2>5. p # None /\ call.clean /\ ~call.new => Present(server, p) /\ ~Leaving(calls, p)
    BY <1>13, <2>1 DEF ReadAsNew
  <2>6. Sound(server, call)
    <3>1. Accepts(server, call)
      BY <2>1, AcceptsOthers
    <3> QED BY <2>1, <2>5, <3>1 DEF Sound
  <2> QED BY <2>1, <2>2, <2>3, <2>4, <2>5, <2>6, SendSound DEF Moves
<1>16. CASE Focus
  <2>1. PICK got \in Gots(server, "users") : Refresh(server, got, calls, "", None)
    BY <1>16 DEF Focus
  <2>2. page.kind = "users" /\ busy' = busy
    BY <1>16 DEF Focus
  <2>3. calls \in Seq(Calls) /\ server \in Server
    BY DEF Typed, CallsTyped
  <2>4. Follows(calls, calls, 0)
    <3>1. \A i \in 1 .. Len(calls) : i + 0 = i /\ Weaker(calls[i], calls[i])
      BY DEF Weaker
    <3> QED BY <3>1 DEF Follows
  <2>5. \A i \in 1 .. Len(calls) : Sound(server, calls[i])
    BY DEF DashInv, QueueSound
  <2> QED BY <1>0, <2>1, <2>2, <2>3, <2>4, <2>5, RefreshSound
<1>17. CASE OpenGenerate
  <2>1. /\ dialog'.kind = "generate" /\ dialog'.cfg = None
        /\ UNCHANGED <<server, page, busy, calls, touched>>
    BY <1>17 DEF OpenGenerate, NoDialog
  <2>2. DialogSound'
    BY <2>1 DEF DialogSound
  <2> QED BY <1>0, <2>1, <2>2, DialogStep
<1>18. CASE Cancel
  <2>1. /\ dialog'.kind = "none" /\ dialog'.cfg = None
        /\ UNCHANGED <<server, page, busy, calls, touched>>
    BY <1>18 DEF Cancel, NoDialog
  <2>2. DialogSound'
    BY <2>1 DEF DialogSound
  <2> QED BY <1>0, <2>1, <2>2, DialogStep
<1>19. CASE Confirm
  <2> PICK c \in Configs : c = dialog.cfg
    BY <1>0, <1>19 DEF Confirm
  <2> PICK op \in {"return", "revoke"} : op = dialog.kind
    BY <1>19 DEF Confirm
  <2> PICK call : call = Call(op, c, None, FALSE, dialog.clean)
    OBVIOUS
  <2>1. call.op = op /\ call.cfg = c /\ call.clean = dialog.clean /\ op \in Moves
    BY DEF Call, Moves
  <2>2. call \in Calls
    <3>1. dialog.clean \in BOOLEAN
      BY <1>0 DEF Dialogs
    <3> QED BY <3>1, CallTyped DEF CallOps, Named, Moves
  <2>3. /\ Send(call) /\ busy' = busy \cup {c} /\ dialog' = NoDialog
        /\ UNCHANGED <<server, page, touched>>
    BY <1>19 DEF Confirm
  <2>4. /\ page.kind # "me"
        /\ call.clean => ~Moving(calls, c) /\ Lets(op, server.config[c].status)
        /\ Moving(calls, c) => c \in touched
    BY <1>0, <2>1, <2>3 DEF DialogSound, Held
  <2>5. Sound(server, call)
    BY <2>1, <2>2, <2>4, AcceptsMoves DEF Sound, Moves
  <2>6. dialog'.cfg # c
    BY <1>0, <2>3 DEF NoDialog
  <2> QED BY <2>1, <2>2, <2>3, <2>4, <2>5, <2>6, SendSound
<1>20. CASE ConfirmSuspend
  <2> PICK p \in People : p = dialog.who
    BY <1>0, <1>20 DEF ConfirmSuspend, Dialogs
  <2> PICK call : call = Call("suspend", None, p, FALSE, dialog.clean)
    OBVIOUS
  <2>1. call.op = "suspend" /\ call.cfg = None
    BY DEF Call
  <2>2. call \in Calls
    <3>1. dialog.clean \in BOOLEAN
      BY <1>0 DEF Dialogs
    <3> QED BY <3>1, CallTyped DEF CallOps, Named, Moves
  <2>3. /\ Send(call) /\ busy \subseteq busy' /\ dialog' = NoDialog
        /\ UNCHANGED <<server, page, touched>>
    BY <1>20 DEF ConfirmSuspend
  <2>4. page.kind # "configs"
    BY <1>0, <1>20 DEF ConfirmSuspend, DialogSound
  <2>5. Sound(server, call)
    BY <2>1 DEF Sound
  <2>6. ~Moving(calls, None)
    BY <1>0, MovesConfig DEF Typed, CallsTyped
  <2> QED BY <2>1, <2>2, <2>3, <2>4, <2>5, <2>6, SendSound DEF Moves
<1> QED
  BY <1>4, <1>5, <1>6, <1>7, <1>8, <1>9, <1>10, <1>11, <1>12, <1>14, <1>15, <1>16, <1>17, <1>18,
     <1>19, <1>20 DEF Browse

\* Nothing is shown, and nothing under way, at the start.
LEMMA InitSound == Init => DashInv
<1> SUFFICES ASSUME Init PROVE DashInv
  OBVIOUS
<1>1. page = NoPage /\ dialog = NoDialog /\ calls = <<>>
  BY DEF Init
<1>2. PageSound(page, server, touched)
  BY <1>1, NoPageSound
<1>3. 1 .. Len(calls) = {}
  BY <1>1
<1>4. Ordered(calls, touched) /\ \A i \in 1 .. Len(calls) : Sound(server, calls[i])
  BY <1>3 DEF Ordered
<1>5. Held
  BY <1>3 DEF Held, Moving, Leaving
<1>6. DialogSound
  BY <1>1 DEF DialogSound, NoDialog
<1> QED BY <1>2, <1>4, <1>5, <1>6 DEF DashInv, QueueSound

\* The invariant is inductive.
LEMMA DashStep == Typed /\ DashInv /\ [Next]_vars => DashInv'
<1> SUFFICES ASSUME Typed, DashInv, [Next]_vars PROVE DashInv'
  OBVIOUS
<1>1. CASE Browse
  BY <1>1, BrowseSound
<1>2. ASSUME NEW c \in Configs, NEW kept \in SUBSET Configs, Succeed(c, kept) PROVE DashInv'
  BY <1>2, SucceedSound
<1>3. ASSUME NEW c \in Configs, Fail(c) PROVE DashInv'
  BY <1>3, FailSound
<1>4. CASE Deliver
  BY <1>4, DeliverSound
<1>5. CASE Others
  BY <1>5, OthersSound
<1>6. CASE UNCHANGED vars
  BY <1>6 DEF vars, DashInv, QueueSound, Held, DialogSound
<1> QED BY <1>1, <1>2, <1>3, <1>4, <1>5, <1>6 DEF Next, Serve

\* The call that is next in the queue.
LEMMA HeadSound ==
  ASSUME Typed, DashInv, calls # <<>>
  PROVE  Head(calls) \in Calls /\ Sound(server, Head(calls))
<1>1. Head(calls) = calls[1] /\ 1 \in 1 .. Len(calls)
  BY HeadTailProperties, LenProperties DEF Typed, CallsTyped
<1> QED BY <1>1, HeadTyped DEF DashInv, QueueSound

\* What a page offers an admin, or the portal anybody, is done, unless somebody
\* else overtook it: however many calls wait, whatever dialogs, pages and toasts
\* they came from, and whatever fails in between (row-actions.tsx).
THEOREM OffersAreHonoured == Spec => []RefusedOnlyWhenOvertaken
<1>1. Spec => [](Typed /\ DashInv)
  BY InitTyped, TypedStep, InitSound, DashStep, PTL DEF Spec
<1>2. Typed /\ DashInv => RefusedOnlyWhenOvertaken
  <2> SUFFICES ASSUME Typed, DashInv, calls # <<>>, Refused(Head(calls)), Head(calls).clean,
                      claims = "admin" \/ Head(calls).op = "own"
               PROVE  (Head(calls).op = "suspend" /\ Head(calls).who = Me) \/ Taken(Head(calls))
    BY DEF RefusedOnlyWhenOvertaken
  <2> DEFINE h == Head(calls)
  <2>1. h \in Calls /\ Sound(server, h) /\ claims \in Roles
    BY HeadSound DEF Typed
  <2>2. claims \in Allowed(h.op)
    BY <2>1 DEF Allowed
  <2>3. ~Accepts(server, h) \/ Taken(h)
    BY <2>2 DEF Refused
  <2>4. ~Accepts(server, h) => h.op = "suspend"
    BY <2>1 DEF Sound
  <2>5. h.op = "suspend" /\ h.who # Me => Accepts(server, h)
    BY DEF Accepts
  <2> QED BY <2>3, <2>4, <2>5
<1> QED BY <1>1, <1>2, PTL

\* A config goes to somebody who is active and exists, unless that changed behind
\* the page (configs/page.tsx).
THEOREM AssignsToActive == Spec => []AssignedToActive
<1>1. Spec => [](Typed /\ DashInv)
  BY InitTyped, TypedStep, InitSound, DashStep, PTL DEF Spec
<1>2. Typed /\ DashInv => AssignedToActive
  BY HeadSound DEF AssignedToActive, Sound, Present
<1> QED BY <1>1, <1>2, PTL

=============================================================================
