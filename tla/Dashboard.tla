----------------------------- MODULE Dashboard -----------------------------
(***************************************************************************)
(* One person's browser: the pages the server renders for them, what their *)
(* menus and dialogs offer, and the server actions these call, while other *)
(* staff, Clerk and other pages change what was rendered.                  *)
(*                                                                         *)
(* A page shows the rows as they were when it was rendered.  Calls are     *)
(* sent one after the other (Next.js queues server actions), each checks   *)
(* role and status again, and one that succeeded renders the page anew.    *)
(* What overlapping server actions do is the matter of Lifecycle and       *)
(* Access: here the server takes one call at a time.                       *)
(***************************************************************************)
EXTENDS Naturals, Sequences, FiniteSets

CONSTANTS
  People,     \* everyone who may get a row, each under a label of their own
  Local,      \* those without a login
  Me,         \* the person at the browser
  Configs,    \* ids of config rows
  None,
  Detailed,   \* bound: the people whose detail page is opened
  MaxPending  \* bound: calls waiting, plus the steps others have taken

ASSUME DashboardAssumption ==
  /\ Local \subseteq People /\ Me \in People \ Local
  /\ People \cap Configs = {} /\ None \notin People \cup Configs
  /\ Detailed \subseteq People /\ MaxPending \in Nat \ {0}

VARIABLES
  server,   \* config, row, clerk and the cached list of Clerk users
  claims,   \* the role in the session of the browser
  page,     \* what the browser shows
  dialog,   \* the dialog that is open over it
  busy,     \* the rows with a transition pending, whose items are disabled
  undo,     \* the configs with an Undo toast
  calls,    \* server actions under way, oldest first
  touched,  \* what changed behind the page since it was rendered
  others    \* steps the rest of the world has taken

browser == <<page, dialog, busy, undo, calls, touched>>
vars == <<server, claims, page, dialog, busy, undo, calls, touched, others>>

-----------------------------------------------------------------------------
(* The server's rows *)

Roles    == {"admin", "ops", "none"}
Statuses == {"none", "unassigned", "active", "disabled", "revoked"}
RowStates   == {"none", "active", "suspended"}
ClerkStates == {"absent", "ok", "banned"}

Server ==
  [config: [Configs -> [status: Statuses, owner: People \cup {None}]],
   row: [People -> RowStates], clerk: [People -> ClerkStates],
   last: (SUBSET People) \cup {None}]

Active(s, p)  == {c \in Configs : s.config[c].status = "active" /\ s.config[c].owner = p}
InClerk(s)    == {p \in People : s.clerk[p] # "absent"}

\* (mutant) Clerk's own word for it is stored.
StatusVerbatim(state) == state

StatusOf(state) == IF state = "banned" THEN "suspended" ELSE "active"

SetConfig(s, c, status, owner) == [s EXCEPT !.config[c] = [status |-> status, owner |-> owner]]
SetStatus(s, c, status)        == [s EXCEPT !.config[c].status = status]

\* createLocalPerson: refused when somebody has the name.
NewPerson(s, p) == [s EXCEPT !.row[p] = "active"]

\* suspendUser, when the tunnels of kept could not be stopped, and reactivateUser.
Suspended(s, p, kept) ==
  [config |-> [c \in Configs |-> IF c \in Active(s, p) \ kept THEN [s.config[c] EXCEPT !.status = "disabled"]
                                 ELSE s.config[c]],
   row    |-> [s.row EXCEPT ![p] = "suspended"],
   clerk  |-> [s.clerk EXCEPT ![p] = IF @ = "absent" THEN @ ELSE "banned"],
   last   |-> None]
Reactivated(s, p) ==
  [config |-> s.config,
   row    |-> [s.row EXCEPT ![p] = "active"],
   clerk  |-> [s.clerk EXCEPT ![p] = IF @ = "absent" THEN @ ELSE "ok"],
   last   |-> None]

\* syncUsersFromClerk with Clerk's answer: the mirror and the cached list.
Synced(s) ==
  [s EXCEPT !.row = [p \in People |-> IF s.clerk[p] # "absent" THEN StatusOf(s.clerk[p]) ELSE @[p]],
            !.last = InClerk(s)]

\* The rows that differ between two states of the server.
Changed(s, t) ==
  {c \in Configs : s.config[c] # t.config[c]}
    \cup {p \in People : s.row[p] # t.row[p] \/ s.clerk[p] # t.clerk[p]}

-----------------------------------------------------------------------------
(* Pages *)

\* The list of Clerk users a page works with: as cached less than 15 s ago, as
\* Clerk gives it now, or none because Clerk cannot be reached or is not asked.
Gots(s, kind) ==
  IF kind \in {"me", "none"} THEN {"down"}
  ELSE {"fresh", "down"} \cup (IF s.last # None /\ kind # "users" THEN {"cached"} ELSE {})

After(s, got) == IF got = "fresh" THEN Synced(s) ELSE s

\* presenceLookup and accessOf, from the list.
AccessOf(s, got, p) ==
  IF p \in Local THEN "local"
  ELSE IF \/ got = "fresh" /\ s.clerk[p] = "absent"
          \/ got = "cached" /\ p \notin s.last
       THEN "missing" ELSE "clerk"

\* (mutant) the filter on the status is left out of the query.
AssignableToAll(s, got) == {p \in People : s.row[p] # "none" /\ AccessOf(s, got, p) # "missing"}

\* The people a config can be assigned to: active, and in the list if they have
\* a login.
Assignable(s, got) ==
  LET t == After(s, got) IN {p \in People : t.row[p] = "active" /\ AccessOf(s, got, p) # "missing"}

Hidden == [status |-> "none", access |-> "local", live |-> FALSE]

\* A person whose row read status, as a page shows them.
PersonShown(s, got, p, status) ==
  IF status = "none" THEN Hidden
  ELSE [status |-> status, access |-> AccessOf(s, got, p), live |-> Active(s, p) # {}]

NoPage == [kind |-> "none", who |-> None, role |-> "none", rows |-> [c \in Configs |-> "none"],
           people |-> [p \in People |-> Hidden], options |-> {}]

ConfigsPage(s, role, got) ==
  [NoPage EXCEPT !.kind = "configs", !.who = Me, !.role = role,
                 !.rows = [c \in Configs |-> s.config[c].status], !.options = Assignable(s, got)]

\* The list is mirrored before the rows are read.
UsersPage(s, role, got) ==
  LET t == After(s, got)
  IN [NoPage EXCEPT !.kind = "users", !.who = Me, !.role = role,
                    !.people = [p \in People |-> PersonShown(s, got, p, t.row[p])]]

\* The person's row is read before the list is mirrored.
UserDetailPage(s, who, role, got) ==
  [NoPage EXCEPT !.kind = "user", !.who = who, !.role = role,
                 !.rows = [c \in Configs |-> IF s.config[c].owner = who THEN s.config[c].status ELSE "none"],
                 !.people[who] = PersonShown(s, got, who, s.row[who])]

\* myConfigs: one's own configs that are on or off, unless one is suspended.
MePage(s, role) ==
  [NoPage EXCEPT !.kind = "me", !.who = Me, !.role = role,
                 !.rows = [c \in Configs |->
                   IF s.row[Me] = "active" /\ s.config[c].owner = Me
                        /\ s.config[c].status \in {"active", "disabled"}
                   THEN s.config[c].status ELSE "none"]]

Rendered(s, kind, who, role, got) ==
  CASE kind = "configs" -> ConfigsPage(s, role, got)
    [] kind = "users"   -> UsersPage(s, role, got)
    [] kind = "user"    -> UserDetailPage(s, who, role, got)
    [] kind = "me"      -> MePage(s, role)
    [] OTHER            -> NoPage

\* What a page could not know when it was rendered: who is in Clerk, or the row
\* the mirror has just changed.
Unknown(s, kind, got) ==
  {p \in People \ Local : \/ got = "down" /\ s.clerk[p] = "absent"
                          \/ got = "cached" /\ (p \in s.last) # (s.clerk[p] # "absent")
                          \/ kind = "user" /\ After(s, got).row[p] # s.row[p]}

\* The kinds of page each role is let into; the portal asks for a row only.
MayOpen(s, role, kind, who) ==
  \/ kind \in {"configs", "users"} /\ role # "none"
  \/ kind = "user" /\ role # "none" /\ s.row[who] # "none"
  \/ kind = "me" /\ s.row[Me] # "none"

-----------------------------------------------------------------------------
(* What a page offers *)

\* The items of a config's menu, by the status that is shown.
Menu(status) ==
  CASE status = "unassigned" -> {"assign", "revoke"}
    [] status = "active"     -> {"disable", "return", "revoke"}
    [] status = "disabled"   -> {"enable", "revoke"}
    [] OTHER                 -> {}

\* ConfigRowActions; on the detail page admins alone have it, on the portal the
\* card of an active config has one button.
Offers(c) ==
  LET status == page.rows[c]
  IN IF page.kind = "me" THEN (IF status = "active" THEN {"own"} ELSE {})
     ELSE IF page.kind = "user" /\ page.role # "admin" THEN {}
     ELSE Menu(status) \cup (IF page.role = "admin" /\ status \notin {"none", "revoked"}
                             THEN {"file"} ELSE {})

\* UserRowActions, for admins.  Of somebody who is out already only the tunnels
\* are left to stop.
PersonOffers(p) ==
  LET u == page.people[p]
      active == u.status = "active"
      tunnelsOnly == u.live /\ (u.access = "missing" \/ (~active /\ u.access # "local"))
  IN IF page.role # "admin" \/ u.status = "none" THEN {}
     ELSE (IF tunnelsOnly \/ (active /\ u.access # "missing") THEN {"suspend"} ELSE {})
            \cup (IF ~active /\ u.access # "missing" THEN {"reactivate"} ELSE {})

NoDialog == [kind |-> "none", cfg |-> None, who |-> None, clean |-> TRUE]

\* A call: its target, whether its person is to be created, and whether its row
\* is still as it was when the button was shown.
Call(op, c, p, new, clean) == [op |-> op, cfg |-> c, who |-> p, new |-> new, clean |-> clean]

Send(call) ==
  /\ Len(calls) + others < MaxPending
  /\ calls' = Append(calls, call)

Fresh(x) == x \notin touched

\* The dialog once some rows have changed behind it.
Doubted(changed) ==
  [dialog EXCEPT !.clean = @ /\ {dialog.cfg, dialog.who} \cap changed = {}]

\* (mutant) the items stay enabled while a transition is pending.
NeverIdle(x) == dialog.kind = "none"

\* An item can be chosen: its row has no transition pending, and no dialog is
\* in the way.
Enabled(x) == x \notin busy /\ dialog.kind = "none"

\* Disable, Re-enable: at once, without a dialog.
Press(c, op) ==
  /\ Enabled(c) /\ op \in Offers(c) \cap {"disable", "enable"}
  /\ Send(Call(op, c, None, FALSE, Fresh(c)))
  /\ busy' = busy \cup {c}
  /\ UNCHANGED <<server, claims, page, dialog, undo, touched, others>>

\* useConfigFile: no transition of the row.
Retrieve(c) ==
  /\ dialog.kind = "none" /\ "file" \in Offers(c)
  /\ Send(Call("file", c, None, FALSE, Fresh(c)))
  /\ UNCHANGED <<server, claims, page, dialog, busy, undo, touched, others>>

\* The button of a ConfigCard.
RetrieveOwn(c) ==
  /\ "own" \in Offers(c)
  /\ Send(Call("own", c, Me, FALSE, Fresh(c) /\ Fresh(Me)))
  /\ UNCHANGED <<server, claims, page, dialog, busy, undo, touched, others>>

\* The Undo of a toast, at any time while it is shown; the row it came from may
\* be gone from the page.
Undo(c) ==
  /\ c \in undo
  /\ Send(Call("enable", c, None, FALSE, FALSE))
  /\ undo' = undo \ {c}
  /\ busy' \in {busy, busy \cup {c}}
  /\ touched' = touched \cup {c}
  /\ dialog' = Doubted({c})
  /\ UNCHANGED <<server, claims, page, others>>

\* Assign to..., Return to pool, Revoke: a dialog first.
OpenConfig(c, op) ==
  /\ Enabled(c) /\ op \in Offers(c) \cap {"assign", "return", "revoke"}
  /\ dialog' = [kind |-> op, cfg |-> c, who |-> None, clean |-> Fresh(c)]
  /\ UNCHANGED <<server, claims, page, busy, undo, calls, touched, others>>

\* Suspend access, Stop live tunnels.
OpenPerson(p) ==
  /\ Enabled(p) /\ "suspend" \in PersonOffers(p)
  /\ dialog' = [kind |-> "suspend", cfg |-> None, who |-> p, clean |-> Fresh(p)]
  /\ UNCHANGED <<server, claims, page, busy, undo, calls, touched, others>>

Reactivate(p) ==
  /\ Enabled(p) /\ "reactivate" \in PersonOffers(p)
  /\ Send(Call("reactivate", None, p, FALSE, Fresh(p)))
  /\ busy' = busy \cup {p}
  /\ UNCHANGED <<server, claims, page, dialog, undo, touched, others>>

OpenGenerate ==
  /\ page.kind = "configs" /\ page.role = "admin" /\ dialog.kind = "none"
  /\ dialog' = [NoDialog EXCEPT !.kind = "generate"]
  /\ UNCHANGED <<server, claims, page, busy, undo, calls, touched, others>>

Cancel ==
  /\ dialog.kind # "none"
  /\ dialog' = NoDialog
  /\ UNCHANGED <<server, claims, page, busy, undo, calls, touched, others>>

\* Return and Revoke confirmed.
Confirm ==
  /\ dialog.kind \in {"return", "revoke"}
  /\ Send(Call(dialog.kind, dialog.cfg, None, FALSE, dialog.clean))
  /\ busy' = busy \cup {dialog.cfg}
  /\ dialog' = NoDialog
  /\ UNCHANGED <<server, claims, page, undo, touched, others>>

\* Suspend, or stopping the tunnels, confirmed.
ConfirmSuspend ==
  /\ dialog.kind = "suspend"
  /\ Send(Call("suspend", None, dialog.who, FALSE, dialog.clean))
  /\ busy' = busy \cup {dialog.who}
  /\ dialog' = NoDialog
  /\ UNCHANGED <<server, claims, page, undo, touched, others>>

\* AssigneeField: whoever's label is typed or picked is the person if the options
\* still have them, and else a new person of that name.
ReadAsNew(p) == p \notin page.options

ConfirmAssign(p) ==
  /\ dialog.kind = "assign"
  /\ Send(Call("assign", dialog.cfg, p, ReadAsNew(p), dialog.clean /\ Fresh(p)))
  /\ busy' = busy \cup {dialog.cfg}
  /\ dialog' = NoDialog
  /\ UNCHANGED <<server, claims, page, undo, touched, others>>

\* The generate form: nobody, for a spare, or a person.  The dialog stays open
\* and its button enabled until the call has succeeded.
Submit(p) ==
  /\ dialog.kind = "generate"
  /\ Send(Call("generate", None, p, p # None /\ ReadAsNew(p), Fresh(p)))
  /\ UNCHANGED <<server, claims, page, dialog, busy, undo, touched, others>>

-----------------------------------------------------------------------------
(* The server actions *)

\* (mutant) whoever is staff may do what the menu offers them.
AllowedToStaff(op) ==
  IF op = "own" THEN Roles
  ELSE IF op \in {"disable", "enable", "revoke", "assign", "return"} THEN {"admin", "ops"}
  ELSE {"admin"}

\* actingStaff at the head of each function.
Allowed(op) ==
  IF op = "own" THEN Roles
  ELSE IF op \in {"disable", "enable", "revoke"} THEN {"admin", "ops"} ELSE {"admin"}

\* getOwnConfigFile: a member, not suspended, and their own active config.
Own(s, c) == s.row[Me] = "active" /\ s.config[c].status = "active" /\ s.config[c].owner = Me

\* The status each function insists on, and what else it refuses.
Accepts(s, h) ==
  LET status == IF h.cfg = None THEN "none" ELSE s.config[h.cfg].status
  IN CASE h.op = "assign"     -> status = "unassigned"
       [] h.op = "enable"     -> status = "disabled"
       [] h.op \in {"disable", "return"} -> status = "active"
       [] h.op = "revoke"     -> status # "revoked"
       [] h.op = "own"        -> Own(s, h.cfg)
       [] h.op = "suspend"    -> h.who # Me
       [] OTHER               -> TRUE   \* file, generate, reactivate

\* The rows after a call that went through, c being the config it made and kept
\* those a suspension could not stop.
Effect(s, h, c, kept) ==
  CASE h.op = "assign"     -> SetConfig(s, h.cfg, "active", h.who)
    [] h.op = "return"     -> SetConfig(s, h.cfg, "unassigned", None)
    [] h.op = "disable"    -> SetStatus(s, h.cfg, "disabled")
    [] h.op = "enable"     -> SetStatus(s, h.cfg, "active")
    [] h.op = "revoke"     -> SetStatus(s, h.cfg, "revoked")
    [] h.op = "generate"   -> IF h.who = None THEN SetConfig(s, c, "unassigned", None)
                              ELSE SetConfig(s, c, "active", h.who)
    [] h.op = "suspend"    -> Suspended(s, h.who, kept)
    [] h.op = "reactivate" -> Reactivated(s, h.who)

Target(h) == IF h.cfg = None THEN h.who ELSE h.cfg

\* The row whose pending mark ends with the call: retrieving a file and generating
\* run in transitions of their own.
Settled(h) == IF h.op \in {"file", "own", "generate"} THEN {} ELSE {Target(h)}

Targets(q) == (UNION {{q[i].cfg, q[i].who} : i \in 1 .. Len(q)}) \ {None}

\* The calls once some rows have changed behind them.
Marked(q, changed) ==
  [i \in 1 .. Len(q) |-> IF {q[i].cfg, q[i].who} \cap changed # {} THEN [q[i] EXCEPT !.clean = FALSE] ELSE q[i]]

\* The page is rendered again from s, and of the calls rest is left.  A dialog
\* stays open as long as its row has a menu; ended is the kind that the call
\* closes, and own the row it was about.
Refresh(s, got, rest, ended, own) ==
  LET t == After(s, got)
      changed == (Changed(server, s) \ {own}) \cup Changed(s, t)
      rendered == IF MayOpen(s, claims, page.kind, page.who)
                  THEN Rendered(s, page.kind, page.who, claims, got) ELSE NoPage
  IN /\ server' = t
     /\ page' = rendered
     /\ calls' = Marked(rest, changed)
     /\ touched' = (touched \cap Targets(rest)) \cup Unknown(s, page.kind, got)
     /\ dialog' = IF \/ rendered.kind = "none"
                     \/ dialog.kind = ended
                     \/ dialog.cfg # None /\ rendered.rows[dialog.cfg] \in {"none", "revoked"}
                  THEN NoDialog
                  ELSE Doubted(changed)

\* A config that has just gone live is handed over: its file is fetched.
HandOver(h, c) ==
  IF h.op \in {"assign", "generate"} /\ h.who # None
  THEN <<Call("file", IF h.op = "generate" THEN c ELSE h.cfg, None, FALSE, TRUE)>> ELSE <<>>

\* A call that went through: the person first, then the config, then the link
\* (c is the config a generate makes).  The page is refreshed, a live config's
\* file is fetched, and a disable can be undone.  A suspension that could not stop
\* the tunnels of kept says so, and refreshes the page all the same.
Succeed(c, kept) ==
  LET h == Head(calls)
      s == IF h.new THEN NewPerson(server, h.who) ELSE server
      t == Effect(s, h, c, kept)
  IN /\ calls # <<>> /\ h.op \notin {"file", "own"}
     /\ claims \in Allowed(h.op) /\ Accepts(server, h)
     /\ h.new => server.row[h.who] = "none" /\ h.who \in Local
     /\ h.op = "generate" => server.config[c].status = "none"
     /\ kept \subseteq (IF h.op = "suspend" THEN Active(server, h.who) ELSE {})
     /\ \E got \in Gots(t, page.kind) :
          Refresh(t, got, Tail(calls) \o HandOver(h, c), IF h.op = "generate" THEN "generate" ELSE "", Target(h))
     /\ busy' = busy \ Settled(h)
     /\ undo' = IF h.op = "disable" THEN undo \cup {h.cfg} ELSE undo
     /\ UNCHANGED <<claims, others>>

\* What the server says no to: the role, the status, one's own suspension, a
\* name somebody has.
Taken(h)   == h.new /\ server.row[h.who] # "none"
Refused(h) == claims \notin Allowed(h.op) \/ Taken(h) \/ ~Accepts(server, h)

\* What a call that failed may leave: the person it created, and the spare c if
\* only the assigning failed.
Left(h, c) ==
  LET s == IF h.new THEN NewPerson(server, h.who) ELSE server
  IN IF claims \notin Allowed(h.op) \/ Taken(h) THEN {server}
     ELSE {s} \cup (IF h.op = "generate" /\ h.who # None /\ server.config[c].status = "none"
                    THEN {SetConfig(s, c, "unassigned", None)} ELSE {})

\* What can fail of what the server accepts: an agent does not answer, a node has
\* no address left or is gone, Clerk does not answer a suspension or reactivation
\* (before anything is written).
MayFail(h) ==
  \/ h.op \in {"assign", "return", "disable", "enable", "revoke", "generate"}
  \/ h.op \in {"suspend", "reactivate"} /\ h.who \notin Local

\* A call that failed.  The page stays as it is, unless something was left.
Fail(c) ==
  LET h == Head(calls)
  IN /\ calls # <<>>
     /\ Refused(h) \/ MayFail(h)
     /\ busy' = busy \ Settled(h)
     /\ \E t \in Left(h, c) :
          /\ h.new /\ t # server => h.who \in Local
          /\ IF t = server THEN calls' = Tail(calls) /\ UNCHANGED <<server, page, dialog, touched>>
             ELSE \E got \in Gots(t, page.kind) : Refresh(t, got, Tail(calls), "", Target(h))
     /\ UNCHANGED <<claims, undo, others>>

\* An answer with a key in it: the role or the owner was checked, the row loaded,
\* the file built and the retrieval recorded.  No row changes, no page is rendered.
Delivered(op) ==
  LET h == Head(calls)
  IN /\ calls # <<>> /\ h.op = op
     /\ claims \in Allowed(op) /\ Accepts(server, h)
     /\ calls' = Tail(calls)
     /\ UNCHANGED <<server, claims, page, dialog, busy, undo, touched, others>>

DeliverFile == Delivered("file")   \* getConfigFile
DeliverOwn  == Delivered("own")    \* getOwnConfigFile
Deliver     == DeliverFile \/ DeliverOwn

-----------------------------------------------------------------------------
(* Opening pages, and the rest of the world *)

\* A page is opened, or reloaded: its pending marks are new, and calls made from
\* the page before are no longer this page's.  A dialog is closed first (Cancel).
Open(kind, who, got) ==
  /\ dialog.kind = "none"
  /\ MayOpen(server, claims, kind, who)
  /\ page' = Rendered(server, kind, who, claims, got)
  /\ server' = After(server, got)
  /\ calls' = Marked(calls, Changed(server, server'))
  /\ touched' = Unknown(server, kind, got) \cup Targets(calls)
  /\ busy' = {}
  /\ UNCHANGED <<claims, dialog, undo, others>>

\* RefreshOnFocus: the list of people is rendered again when its tab comes back,
\* under whatever dialog is open.
Focus ==
  /\ page.kind = "users"
  /\ \E got \in Gots(server, "users") : Refresh(server, got, calls, "", None)
  /\ UNCHANGED <<claims, busy, undo, others>>

ToastEnds(c) ==
  /\ c \in undo
  /\ undo' = undo \ {c}
  /\ UNCHANGED <<server, claims, page, dialog, busy, calls, touched, others>>

\* Bounded so that the browser can still make a call afterwards.
Noticed == Len(calls) + others < MaxPending /\ others + 1 < MaxPending

\* The server's rows become t behind the browser's back.
Behind(t) ==
  /\ Noticed /\ t # server
  /\ server' = t /\ others' = others + 1
  /\ touched' = touched \cup Changed(server, t)
  /\ calls' = Marked(calls, Changed(server, t))
  /\ dialog' = Doubted(Changed(server, t))
  /\ UNCHANGED <<claims, page, busy, undo>>

\* Another member of staff works on a config.
OtherConfig(c, p) ==
  \/ server.config[c].status = "none" /\ Behind(SetConfig(server, c, "unassigned", None))
  \/ server.config[c].status = "unassigned" /\ server.row[p] # "none" /\ Behind(SetConfig(server, c, "active", p))
  \/ server.config[c].status = "active" /\ (Behind(SetConfig(server, c, "unassigned", None)) \/ Behind(SetStatus(server, c, "disabled")))
  \/ server.config[c].status = "disabled" /\ Behind(SetStatus(server, c, "active"))
  \/ server.config[c].status \notin {"none", "revoked"} /\ Behind(SetStatus(server, c, "revoked"))

\* Another admin works on a person.
OtherPerson(p) ==
  \/ server.row[p] # "none" /\ \E kept \in SUBSET Active(server, p) : Behind(Suspended(server, p, kept))
  \/ server.row[p] # "none" /\ Behind(Reactivated(server, p))
  \/ p \in Local /\ server.row[p] = "none" /\ Behind(NewPerson(server, p))

\* Somebody is created, banned or deleted in Clerk.
OtherClerk(p, state) ==
  /\ p \notin Local
  /\ \/ server.clerk[p] # "absent" /\ Behind([server EXCEPT !.clerk[p] = state])
     \/ server.clerk[p] = "absent" /\ server.row[p] = "none" /\ Behind([server EXCEPT !.clerk[p] = "ok"])

\* Another page is opened, and syncs.
OtherSync == Behind(Synced(server))

\* The session of the person at the browser has a lesser role: it was taken away in
\* Clerk, and the session's token has been renewed since.
Demote(role) ==
  /\ Noticed /\ claims # "none" /\ role \notin {"admin", claims}
  /\ claims' = role /\ others' = others + 1
  /\ UNCHANGED <<server, page, dialog, busy, undo, calls, touched>>

Init ==
  /\ \E clerk \in [People -> ClerkStates], role \in Roles,
        first \in {[status |-> "none", owner |-> None], [status |-> "active", owner |-> Me]} :
       /\ clerk[Me] = "ok" /\ \A p \in Local : clerk[p] = "absent"
       /\ claims = role
       /\ server = [config |-> [c \in Configs |-> first],
                    row |-> [p \in People |-> IF clerk[p] = "absent" THEN "none" ELSE StatusOf(clerk[p])],
                    clerk |-> clerk, last |-> None]
  /\ page = NoPage /\ dialog = NoDialog
  /\ busy = {} /\ undo = {} /\ calls = <<>> /\ touched = {}
  /\ others = 0

Browse ==
  \/ \E kind \in {"configs", "users", "user", "me"} :
       \E who \in (IF kind = "user" THEN Detailed ELSE {Me}), got \in Gots(server, kind) : Open(kind, who, got)
  \/ \E c \in Configs : \E op \in {"disable", "enable"} : Press(c, op)
  \/ \E c \in Configs : Retrieve(c) \/ RetrieveOwn(c)
  \/ \E c \in Configs : \E op \in {"assign", "return", "revoke"} : OpenConfig(c, op)
  \/ \E c \in Configs : Undo(c) \/ ToastEnds(c)
  \/ \E p \in People : OpenPerson(p) \/ Reactivate(p) \/ ConfirmAssign(p) \/ Submit(p)
  \/ Focus \/ OpenGenerate \/ Cancel \/ Confirm \/ ConfirmSuspend \/ Submit(None)

Serve ==
  \/ \E c \in Configs : Fail(c) \/ \E kept \in SUBSET Configs : Succeed(c, kept)
  \/ Deliver

Others ==
  \/ \E c \in Configs, p \in People : OtherConfig(c, p)
  \/ \E p \in People : OtherPerson(p) \/ \E state \in ClerkStates : OtherClerk(p, state)
  \/ OtherSync
  \/ \E role \in Roles : Demote(role)

Next == Browse \/ Serve \/ Others

Spec == Init /\ [][Next]_vars

-----------------------------------------------------------------------------
(* Properties *)

\* Every variable keeps its shape.
TypeOK ==
  /\ server \in Server
  /\ claims \in Roles
  /\ page.role \in Roles /\ page.options \subseteq People
  /\ page.rows \in [Configs -> Statuses]
  /\ busy \subseteq Configs \cup People /\ undo \subseteq Configs
  /\ Len(calls) + others <= MaxPending

\* What a page offers an admin, or the portal anybody, is done: the call the
\* server takes next is refused only when its row changed behind the page, was
\* unknown to it (the list of Clerk users may be 15 s old or missing), or was
\* worked on by the Undo of a toast or by a call of an earlier page; for the
\* suspension of oneself; or for a name somebody has.  What the page itself has
\* under way does not get in the way of what it offers next (row-actions.tsx, the
\* menus and their pending items; lifecycle.ts, me.ts).
RefusedOnlyWhenOvertaken ==
  calls # <<>> =>
    LET h == Head(calls)
    IN Refused(h) /\ h.clean /\ (claims = "admin" \/ h.op = "own") =>
         (h.op = "suspend" /\ h.who = Me) \/ Taken(h)

\* A config goes to somebody who is active and exists, unless that changed
\* behind the page or the page worked from an old list of Clerk users, or none
\* (configs/page.tsx: only active people can receive a config, and only real ones).
AssignedToActive ==
  calls # <<>> =>
    LET h == Head(calls)
    IN h.op \in {"assign", "generate"} /\ h.who # None /\ ~h.new /\ h.clean =>
         server.row[h.who] = "active" /\ (h.who \in Local \/ server.clerk[h.who] # "absent")

\* Once a session no longer carries the admin role, also with a page rendered
\* before, the browser gives nobody a config, returns none to the pool, and gets
\* the keys of nobody else's: at most, with the ops role, it switches configs off
\* and on and revokes them (SPEC section 2, actingStaff).
WithoutRoleOnlySwitches ==
  [][others' = others /\ claims # "admin" =>
       /\ \A c \in Configs :
            \/ server'.config[c] = server.config[c]
            \/ /\ claims = "ops" /\ server'.config[c].owner = server.config[c].owner
               /\ server'.config[c].status \in {"active", "disabled", "revoked"}
       /\ Deliver => server.config[Head(calls).cfg].owner = Me]_vars

=============================================================================
