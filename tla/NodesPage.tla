----------------------------- MODULE NodesPage -----------------------------
(***************************************************************************)
(* The nodes page of the dashboard: the dialog that asks for an install    *)
(* command (src/features/nodes/enroll-node-dialog.tsx), the menu that      *)
(* removes a node (row-actions.tsx), their server actions, and the world   *)
(* behind the page, which nothing but a call of its own or a reload        *)
(* renders again.  Server actions of one browser run one at a time.        *)
(***************************************************************************)
EXTENDS Naturals, Sequences

CONSTANTS
  Names,      \* node names; a row stands for the node of its name
  Tokens,     \* enrollment secrets; their number bounds those ever minted
  None,       \* no name, no token
  MaxPending  \* calls that wait, and changes behind the page, at most

ASSUME NodesPageAssumption ==
  /\ None \notin Names \cup Tokens
  /\ MaxPending \in Nat \ {0}

VARIABLES
  node,        \* the nodes table: the status, and whether any config is live
  token,       \* the enrollment_tokens table: the name each is for
  claims,      \* the role in the session
  page,        \* the role and the rows the page was rendered with
  dialog,      \* the Add node dialogs, one by the title, one in the empty state
  confirming,  \* the row whose removal is to be confirmed
  removing,    \* the rows whose removal is pending
  calls,       \* the server actions that wait, the first one under way
  others       \* how often the world has changed behind the page

vars == <<node, token, claims, page, dialog, confirming, removing, calls, others>>

-----------------------------------------------------------------------------
Roles   == {"none", "ops", "admin"}
\* The status degraded, which the schema has too, is written nowhere.
NodeRow == [status: {"none", "active", "disabled"}, live: BOOLEAN]
NoNode  == [status |-> "none", live |-> FALSE]

NoPage      == [role |-> "none", rows |-> [n \in Names |-> NoNode]]
Rendered(t) == IF claims = "none" THEN NoPage ELSE [role |-> claims, rows |-> t]

Spots  == {"header", "empty"}
Closed == [open |-> FALSE, command |-> None, error |-> FALSE]

\* What keeps state on a page: for an admin the dialog by the title, the menus of
\* the rows, and the dialog in the empty state while there is no row.
Parts(p) ==
  IF p.role # "admin" THEN {}
  ELSE {"header", "row"} \cup (IF \A n \in Names : p.rows[n].status = "none" THEN {"empty"} ELSE {})

\* from is the part a call answers to, "gone" once that is no longer there.
Calls == [op: {"mint", "remove"}, name: Names, from: Spots \cup {"row", "gone"}, valid: BOOLEAN]

Call(op, n, from, valid) == [op |-> op, name |-> n, from |-> from, valid |-> valid]

Send(call) ==
  /\ Len(calls) + others < MaxPending
  /\ calls' = Append(calls, call)

\* The calls whose part is among parts still answer to it.
Kept(q, parts) ==
  [k \in 1 .. Len(q) |-> IF q[k].from \in parts THEN q[k] ELSE [q[k] EXCEPT !.from = "gone"]]

-----------------------------------------------------------------------------
(* The browser *)

\* Nothing modal is in the way.
Free == confirming = None /\ \A i \in Spots : ~dialog[i].open

OpenDialog(i) ==
  /\ i \in Parts(page) /\ Free
  /\ dialog' = [dialog EXCEPT ![i].open = TRUE]
  /\ UNCHANGED <<node, token, claims, page, confirming, removing, calls, others>>

\* Cancelled, or done: close forgets the command and the error, but not the call.
CloseDialog(i) ==
  /\ dialog[i].open
  /\ dialog' = [dialog EXCEPT ![i] = Closed]
  /\ UNCHANGED <<node, token, claims, page, confirming, removing, calls, others>>

ShowsForm(i) == dialog[i].open /\ dialog[i].command = None

\* The form, filled in; its button stays enabled while the call is pending.
Submit(i, n, valid) ==
  /\ ShowsForm(i)
  /\ Send(Call("mint", n, i, valid))
  /\ UNCHANGED <<node, token, claims, page, dialog, confirming, removing, others>>

\* (mutant) the item stays enabled while its removal is pending.
OfferedAlways(n) == "row" \in Parts(page) /\ page.rows[n].status = "active"

\* The item of a row's menu can be chosen.
Offered(n) == "row" \in Parts(page) /\ page.rows[n].status = "active" /\ n \notin removing

Choose(n) ==
  /\ Free /\ Offered(n)
  /\ confirming' = n
  /\ UNCHANGED <<node, token, claims, page, dialog, removing, calls, others>>

Dismiss ==
  /\ confirming # None
  /\ confirming' = None
  /\ UNCHANGED <<node, token, claims, page, dialog, removing, calls, others>>

\* As the page was rendered, the node carries configs.
Blocked(n) == page.rows[n].live

\* Remove, confirmed; of a blocked node it only says what is wrong.
Confirm(n) ==
  /\ confirming = n /\ ~Blocked(n)
  /\ Send(Call("remove", n, "row", TRUE))
  /\ confirming' = None /\ removing' = removing \cup {n}
  /\ UNCHANGED <<node, token, claims, page, dialog, others>>

\* The page is opened, or reloaded.
Reload ==
  /\ page' = Rendered(node)
  /\ dialog' = [i \in Spots |-> Closed] /\ confirming' = None /\ removing' = {}
  /\ calls' = Kept(calls, {})
  /\ UNCHANGED <<node, token, claims, others>>

-----------------------------------------------------------------------------
(* The server actions *)

\* actingStaff at the head of both functions.
AdminMay == claims = "admin"

\* createEnrollmentToken: no row is looked at, the name is compared with the nodes
\* only when the node enrolls.
Mint(h, t) ==
  /\ h.op = "mint" /\ AdminMay /\ h.valid
  /\ token[t] = None /\ token' = [token EXCEPT ![t] = h.name]
  /\ UNCHANGED node

\* (mutant) a status of its own for what is removed.
RemoveAsGone(h) ==
  /\ h.op = "remove" /\ AdminMay /\ ~node[h.name].live
  /\ node' = [node EXCEPT ![h.name].status = "removed"]
  /\ UNCHANGED token

\* removeNode; a node that is removed already is removed once more.
Remove(h) ==
  /\ h.op = "remove" /\ AdminMay /\ ~node[h.name].live
  /\ node' = [node EXCEPT ![h.name].status = "disabled"]
  /\ UNCHANGED token

\* (mutant) a row's pending mark is never taken back.
SettledNever(h) == {}

\* The row whose pending mark ends with the call.
Settled(h) == IF h.op = "remove" /\ h.from = "row" THEN {h.name} ELSE {}

\* The command for t goes to the dialog the call came from, if that is there.
Answered(h, t) ==
  [i \in Spots |-> IF i = h.from THEN [open |-> dialog[i].open, command |-> t, error |-> FALSE]
                   ELSE dialog[i]]

\* The page is rendered again; what it no longer has loses its state.
Refresh(d) ==
  LET p == Rendered(node')
  IN /\ page' = p
     /\ dialog' = [i \in Spots |-> IF i \in Parts(p) THEN d[i] ELSE Closed]
     /\ confirming' = (IF "row" \in Parts(p) THEN confirming ELSE None)
     /\ removing' = (IF "row" \in Parts(p) THEN removing \ Settled(Head(calls)) ELSE {})
     /\ calls' = Kept(Tail(calls), Parts(p))

\* createEnrollmentTokenAction and removeNodeAction, gone through.
Minted(t) ==
  /\ calls # <<>> /\ Mint(Head(calls), t)
  /\ Refresh(Answered(Head(calls), t))
  /\ UNCHANGED <<claims, others>>

Removed ==
  /\ calls # <<>> /\ Remove(Head(calls))
  /\ Refresh(dialog)
  /\ UNCHANGED <<claims, others>>

\* Caught: refused, or an error of the database, at the latest once the row is
\* written and its audit row is not.  The page is not rendered again.
Fail ==
  /\ calls # <<>>
  /\ \/ UNCHANGED <<node, token>>
     \/ Remove(Head(calls)) \/ \E t \in Tokens : Mint(Head(calls), t)
  /\ dialog' = IF Head(calls).from \in Spots
               THEN [dialog EXCEPT ![Head(calls).from].error = TRUE] ELSE dialog
  /\ removing' = removing \ Settled(Head(calls))
  /\ calls' = Tail(calls)
  /\ UNCHANGED <<claims, page, confirming, others>>

-----------------------------------------------------------------------------
(* Behind the page *)

\* Bounded so that the browser can still make a call afterwards.
Noticed == Len(calls) + others < MaxPending /\ others + 1 < MaxPending

Behind(n, row) ==
  /\ Noticed
  /\ node' = [node EXCEPT ![n] = row] /\ others' = others + 1
  /\ UNCHANGED <<token, claims, page, dialog, confirming, removing, calls>>

\* A node enrolls, with a token of this admin or of another; a config is issued,
\* or the last one revoked; another admin removes a node.
Register(n) == node[n].status = "none" /\ Behind(n, [status |-> "active", live |-> FALSE])
Issue(n)    == node[n].status # "none" /\ Behind(n, [node[n] EXCEPT !.live = ~@])
OtherRemoves(n) ==
  node[n].status = "active" /\ ~node[n].live /\ Behind(n, [node[n] EXCEPT !.status = "disabled"])

\* The session of the person at the browser has a lesser role from now on.
Demote(role) ==
  /\ Noticed /\ claims # "none" /\ role \notin {"admin", claims}
  /\ claims' = role /\ others' = others + 1
  /\ UNCHANGED <<node, token, page, dialog, confirming, removing, calls>>

Init ==
  /\ node \in [Names -> {NoNode, [status |-> "active", live |-> FALSE], [status |-> "active", live |-> TRUE]}]
  /\ token = [t \in Tokens |-> None]
  /\ claims \in Roles
  /\ page = NoPage /\ dialog = [i \in Spots |-> Closed]
  /\ confirming = None /\ removing = {} /\ calls = <<>> /\ others = 0

Browse ==
  \/ \E i \in Spots : OpenDialog(i) \/ CloseDialog(i)
  \/ \E i \in Spots, n \in Names, valid \in BOOLEAN : Submit(i, n, valid)
  \/ \E n \in Names : Choose(n) \/ Confirm(n)
  \/ Dismiss \/ Reload

Serve == (\E t \in Tokens : Minted(t)) \/ Removed \/ Fail

Others ==
  \/ \E n \in Names : Register(n) \/ Issue(n) \/ OtherRemoves(n)
  \/ \E role \in Roles : Demote(role)

Next == Browse \/ Serve \/ Others

\* Calls are answered.
Spec == Init /\ [][Next]_vars /\ WF_vars(Serve)

-----------------------------------------------------------------------------
(* Properties *)

\* Every variable keeps its shape.
TypeOK ==
  /\ node \in [Names -> NodeRow] /\ token \in [Tokens -> Names \cup {None}]
  /\ claims \in Roles /\ page \in [role: Roles, rows: [Names -> NodeRow]]
  /\ dialog \in [Spots -> [open: BOOLEAN, command: Tokens \cup {None}, error: BOOLEAN]]
  /\ confirming \in Names \cup {None} /\ removing \subseteq Names
  /\ calls \in Seq(Calls) /\ others \in Nat /\ Len(calls) + others <= MaxPending

\* However often the menu is opened while calls wait, a page has one removal of a
\* node under way at most, and its item is disabled for exactly that long.
OneRemovalAtATime ==
  /\ \A j, k \in 1 .. Len(calls) :
       calls[j].from = "row" /\ calls[k].from = "row" /\ calls[j].name = calls[k].name => j = k
  /\ \A n \in Names :
       n \in removing <=> \E k \in 1 .. Len(calls) : calls[k].from = "row" /\ calls[k].name = n

\* A pending removal ends, whatever else waits (row-actions.tsx, pending).
RemovalsEnd == \A n \in Names : n \in removing ~> n \notin removing

=============================================================================
