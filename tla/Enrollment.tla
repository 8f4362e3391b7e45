---------------------------- MODULE Enrollment ----------------------------
(***************************************************************************)
(* Node enrollment, src/server/enrollment.ts: an admin mints a single-use  *)
(* token for a name, a node presents it, the control plane checks it,      *)
(* probes the agent (up to 8 s) and only then inserts the node and marks   *)
(* the token used, in two separate writes.  Nothing holds the token in     *)
(* between, so what makes it single-use is the unique name of the nodes.   *)
(***************************************************************************)
EXTENDS FiniteSets

CONSTANTS
  Tokens,     \* enrollment secrets; their number bounds those ever minted
  Names,      \* node names
  Nodes,      \* ids of node rows; their number bounds the nodes ever inserted
  Requests,   \* enrollments that may be in progress at once
  None,       \* SQL null
  Restarts    \* TRUE: the control plane may restart between two steps

ASSUME EnrollmentAssumption ==
  /\ None \notin Tokens \cup Names \cup Nodes
  /\ Restarts \in BOOLEAN

VARIABLES
  token,   \* the enrollment_tokens table
  node,    \* the nodes table
  req      \* the enrollments in progress, and the answer of the last one

vars == <<token, node, req>>

-----------------------------------------------------------------------------
\* nodeId is what the row records of the node that used it.
TokenRow == [status: {"none", "open", "used"}, expired: BOOLEAN,
             name: Names \cup {None}, nodeId: Nodes \cup {None}]

\* via is history: the token whose enrollment inserted the row.
NodeRow == [status: {"none", "active", "disabled"}, name: Names \cup {None},
            via: Tokens \cup {None}]

Answers == {"none", "200", "401", "409", "422", "500"}

Request == [pc: {"idle", "check", "name", "probe", "create", "mark"},
            token: Tokens \cup {None}, node: Nodes \cup {None}, answer: Answers]

NoToken == [status |-> "none", expired |-> FALSE, name |-> None, nodeId |-> None]
NoNode  == [status |-> "none", name |-> None, via |-> None]
Fresh   == [pc |-> "idle", token |-> None, node |-> None, answer |-> "none"]

Become(r, q)    == req' = [req EXCEPT ![r] = q]
Answer(r, code) == Become(r, [req[r] EXCEPT !.pc = "idle", !.answer = code])
Proceed(r, pc)  == Become(r, [req[r] EXCEPT !.pc = pc])

NameOf(t) == token[t].name
Rows      == {n \in Nodes : node[n].status # "none"}

\* (mutant) removing a node deletes its row.
TakenByActive(name) == \E n \in Rows : node[n].name = name /\ node[n].status = "active"

\* A row with the name exists, removed or not.
Registered(name) == \E n \in Rows : node[n].name = name

Init ==
  /\ token = [t \in Tokens |-> NoToken]
  /\ node  = [n \in Nodes |-> NoNode]
  /\ req   = [r \in Requests |-> Fresh]

-----------------------------------------------------------------------------
\* createEnrollmentToken: the name is not compared with the nodes yet.
Mint(t, name) ==
  /\ token[t].status = "none"
  /\ token' = [token EXCEPT ![t] = [NoToken EXCEPT !.status = "open", !.name = name]]
  /\ UNCHANGED <<node, req>>

\* The hour is over.
Expire(t) ==
  /\ token[t].status # "none"
  /\ ~ token[t].expired
  /\ token' = [token EXCEPT ![t].expired = TRUE]
  /\ UNCHANGED <<node, req>>

\* enrollNode: the secret is looked for among the tokens that are not used.
Begin(r, t) ==
  /\ req[r].pc = "idle"
  /\ token[t].status # "none"
  /\ Become(r, [Fresh EXCEPT !.token = t,
                             !.pc     = IF token[t].status = "open" THEN "check" ELSE "idle",
                             !.answer = IF token[t].status = "open" THEN "none" ELSE "401"])
  /\ UNCHANGED <<token, node>>

\* The row is read again: used or expired is a 401, a URL or a certificate that
\* makes no sense a 422.
Check(r) ==
  LET row == token[req[r].token] IN
  /\ req[r].pc = "check"
  /\ IF row.status = "used" \/ row.expired THEN Answer(r, "401")
     ELSE Answer(r, "422") \/ Proceed(r, "name")
  /\ UNCHANGED <<token, node>>

\* The name must be new, and an adopted interface must lie in the pool.
CheckName(r) ==
  /\ req[r].pc = "name"
  /\ IF Registered(NameOf(req[r].token)) THEN Answer(r, "409")
     ELSE Answer(r, "422") \/ Proceed(r, "probe")
  /\ UNCHANGED <<token, node>>

\* probeNodeAgent: the agent is healthy, or it is not, or does not answer.
Probe(r) ==
  /\ req[r].pc = "probe"
  /\ Answer(r, "422") \/ Proceed(r, "create")
  /\ UNCHANGED <<token, node>>

\* (mutant) the nodes table has no unique index on the name.
NeverConflicts(name) == FALSE

\* The unique index on the name, which an insert that lost a race runs into.
Conflicts(name) == Registered(name)

\* (mutant) the name of the row is taken for its id.
InsertedName(q, n) == [q EXCEPT !.pc = "mark", !.node = NameOf(q.token)]

\* What follows the insert.
Inserted(q, n) == [q EXCEPT !.pc = "mark", !.node = n]

\* The insert. A violated index is no EnrollmentError: the route answers 500.
Create(r) ==
  LET q == req[r] IN
  /\ q.pc = "create"
  /\ \/ /\ Conflicts(NameOf(q.token))
        /\ Answer(r, "500")
        /\ UNCHANGED node
     \/ /\ ~ Conflicts(NameOf(q.token))
        /\ \E n \in Nodes \ Rows :
             /\ node' = [node EXCEPT ![n] = [status |-> "active", via |-> q.token,
                                             name |-> NameOf(q.token)]]
             /\ Become(r, Inserted(q, n))
  /\ UNCHANGED token

\* (mutant) the update finds its tokens by name.
SpentByName(t) == {other \in Tokens : NameOf(other) = NameOf(t)}

\* (mutant) the update asks for a token that is still valid.
SpentValid(t) == {other \in {t} : ~ token[other].expired}

\* The tokens the second write marks: the one that was presented.
Spent(t) == {t}

\* The second write of an enrollment that succeeded.
Mark(r) ==
  LET q == req[r] IN
  /\ q.pc = "mark"
  /\ token' = [t \in Tokens |-> IF t \in Spent(q.token)
                                THEN [token[t] EXCEPT !.status = "used", !.nodeId = q.node]
                                ELSE token[t]]
  /\ Answer(r, "200")
  /\ UNCHANGED node

\* The control plane restarts, or the database fails: the node gets no answer.
Abandon(r) ==
  /\ Restarts
  /\ req[r].pc # "idle"
  /\ Become(r, Fresh)
  /\ UNCHANGED <<token, node>>

\* removeNode, for a node without live configs: the row stays, and its name.
Remove(n) ==
  /\ node[n].status # "none"
  /\ node' = [node EXCEPT ![n].status = "disabled"]
  /\ UNCHANGED <<token, req>>

Step(r) == Check(r) \/ CheckName(r) \/ Probe(r) \/ Create(r) \/ Mark(r)

Next ==
  \/ \E t \in Tokens, name \in Names : Mint(t, name)
  \/ \E t \in Tokens : Expire(t)
  \/ \E r \in Requests, t \in Tokens : Begin(r, t)
  \/ \E r \in Requests : Step(r) \/ Abandon(r)
  \/ \E n \in Nodes : Remove(n)

Spec == Init /\ [][Next]_vars

\* An enrollment keeps running: the database answers and the probe times out.
FairSpec == Spec /\ \A r \in Requests : WF_vars(Step(r))

-----------------------------------------------------------------------------
(* Properties *)

\* Every variable keeps its shape.
TypeOK ==
  /\ token \in [Tokens -> TokenRow]
  /\ node \in [Nodes -> NodeRow]
  /\ req \in [Requests -> Request]

\* A token is single-use: however many nodes present it at once, before or
\* after a restart, at most one is ever registered with it (enrollment.ts
\* enrollNode; SPEC section 10).
OneNodePerToken ==
  \A m, n \in Rows : m # n => node[m].via # node[n].via

\* A used token names the node that was registered with it, under the name the
\* admin gave it (enrollment.ts: the update after the insert).
UsedTokenNamesItsNode ==
  \A t \in Tokens : token[t].status = "used" =>
    \E n \in Rows : token[t].nodeId = n /\ node[n].via = t /\ node[n].name = NameOf(t)

\* A node that was told it is registered stays the one its token names, also
\* after a second node presented the same token (route.ts answers 200).
WinnerKeepsItsToken ==
  \A r \in Requests :
    req[r].answer = "200" => token[req[r].token].nodeId = req[r].node

\* An enrollment that has inserted its node ends with its token used, also when
\* the hour is over by then or a second node got there first; a restart between
\* the two writes is all that leaves it open (enrollment.ts, the last update).
RegistrationIsRecorded ==
  \A r \in Requests, t \in Tokens :
    (req[r].pc = "mark" /\ req[r].token = t) ~> (token[t].status = "used" \/ req[r] = Fresh)

=============================================================================
