------------------------------- MODULE Access -------------------------------
(***************************************************************************)
(* Who is let in: people in Clerk, their mirror rows, and the suspension   *)
(* that must also cut their tunnels (src/server/users, src/server/me.ts),  *)
(* beside the operations on configs that switch tunnels on and off         *)
(* (src/server/configs/lifecycle.ts).                                      *)
(*                                                                         *)
(* A request is cut at its awaits: the list of tunnels is read before      *)
(* Clerk is called, the list of Clerk users before the rows are written,   *)
(* and a config operation loads the row, writes it and calls the agent in  *)
(* steps of their own.  Nothing keeps two requests from one config.        *)
(***************************************************************************)
EXTENDS FiniteSets

CONSTANTS
  People,    \* everyone who may get a row
  Local,     \* those without a login, whom Clerk never knows
  Name,      \* the name of each person, in lower case
  Admins,    \* Clerk ids of acting admins; those in People have a row as well
  Configs,   \* managed configs issued before the run begins
  Requests,  \* server actions and page loads that may be in progress at once
  None,      \* SQL null
  Removals,  \* the operations that switch off which admins ask for (the bound of a run)
  Faults     \* what may go wrong, a subset of FaultKinds

\* "refuse": an agent answers with an error and has changed nothing.
\* "timeout": a caller gives up on an agent; its call may still be applied.
\* "clerk": a call to Clerk fails.  "abandon": a request dies where it stands.
FaultKinds == {"refuse", "timeout", "clerk", "abandon"}

AddOps    == {"assign", "enable"}                \* row first, agent second
RemoveOps == {"unassign", "disable", "revoke"}   \* agent first, row second

ASSUME AccessAssumption ==
  /\ Local \subseteq People
  /\ Admins \cap Local = {}
  /\ None \notin People \cup Configs
  /\ Removals \subseteq RemoveOps
  /\ Faults \subseteq FaultKinds

VARIABLES
  clerk,    \* what Clerk says of a person
  row,      \* the status of the person's row in users, if there is one
  config,   \* status and owner of each config
  peers,    \* configs whose key is a peer of their node
  stray,    \* agent calls whose caller is gone and that may still land
  req       \* the requests in progress

vars    == <<clerk, row, config, peers, stray, req>>
persons == <<clerk, row>>
tunnels == <<config, peers, stray>>

-----------------------------------------------------------------------------
(* Rows and requests *)

ClerkStates  == {"absent", "ok", "banned"}
RowStates    == {"none", "active", "suspended"}
ConfigStates == {"unassigned", "active", "disabled", "revoked"}

ConfigRow == [status: ConfigStates, owner: People \cup {None}]

Ops == {"none", "suspend", "reactivate", "sync", "visit", "create"} \cup AddOps \cup RemoveOps
Pcs == {"idle", "clerk", "mark", "stop", "match", "update", "insert",
        "write", "call", "commit", "undo"}

\* who is the person a request is about, cfg the config it works on.  A
\* suspension has the tunnels it read and has still to stop, and those it could
\* not; given is not in the code, it holds the configs on which a call that
\* switches on has been under way at some time since the list was read.  A sync
\* or a visit has Clerk's answer, and a sync the rows it has still to write.
Request ==
  [op: Ops, pc: Pcs, who: People \cup {None}, cfg: Configs \cup {None},
   list: SUBSET Configs, failed: SUBSET Configs, given: SUBSET Configs,
   seen: [People -> ClerkStates], todo: SUBSET People]

AgentCall == [op: {"add", "remove"}, cfg: Configs]

Nobody == [p \in People |-> "absent"]

Idle == [op |-> "none", pc |-> "idle", who |-> None, cfg |-> None, list |-> {},
         failed |-> {}, given |-> {}, seen |-> Nobody, todo |-> {}]

Become(r, q) == req' = [req EXCEPT ![r] = q]
Begin(r, q)  == req[r].pc = "idle" /\ Become(r, q)
At(r, op, pc) == req[r].op = op /\ req[r].pc = pc

Known       == {p \in People : row[p] # "none"}
TunnelsOf(p) == {c \in Configs : config[c].status = "active" /\ config[c].owner = p}

\* (mutant) Clerk's word is stored as it is.
StatusVerbatim(state) == state

\* mirrorFields: what a row says of somebody Clerk has.
StatusOf(state) == IF state = "banned" THEN "suspended" ELSE "active"

\* (mutant) the guard in mirrorPeople that compares names but not the status.
DiffersInName(q) == {}

\* The listed people whose row says something else than Clerk.
Differs(q) == {p \in Known : q.seen[p] # "absent" /\ row[p] # StatusOf(q.seen[p])}

Init ==
  /\ clerk  = [p \in People |-> "absent"]
  /\ row    = [p \in People |-> "none"]
  /\ config = [c \in Configs |-> [status |-> "unassigned", owner |-> None]]
  /\ peers  = {}
  /\ stray  = {}
  /\ req    = [r \in Requests |-> Idle]

-----------------------------------------------------------------------------
(* Suspending and reactivating *)

\* Where a tunnel may be switched on although its row is not in the list: an
\* assign or enable is under way, or its call may still land, or has landed under
\* a row that does not say active.
Raising == {req[r].cfg : r \in {s \in Requests : req[s].op \in AddOps}}
           \cup {m.cfg : m \in {n \in stray : n.op = "add"}}
           \cup {c \in peers : config[c].status # "active"}

\* suspendUser: an admin, the row together with its active configs, not oneself.
StartSuspend(r, a, p) ==
  /\ row[p] # "none" /\ a # p
  /\ Begin(r, [Idle EXCEPT !.op = "suspend", !.who = p, !.list = TunnelsOf(p),
                           !.given = Raising, !.pc = IF p \in Local THEN "mark" ELSE "clerk"])
  /\ UNCHANGED <<persons, tunnels>>

\* reactivateUser: an admin, the row.
StartReactivate(r, p) ==
  /\ row[p] # "none"
  /\ Begin(r, [Idle EXCEPT !.op = "reactivate", !.who = p,
                           !.pc = IF p \in Local THEN "mark" ELSE "clerk"])
  /\ UNCHANGED <<persons, tunnels>>

\* setClerkBan: Clerk bans or unbans, or no longer has the person, which is not
\* an error.
SetClerkBan(r) ==
  LET q == req[r]
  IN /\ q.op \in {"suspend", "reactivate"} /\ q.pc = "clerk"
     /\ clerk' = IF clerk[q.who] = "absent" THEN clerk
                 ELSE [clerk EXCEPT ![q.who] = IF q.op = "suspend" THEN "banned" ELSE "ok"]
     /\ Become(r, [q EXCEPT !.pc = "mark"])
     /\ UNCHANGED <<row, tunnels>>

\* The update of the row.  A reactivation ends here, and leaves the tunnels off.
Mark(r) ==
  LET q == req[r]
  IN /\ q.pc = "mark"
     /\ row' = [row EXCEPT ![q.who] = IF q.op = "suspend" THEN "suspended" ELSE "active"]
     /\ Become(r, IF q.op = "suspend" THEN [q EXCEPT !.pc = "stop"] ELSE Idle)
     /\ UNCHANGED <<clerk, tunnels>>

\* (mutant) a tunnel that cannot be stopped is skipped without a word.
FailedSilently(q) == IF q.op \in AddOps THEN [q EXCEPT !.pc = "undo"]
                     ELSE IF q.op = "suspend" THEN [q EXCEPT !.pc = "stop", !.cfg = None]
                     ELSE Idle

\* What follows an error: an adding operation goes to its catch block, the loop
\* of a suspension keeps the tunnel for its answer, the others throw.
Failed(q) == IF q.op \in AddOps THEN [q EXCEPT !.pc = "undo"]
             ELSE IF q.op = "suspend"
                  THEN [q EXCEPT !.pc = "stop", !.cfg = None, !.failed = @ \cup {q.cfg}]
             ELSE Idle

\* disableConfig is called for one tunnel of the list, by id alone: it loads the
\* row, and throws when that is no longer active.
Stop(r, c) ==
  LET q == [req[r] EXCEPT !.cfg = c, !.list = @ \ {c}]
  IN /\ req[r].pc = "stop" /\ c \in req[r].list
     /\ Become(r, IF config[c].status = "active" THEN [q EXCEPT !.pc = "call"] ELSE Failed(q))
     /\ UNCHANGED <<persons, tunnels>>

\* The audit row and the answer, which names the tunnels that failed.
Answers(r) ==
  /\ req[r].pc = "stop" /\ req[r].list = {}
  /\ Become(r, Idle)
  /\ UNCHANGED <<persons, tunnels>>

-----------------------------------------------------------------------------
(* Operations on one config *)

\* The status each operation insists on when it loads the row.
From(op) == IF op = "assign" THEN {"unassigned"}
            ELSE IF op = "enable" THEN {"disabled"}
            ELSE IF op = "revoke" THEN ConfigStates \ {"revoked"}
            ELSE {"active"}   \* unassign, disable

\* assign, to anybody with a row whatever its status, and enable.  Every
\* suspension under way has read its list already.
StartAdd(r, op, c, p) ==
  /\ req[r].pc = "idle" /\ config[c].status \in From(op)
  /\ IF op = "assign" THEN p \in Known ELSE p = None
  /\ req' = [s \in Requests |->
               IF s = r THEN [Idle EXCEPT !.op = op, !.pc = "write", !.who = p, !.cfg = c]
               ELSE IF req[s].op = "suspend" THEN [req[s] EXCEPT !.given = @ \cup {c}]
               ELSE req[s]]
  /\ UNCHANGED <<persons, tunnels>>

\* The unconditional update that says active before the agent is called.
Write(r) ==
  LET q == req[r]
  IN /\ q.pc = "write"
     /\ config' = [config EXCEPT ![q.cfg] =
                     [status |-> "active", owner |-> IF q.op = "assign" THEN q.who ELSE @.owner]]
     /\ Become(r, [q EXCEPT !.pc = "call"])
     /\ UNCHANGED <<persons, peers, stray>>

\* The catch block of an adding operation puts the row back.
Undo(r) ==
  LET q == req[r]
  IN /\ q.pc = "undo"
     /\ config' = [config EXCEPT ![q.cfg] =
                     IF q.op = "assign" THEN [status |-> "unassigned", owner |-> None]
                                        ELSE [@ EXCEPT !.status = "disabled"]]
     /\ Become(r, Idle)
     /\ UNCHANGED <<persons, peers, stray>>

\* unassign, disable and revoke call the agent first.
StartRemove(r, op, c) ==
  /\ config[c].status \in From(op)
  /\ Begin(r, [Idle EXCEPT !.op = op, !.pc = "call", !.cfg = c])
  /\ UNCHANGED <<persons, tunnels>>

\* The columns each removing operation sets; a suspension disables.
Committed(op, was) ==
  IF op = "unassign" THEN [status |-> "unassigned", owner |-> None]
  ELSE [was EXCEPT !.status = IF op = "revoke" THEN "revoked" ELSE "disabled"]

\* The answer to removePeer arrives: the row is written, unconditionally.
Commit(r) ==
  LET q == req[r]
  IN /\ q.pc = "commit"
     /\ config' = [config EXCEPT ![q.cfg] = Committed(q.op, @)]
     /\ Become(r, IF q.op = "suspend" THEN [q EXCEPT !.pc = "stop", !.cfg = None] ELSE Idle)
     /\ UNCHANGED <<persons, peers, stray>>

Kind(op)       == IF op \in AddOps THEN "add" ELSE "remove"
Apply(kind, c) == peers' = IF kind = "add" THEN peers \cup {c} ELSE peers \ {c}

\* The agent applies the call and answers; an adding operation is over then.
AgentApplies(r) ==
  LET q == req[r]
  IN /\ q.pc = "call"
     /\ Apply(Kind(q.op), q.cfg)
     /\ Become(r, IF q.op \in AddOps THEN Idle ELSE [q EXCEPT !.pc = "commit"])
     /\ UNCHANGED <<persons, config, stray>>

\* The agent is unreachable or answers with an error.
AgentRefuses(r) ==
  /\ "refuse" \in Faults /\ req[r].pc = "call"
  /\ Become(r, Failed(req[r]))
  /\ UNCHANGED <<persons, tunnels>>

\* The call of a request that no longer waits for it stays under way.
Orphan(r) == IF req[r].pc = "call"
             THEN stray \cup {[op |-> Kind(req[r].op), cfg |-> req[r].cfg]} ELSE stray

\* The 8 s signal of agentFetch fires.  The call may land at once, later or never.
Timeout(r) ==
  /\ "timeout" \in Faults /\ req[r].pc = "call"
  /\ stray' = Orphan(r)
  /\ Become(r, Failed(req[r]))
  /\ UNCHANGED <<persons, config, peers>>

\* A call nobody waits for reaches the agent.
StrayLands(m) ==
  /\ m \in stray
  /\ Apply(m.op, m.cfg)
  /\ stray' = stray \ {m}
  /\ UNCHANGED <<persons, config, req>>

-----------------------------------------------------------------------------
(* Mirroring Clerk *)

\* syncUsersFromClerk: the list of Clerk's users, in one page.
StartSync(r) ==
  /\ Begin(r, [Idle EXCEPT !.op = "sync", !.pc = "match", !.seen = clerk])
  /\ UNCHANGED <<persons, tunnels>>

\* mirrorPeople reads the rows once.  Those that differ are written, also those
\* of the people in edited, whose profile alone differs.
Match(r, edited) ==
  LET q == req[r]
  IN /\ At(r, "sync", "match")
     /\ \A p \in edited : p \in Known /\ q.seen[p] # "absent"
     /\ Become(r, [q EXCEPT !.pc = "update", !.todo = Differs(q) \cup edited])
     /\ UNCHANGED <<persons, tunnels>>

\* One update of the loop: the profile and the status, as listed.
Update(r, p) ==
  LET q == req[r]
  IN /\ At(r, "sync", "update") /\ p \in q.todo
     /\ row' = [row EXCEPT ![p] = StatusOf(q.seen[p])]
     /\ Become(r, [q EXCEPT !.todo = @ \ {p}])
     /\ UNCHANGED <<clerk, tunnels>>

\* createMany for the listed people without a row, skipping those who got one
\* meanwhile.  Nobody's row is ever deleted.
EndSync(r) ==
  LET q == req[r]
  IN /\ At(r, "sync", "update") /\ q.todo = {}
     /\ row' = [p \in People |-> IF row[p] = "none" /\ q.seen[p] # "absent"
                                 THEN StatusOf(q.seen[p]) ELSE row[p]]
     /\ Become(r, Idle)
     /\ UNCHANGED <<clerk, tunnels>>

\* resolveCurrentUser on a first visit: no row, so Clerk is asked; somebody who
\* may not sign in makes no visit.
Visit(r, p) ==
  /\ row[p] = "none" /\ clerk[p] = "ok"
  /\ Begin(r, [Idle EXCEPT !.op = "visit", !.pc = "match", !.who = p])
  /\ UNCHANGED <<persons, tunnels>>

\* currentUser: Clerk's answer, or nobody, which ends the visit.
Fetch(r) ==
  /\ At(r, "visit", "match")
  /\ Become(r, IF clerk[req[r].who] = "absent" THEN Idle
               ELSE [req[r] EXCEPT !.pc = "update", !.seen = clerk])
  /\ UNCHANGED <<persons, tunnels>>

\* mirrorPerson: the upsert writes the status Clerk gave, over any row.
Upsert(r) ==
  LET q == req[r]
  IN /\ At(r, "visit", "update")
     /\ row' = [row EXCEPT ![q.who] = StatusOf(q.seen[q.who])]
     /\ Become(r, Idle)
     /\ UNCHANGED <<clerk, tunnels>>

-----------------------------------------------------------------------------
(* People without a login *)

\* The rows findFirst sees under the name, whatever the case of its letters.
Namesakes(p) == {q \in Known : Name[q] = Name[p]}

\* createLocalPerson looks for the name, and is refused when somebody has it; p
\* is the row it will insert.
StartCreate(r, p) ==
  /\ p \in Local /\ row[p] = "none"
  /\ \A s \in Requests : ~ (req[s].op = "create" /\ req[s].who = p)
  /\ Namesakes(p) = {}
  /\ Begin(r, [Idle EXCEPT !.op = "create", !.pc = "insert", !.who = p])
  /\ UNCHANGED <<persons, tunnels>>

\* The insert.  No index makes names unique.
Insert(r) ==
  /\ At(r, "create", "insert")
  /\ row' = [row EXCEPT ![req[r].who] = "active"]
  /\ Become(r, Idle)
  /\ UNCHANGED <<clerk, tunnels>>

-----------------------------------------------------------------------------
(* Everything else *)

\* A request dies: Clerk fails, the database fails, or the process restarts.
Abandon(r) ==
  /\ \/ "abandon" \in Faults /\ req[r].pc # "idle"
     \/ "clerk" \in Faults /\ (req[r].pc = "clerk" \/ At(r, "visit", "match"))
  /\ stray' = Orphan(r)
  /\ Become(r, Idle)
  /\ UNCHANGED <<persons, config, peers>>

\* An admin creates, bans, unbans or deletes somebody in Clerk.
ClerkChanges(p, state) ==
  /\ p \notin Local /\ state # clerk[p]
  /\ clerk[p] = "absent" => row[p] = "none" /\ state = "ok"
  /\ clerk' = [clerk EXCEPT ![p] = state]
  /\ UNCHANGED <<row, tunnels, req>>

\* The steps a request takes by itself once it has started.
Advance(r) ==
  \/ SetClerkBan(r) \/ Mark(r) \/ Answers(r) \/ EndSync(r) \/ Fetch(r) \/ Upsert(r) \/ Insert(r)
  \/ Write(r) \/ Undo(r) \/ Commit(r) \/ Timeout(r)
  \/ \E c \in Configs : Stop(r, c)
  \/ \E edited \in SUBSET People : Match(r, edited)
  \/ \E p \in People : Update(r, p)

Start(r) ==
  \/ \E a \in Admins, p \in People : StartSuspend(r, a, p)
  \/ \E p \in People : StartReactivate(r, p) \/ Visit(r, p) \/ StartCreate(r, p)
  \/ StartSync(r)
  \/ \E c \in Configs, op \in AddOps, p \in People \cup {None} : StartAdd(r, op, c, p)
  \/ \E c \in Configs, op \in Removals : StartRemove(r, op, c)

Next ==
  \/ \E r \in Requests : Start(r) \/ Advance(r) \/ Abandon(r) \/ AgentApplies(r) \/ AgentRefuses(r)
  \/ \E m \in stray : StrayLands(m)
  \/ \E p \in People, state \in ClerkStates : ClerkChanges(p, state)

Spec == Init /\ [][Next]_vars

-----------------------------------------------------------------------------
(* Properties *)

\* Every variable keeps its shape.
TypeOK ==
  /\ clerk \in [People -> ClerkStates]
  /\ row \in [People -> RowStates]
  /\ config \in [Configs -> ConfigRow]
  /\ peers \in SUBSET Configs
  /\ stray \in SUBSET AgentCall
  /\ req \in [Requests -> Request]

\* A partial failure of a suspension is never swallowed (users/index.ts
\* suspendUser): when it answers, every config of the person that is active or
\* has a tunnel is named as failed, whatever refusals, timeouts, restarts, other
\* suspensions and operations of other admins came between.  Not covered, as the
\* code does not see them: configs on which an assign or enable was under way,
\* had left a call or a tunnel behind, or was started after the list was read.
SuspensionNamesWhatStaysOn ==
  [][\A r \in Requests, c \in Configs :
       Answers(r) /\ config[c].owner = req[r].who /\ (c \in peers \/ config[c].status = "active")
       => c \in req[r].failed \cup req[r].given]_vars

\* A suspension that answers without a failure leaves the person no tunnel
\* ("A suspended user whose VPN still works is not suspended", users/index.ts).
\* The list is read once, and assign and enable look at nobody's status.
CleanSuspensionStopsTunnels ==
  [][\A r \in Requests, c \in Configs :
       Answers(r) /\ req[r].failed = {} /\ config[c].owner = req[r].who => c \notin peers]_vars

\* Every row says what Clerk says of its person.
Mirrors == \A p \in People : clerk[p] # "absent" => row[p] = StatusOf(clerk[p])

\* What the mirror lost in a race comes back: if from some time on Clerk does
\* not change, nobody is reactivated or suspended, and syncs go on ending, then
\* from some time on the rows agree with Clerk (mirrorPeople, mirrorPerson).
MirrorConverges ==
  /\ <>[][clerk' = clerk /\ \A r \in Requests : ~Mark(r)]_vars
  /\ []<><<\E r \in Requests : EndSync(r)>>_vars
  => <>[]Mirrors

=============================================================================
