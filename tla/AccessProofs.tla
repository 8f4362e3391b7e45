---------------------------- MODULE AccessProofs ----------------------------
(***************************************************************************)
(* What holds of Access for any people, configs, requests and faults: its  *)
(* types, and that a suspension accounts for every tunnel of its person    *)
(* that nobody has been switching on since it read its list.               *)
(***************************************************************************)
EXTENDS Access, TLAPS

\* Where a request stands says which operation it is and what it works on.
Shape(q) ==
  /\ q.op = "suspend" => q.who \in People
  /\ q.op \in AddOps => q.cfg \in Configs
  /\ q.pc = "stop" => q.op = "suspend"
  /\ q.pc \in {"write", "undo"} => q.op \in AddOps
  /\ q.pc \in {"write", "call", "commit", "undo"} => q.cfg \in Configs
  /\ q.pc \in {"call", "commit"} => q.op \in AddOps \cup RemoveOps \cup {"suspend"}
  /\ q.pc = "commit" => q.op \notin AddOps

Typed == TypeOK /\ \A r \in Requests : Shape(req[r])

\* An assign or enable is under way on c, or its call may still land.
Lifts(c) ==
  \/ \E s \in Requests : req[s].op \in AddOps /\ req[s].cfg = c
  \/ \E m \in stray : m.op = "add" /\ m.cfg = c

\* The suspension is calling the agent of c, or about to write its row.
Handles(r, c) == req[r].pc \in {"call", "commit"} /\ req[r].cfg = c

\* What a suspension knows of a config that nobody was switching on: nobody is,
\* its peer is gone once the agent said so, and if it is the person's and not off
\* the suspension has it still to stop, is stopping it, or has kept it as failed.
Accounted(r, c) ==
  req[r].op = "suspend" /\ c \notin req[r].given =>
    /\ ~ Lifts(c)
    /\ req[r].pc = "commit" /\ req[r].cfg = c => c \notin peers
    /\ config[c].owner = req[r].who /\ (c \in peers \/ config[c].status = "active")
         => c \in req[r].list \cup req[r].failed \/ Handles(r, c)

SuspensionInv == \A r \in Requests, c \in Configs : Accounted(r, c)

-----------------------------------------------------------------------------
(* Types *)

LEMMA IdleType == Idle \in Request /\ Shape(Idle)
BY DEF Idle, Request, Ops, Pcs, Nobody, ClerkStates, Shape, AddOps

LEMMA StatusType == \A state \in ClerkStates : StatusOf(state) \in RowStates
BY DEF StatusOf, RowStates

\* Replacing one request by a well-formed one keeps them all well-formed.
LEMMA BecomeTyped ==
  ASSUME Typed, NEW r \in Requests, NEW q \in Request, Shape(q), Become(r, q)
  PROVE  req' \in [Requests -> Request] /\ \A s \in Requests : Shape(req'[s])
BY DEF Typed, TypeOK, Become

\* The shape of every variable follows from those of its parts.
LEMMA Gather ==
  ASSUME clerk' \in [People -> ClerkStates], row' \in [People -> RowStates],
         config' \in [Configs -> ConfigRow], peers' \in SUBSET Configs,
         stray' \in SUBSET AgentCall, req' \in [Requests -> Request],
         \A s \in Requests : Shape(req'[s])
  PROVE  Typed'
BY DEF Typed, TypeOK, Shape

LEMMA InitTyped == Init => Typed
<1> SUFFICES ASSUME Init PROVE Typed
  OBVIOUS
<1>1. clerk \in [People -> ClerkStates] /\ row \in [People -> RowStates]
  BY DEF Init, ClerkStates, RowStates
<1>2. config \in [Configs -> ConfigRow] /\ peers \in SUBSET Configs /\ stray \in SUBSET AgentCall
  BY DEF Init, ConfigRow, ConfigStates
<1>3. req \in [Requests -> Request] /\ \A r \in Requests : Shape(req[r])
  BY IdleType DEF Init
<1> QED BY <1>1, <1>2, <1>3 DEF Typed, TypeOK

\* A step that replaces one request and nothing else.
LEMMA OnlyRequest ==
  ASSUME Typed, NEW r \in Requests, NEW q \in Request, Shape(q), Become(r, q),
         UNCHANGED <<persons, tunnels>>
  PROVE  Typed'
<1>1. req' \in [Requests -> Request] /\ \A s \in Requests : Shape(req'[s])
  BY BecomeTyped
<1> QED BY <1>1, Gather DEF Typed, TypeOK, persons, tunnels

\* Types are kept by the steps that start a request.
LEMMA StartTyped ==
  ASSUME Typed, NEW r \in Requests, Start(r)
  PROVE  Typed'
<1> USE IdleType DEF Shape, AddOps
<1>1. ASSUME NEW a \in Admins, NEW p \in People, StartSuspend(r, a, p)
      PROVE  Typed'
  <2>1. TunnelsOf(p) \in SUBSET Configs
    BY DEF TunnelsOf
  <2>2. Raising \in SUBSET Configs
    <3>1. ASSUME NEW s \in Requests, req[s].op \in AddOps PROVE req[s].cfg \in Configs
      BY <3>1 DEF Typed
    <3>2. (\A m \in stray : m.cfg \in Configs) /\ peers \subseteq Configs
      BY DEF Typed, TypeOK, AgentCall
    <3> QED BY <3>1, <3>2 DEF Raising
  <2>3. PICK q : q = [Idle EXCEPT !.op = "suspend", !.who = p, !.list = TunnelsOf(p),
                          !.given = Raising, !.pc = IF p \in Local THEN "mark" ELSE "clerk"]
    BY Zenon
  <2>4. q \in Request /\ Shape(q)
    BY <2>1, <2>2, <2>3 DEF Idle, Request, Ops, Pcs
  <2>5. Become(r, q) /\ UNCHANGED <<persons, tunnels>>
    BY <1>1, <2>3 DEF StartSuspend, Begin
  <2> QED BY <2>4, <2>5, OnlyRequest
<1>2. ASSUME NEW p \in People, StartReactivate(r, p)
      PROVE  Typed'
  <2>1. PICK q : q = [Idle EXCEPT !.op = "reactivate", !.who = p,
                           !.pc = IF p \in Local THEN "mark" ELSE "clerk"]
    OBVIOUS
  <2>2. q \in Request /\ Shape(q)
    BY <2>1 DEF Idle, Request, Ops, Pcs
  <2>3. Become(r, q) /\ UNCHANGED <<persons, tunnels>>
    BY <1>2, <2>1 DEF StartReactivate, Begin
  <2> QED BY <2>2, <2>3, OnlyRequest
<1>3. CASE StartSync(r)
  <2>1. PICK q : q = [Idle EXCEPT !.op = "sync", !.pc = "match", !.seen = clerk]
    OBVIOUS
  <2>2. q \in Request /\ Shape(q)
    BY <2>1 DEF Idle, Request, Ops, Pcs, Typed, TypeOK
  <2>3. Become(r, q) /\ UNCHANGED <<persons, tunnels>>
    BY <1>3, <2>1 DEF StartSync, Begin
  <2> QED BY <2>2, <2>3, OnlyRequest
<1>4. ASSUME NEW p \in People, Visit(r, p)
      PROVE  Typed'
  <2>1. PICK q : q = [Idle EXCEPT !.op = "visit", !.pc = "match", !.who = p]
    OBVIOUS
  <2>2. q \in Request /\ Shape(q)
    BY <2>1 DEF Idle, Request, Ops, Pcs
  <2>3. Become(r, q) /\ UNCHANGED <<persons, tunnels>>
    BY <1>4, <2>1 DEF Visit, Begin
  <2> QED BY <2>2, <2>3, OnlyRequest
<1>5. ASSUME NEW p \in People, StartCreate(r, p)
      PROVE  Typed'
  <2>1. PICK q : q = [Idle EXCEPT !.op = "create", !.pc = "insert", !.who = p]
    OBVIOUS
  <2>2. q \in Request /\ Shape(q)
    BY <2>1 DEF Idle, Request, Ops, Pcs
  <2>3. Become(r, q) /\ UNCHANGED <<persons, tunnels>>
    BY <1>5, <2>1 DEF StartCreate, Begin
  <2> QED BY <2>2, <2>3, OnlyRequest
<1>6. ASSUME NEW c \in Configs, NEW op \in AddOps, NEW p \in People \cup {None}, StartAdd(r, op, c, p)
      PROVE  Typed'
  <2>1. PICK q : q = [Idle EXCEPT !.op = op, !.pc = "write", !.who = p, !.cfg = c]
    OBVIOUS
  <2>2. q \in Request /\ Shape(q)
    BY <2>1 DEF Idle, Request, Ops, Pcs
  <2>3. ASSUME NEW s \in Requests
        PROVE  [req[s] EXCEPT !.given = @ \cup {c}] \in Request
               /\ Shape([req[s] EXCEPT !.given = @ \cup {c}])
    BY DEF Request, Typed, TypeOK
  <2>4. \A s \in Requests : req'[s] \in Request /\ Shape(req'[s])
    BY <1>6, <2>1, <2>2, <2>3 DEF StartAdd, Typed, TypeOK
  <2>5. req' \in [Requests -> Request] /\ \A s \in Requests : Shape(req'[s])
    BY <1>6, <2>4 DEF StartAdd
  <2>6. UNCHANGED <<persons, tunnels>>
    BY <1>6 DEF StartAdd
  <2> QED BY <2>5, <2>6, Gather DEF Typed, TypeOK, persons, tunnels
<1>7. ASSUME NEW c \in Configs, NEW op \in Removals, StartRemove(r, op, c)
      PROVE  Typed'
  <2>1. PICK q : q = [Idle EXCEPT !.op = op, !.pc = "call", !.cfg = c]
    OBVIOUS
  <2>2. q \in Request /\ Shape(q)
    BY <2>1, AccessAssumption DEF Idle, Request, Ops, Pcs, RemoveOps
  <2>3. Become(r, q) /\ UNCHANGED <<persons, tunnels>>
    BY <1>7, <2>1 DEF StartRemove, Begin
  <2> QED BY <2>2, <2>3, OnlyRequest
<1> QED BY <1>1, <1>2, <1>3, <1>4, <1>5, <1>6, <1>7 DEF Start

\* Types are kept by the steps of a suspension or reactivation.
LEMMA SuspendTyped ==
  ASSUME Typed, NEW r \in Requests,
         SetClerkBan(r) \/ Mark(r) \/ Answers(r) \/ \E c \in Configs : Stop(r, c)
  PROVE  Typed'
<1> USE DEF Shape
<1>0. req[r] \in Request /\ Shape(req[r])
  BY DEF Typed, TypeOK
<1>1. CASE SetClerkBan(r)
  <2>1. PICK q : q = [req[r] EXCEPT !.pc = "mark"]
    OBVIOUS
  <2>2. q \in Request /\ Shape(q) /\ Become(r, q) /\ UNCHANGED <<row, tunnels>>
    BY <1>0, <1>1, <2>1 DEF Request, Pcs, SetClerkBan
  <2>3. clerk' \in [People -> ClerkStates]
    BY <1>1 DEF SetClerkBan, ClerkStates, Typed, TypeOK
  <2> QED BY <2>2, <2>3, BecomeTyped, Gather DEF Typed, TypeOK, tunnels
<1>2. CASE Mark(r)
  <2>1. row' \in [People -> RowStates] /\ UNCHANGED <<clerk, tunnels>>
    BY <1>2 DEF Mark, RowStates, Typed, TypeOK
  <2>2. PICK q : q = IF req[r].op = "suspend" THEN [req[r] EXCEPT !.pc = "stop"] ELSE Idle
    OBVIOUS
  <2>3. q \in Request /\ Shape(q) /\ Become(r, q)
    BY <1>0, <1>2, <2>2, IdleType DEF Request, Pcs, Mark
  <2> QED BY <2>1, <2>3, BecomeTyped, Gather DEF Typed, TypeOK, tunnels
<1>3. CASE Answers(r)
  BY <1>3, IdleType, OnlyRequest DEF Answers
<1>4. ASSUME NEW c \in Configs, Stop(r, c)
      PROVE  Typed'
  <2>1. req[r].op = "suspend" /\ req[r].op \notin AddOps
    BY <1>0, <1>4 DEF Stop, AddOps
  <2>2. PICK q : q = [req[r] EXCEPT !.cfg = c, !.list = @ \ {c}]
    OBVIOUS
  <2>3. q \in Request /\ q.op = "suspend" /\ q.cfg = c /\ q.who = req[r].who
    BY <1>0, <2>1, <2>2 DEF Request
  <2>4. PICK p : p = IF config[c].status = "active" THEN [q EXCEPT !.pc = "call"] ELSE Failed(q)
    OBVIOUS
  <2>5. p \in Request /\ Shape(p)
    BY <1>0, <2>1, <2>3, <2>4 DEF Request, Pcs, Failed, AddOps
  <2>6. Become(r, p) /\ UNCHANGED <<persons, tunnels>>
    BY <1>4, <2>2, <2>4 DEF Stop
  <2> QED BY <2>5, <2>6, OnlyRequest
<1> QED BY <1>1, <1>2, <1>3, <1>4

\* A failed call leaves a well-formed request.
LEMMA FailedType ==
  ASSUME Typed, NEW r \in Requests, req[r].pc = "call"
  PROVE  Failed(req[r]) \in Request /\ Shape(Failed(req[r]))
<1>1. req[r] \in Request /\ Shape(req[r])
  BY DEF Typed, TypeOK
<1>2. req[r].cfg \in Configs
  BY <1>1 DEF Shape
<1>3. CASE req[r].op \in AddOps
  BY <1>1, <1>2, <1>3 DEF Failed, Request, Pcs, Shape, AddOps
<1>4. CASE req[r].op = "suspend"
  BY <1>1, <1>2, <1>4 DEF Failed, Request, Pcs, Shape, AddOps
<1>5. CASE req[r].op \notin AddOps /\ req[r].op # "suspend"
  BY <1>5, IdleType DEF Failed
<1> QED BY <1>3, <1>4, <1>5

\* A call left behind is a call to the agent of one config.
LEMMA OrphanType ==
  ASSUME Typed, NEW r \in Requests
  PROVE  Orphan(r) \in SUBSET AgentCall
<1>1. req[r].pc = "call" => req[r].cfg \in Configs
  BY DEF Typed, Shape
<1> QED BY <1>1 DEF Orphan, AgentCall, Kind, Typed, TypeOK

\* Types are kept by the steps of the operations on one config.
LEMMA ConfigTyped ==
  ASSUME Typed, NEW r \in Requests,
         \/ Write(r) \/ Undo(r) \/ Commit(r) \/ AgentApplies(r) \/ AgentRefuses(r)
         \/ Timeout(r) \/ Abandon(r)
  PROVE  Typed'
<1>0. req[r] \in Request /\ Shape(req[r])
  BY DEF Typed, TypeOK
<1>1. CASE Write(r)
  <2>1. config' \in [Configs -> ConfigRow] /\ UNCHANGED <<persons, peers, stray>>
    BY <1>0, <1>1 DEF Write, ConfigRow, ConfigStates, Typed, TypeOK, Request
  <2>2. PICK q : q = [req[r] EXCEPT !.pc = "call"]
    OBVIOUS
  <2>3. q \in Request /\ Shape(q) /\ Become(r, q)
    BY <1>0, <1>1, <2>2 DEF Write, Request, Pcs, Shape
  <2> QED BY <2>1, <2>3, BecomeTyped, Gather DEF Typed, TypeOK, persons
<1>2. CASE Undo(r)
  <2>1. config' \in [Configs -> ConfigRow] /\ UNCHANGED <<persons, peers, stray>>
    BY <1>0, <1>2 DEF Undo, ConfigRow, ConfigStates, Typed, TypeOK
  <2> QED BY <1>2, <2>1, IdleType, BecomeTyped, Gather DEF Undo, Typed, TypeOK, persons
<1>3. CASE Commit(r)
  <2>1. config' \in [Configs -> ConfigRow] /\ UNCHANGED <<persons, peers, stray>>
    BY <1>0, <1>3 DEF Commit, Committed, ConfigRow, ConfigStates, Typed, TypeOK
  <2>2. PICK q : q = IF req[r].op = "suspend" THEN [req[r] EXCEPT !.pc = "stop", !.cfg = None] ELSE Idle
    OBVIOUS
  <2>3. q \in Request /\ Shape(q) /\ Become(r, q)
    BY <1>0, <1>3, <2>2, IdleType DEF Commit, Request, Pcs, Shape
  <2> QED BY <2>1, <2>3, BecomeTyped, Gather DEF Typed, TypeOK, persons
<1>4. CASE AgentApplies(r)
  <2>1. req[r].cfg \in Configs
    BY <1>0, <1>4 DEF AgentApplies, Shape
  <2>2. peers' \in SUBSET Configs /\ UNCHANGED <<persons, config, stray>>
    BY <1>4, <2>1 DEF AgentApplies, Apply, Typed, TypeOK
  <2>3. PICK q : q = IF req[r].op \in AddOps THEN Idle ELSE [req[r] EXCEPT !.pc = "commit"]
    OBVIOUS
  <2>4. q \in Request /\ Shape(q) /\ Become(r, q)
    BY <1>0, <1>4, <2>3, IdleType DEF AgentApplies, Request, Pcs, Shape
  <2> QED BY <2>2, <2>4, BecomeTyped, Gather DEF Typed, TypeOK, persons
<1>5. CASE AgentRefuses(r)
  BY <1>5, FailedType, OnlyRequest DEF AgentRefuses
<1>6. CASE Timeout(r)
  <2>1. Failed(req[r]) \in Request /\ Shape(Failed(req[r])) /\ Become(r, Failed(req[r]))
    BY <1>6, FailedType DEF Timeout
  <2>2. stray' \in SUBSET AgentCall /\ UNCHANGED <<persons, config, peers>>
    BY <1>6, OrphanType DEF Timeout
  <2> QED BY <2>1, <2>2, BecomeTyped, Gather DEF Typed, TypeOK, persons
<1>7. CASE Abandon(r)
  <2>1. stray' \in SUBSET AgentCall /\ UNCHANGED <<persons, config, peers>> /\ Become(r, Idle)
    BY <1>7, OrphanType DEF Abandon
  <2> QED BY <2>1, IdleType, BecomeTyped, Gather DEF Typed, TypeOK, persons
<1> QED BY <1>1, <1>2, <1>3, <1>4, <1>5, <1>6, <1>7

\* Types are kept by the steps of a sync, a visit and a creation.
LEMMA MirrorTyped ==
  ASSUME Typed, NEW r \in Requests,
         \/ EndSync(r) \/ Fetch(r) \/ Upsert(r) \/ Insert(r)
         \/ \E edited \in SUBSET People : Match(r, edited)
         \/ \E p \in People : Update(r, p)
  PROVE  Typed'
<1>0. /\ req[r] \in Request /\ Shape(req[r])
      /\ \A s \in People : req[r].seen[s] \in ClerkStates
  BY DEF Typed, TypeOK, Request
<1>1. ASSUME NEW edited \in SUBSET People, Match(r, edited)
      PROVE  Typed'
  <2>1. Differs(req[r]) \in SUBSET People
    BY DEF Differs, Known
  <2>2. PICK q : q = [req[r] EXCEPT !.pc = "update", !.todo = Differs(req[r]) \cup edited]
    OBVIOUS
  <2>3. q \in Request /\ Shape(q)
    BY <1>0, <2>1, <2>2 DEF Request, Pcs, Shape
  <2>4. Become(r, q) /\ UNCHANGED <<persons, tunnels>>
    BY <1>1, <2>2 DEF Match
  <2> QED BY <2>3, <2>4, OnlyRequest
<1>2. ASSUME NEW p \in People, Update(r, p)
      PROVE  Typed'
  <2>1. PICK q : q = [req[r] EXCEPT !.todo = @ \ {p}]
    OBVIOUS
  <2>2. q \in Request /\ Shape(q) /\ Become(r, q)
    BY <1>0, <1>2, <2>1 DEF Request, Shape, Update
  <2>3. row' \in [People -> RowStates] /\ UNCHANGED <<clerk, tunnels>>
    BY <1>0, <1>2, StatusType DEF Update, Typed, TypeOK
  <2> QED BY <2>2, <2>3, BecomeTyped, Gather DEF Typed, TypeOK, tunnels
<1>3. CASE EndSync(r)
  <2>1. row' \in [People -> RowStates] /\ UNCHANGED <<clerk, tunnels>> /\ Become(r, Idle)
    BY <1>0, <1>3, StatusType DEF EndSync, Typed, TypeOK
  <2> QED BY <2>1, IdleType, BecomeTyped, Gather DEF Typed, TypeOK, tunnels
<1>4. CASE Fetch(r)
  <2>1. PICK q : q = IF clerk[req[r].who] = "absent" THEN Idle
                     ELSE [req[r] EXCEPT !.pc = "update", !.seen = clerk]
    OBVIOUS
  <2>2. clerk \in [People -> ClerkStates] /\ req[r].op = "visit"
    BY <1>4 DEF Typed, TypeOK, Fetch, At
  <2>3. q \in Request /\ Shape(q)
    <3>1. CASE clerk[req[r].who] = "absent"
      BY <2>1, <3>1, IdleType
    <3>2. CASE clerk[req[r].who] # "absent"
      BY <1>0, <2>1, <2>2, <3>2 DEF Request, Pcs, Shape, AddOps
    <3> QED BY <3>1, <3>2
  <2>4. Become(r, q) /\ UNCHANGED <<persons, tunnels>>
    BY <1>4, <2>1 DEF Fetch
  <2> QED BY <2>3, <2>4, OnlyRequest
<1>5. CASE Upsert(r) \/ Insert(r)
  <2>1. StatusOf(req[r].seen[req[r].who]) \in RowStates /\ "active" \in RowStates
    BY DEF StatusOf, RowStates
  <2>2. row' \in [People -> RowStates] /\ UNCHANGED <<clerk, tunnels>> /\ Become(r, Idle)
    BY <1>5, <2>1 DEF Upsert, Insert, Typed, TypeOK
  <2> QED BY <2>2, IdleType, BecomeTyped, Gather DEF Typed, TypeOK, tunnels
<1> QED BY <1>1, <1>2, <1>3, <1>4, <1>5

LEMMA StepTyped ==
  ASSUME Typed, [Next]_vars
  PROVE  Typed'
<1>1. CASE UNCHANGED vars
  BY <1>1 DEF vars, Typed, TypeOK, Shape
<1>2. ASSUME NEW m \in stray, StrayLands(m)
      PROVE  Typed'
  <2>1. m.cfg \in Configs
    BY DEF Typed, TypeOK, AgentCall
  <2>2. peers' \in SUBSET Configs /\ stray' \in SUBSET AgentCall
    BY <1>2, <2>1 DEF StrayLands, Apply, Typed, TypeOK
  <2> QED BY <1>2, <2>2, Gather DEF StrayLands, Typed, TypeOK, persons
<1>3. ASSUME NEW p \in People, NEW state \in ClerkStates, ClerkChanges(p, state)
      PROVE  Typed'
  <2>1. clerk' \in [People -> ClerkStates]
    BY <1>3 DEF ClerkChanges, Typed, TypeOK
  <2> QED BY <1>3, <2>1, Gather DEF ClerkChanges, Typed, TypeOK, tunnels
<1>4. CASE Next
  BY <1>2, <1>3, <1>4, StartTyped, SuspendTyped, ConfigTyped, MirrorTyped DEF Next, Advance
<1> QED BY <1>1, <1>4

\* Every variable keeps its shape, for any people, configs, requests and faults
\* (users/index.ts, users/mirror.ts, configs/lifecycle.ts).
THEOREM TypeCorrect == Spec => []TypeOK
<1>1. Typed => TypeOK
  BY DEF Typed
<1> QED BY <1>1, InitTyped, StepTyped, PTL DEF Spec

-----------------------------------------------------------------------------
(* A suspension accounts for every tunnel *)

LEMMA InitAccounted == Init => SuspensionInv
BY DEF Init, SuspensionInv, Accounted, Idle

\* A config changes hands, gets a tunnel or becomes active only while it is being
\* switched on; any other step leaves its row, or takes it off "active".
Calm(c) ==
  /\ c \in peers' => c \in peers \/ Lifts(c)
  /\ \/ Lifts(c)
     \/ config'[c] = config[c]
     \/ config'[c].status # "active" /\ config'[c].owner \in {None, config[c].owner}

\* A step that starts no switching on leaves a suspension that did not move as
\* well informed as it was.
LEMMA Bystander ==
  ASSUME Typed, SuspensionInv, NEW r \in Requests, NEW c \in Configs,
         req'[r] = req[r], Lifts(c)' => Lifts(c), Calm(c)
  PROVE  Accounted(r, c)'
<1> SUFFICES ASSUME req[r].op = "suspend", c \notin req[r].given
             PROVE  Accounted(r, c)'
  BY DEF Accounted
<1>1. Accounted(r, c) /\ ~ Lifts(c) /\ ~ Lifts(c)'
  BY DEF SuspensionInv, Accounted
<1>2. c \in peers' => c \in peers
  BY <1>1 DEF Calm
<1>3. req[r].who # None
  BY AccessAssumption DEF Typed, Shape
<1>4. \/ config'[c] = config[c]
      \/ config'[c].status # "active" /\ config'[c].owner \in {None, config[c].owner}
  BY <1>1 DEF Calm
<1>5. config'[c].owner = req[r].who /\ (c \in peers' \/ config'[c].status = "active")
      => config[c].owner = req[r].who /\ (c \in peers \/ config[c].status = "active")
  BY <1>2, <1>3, <1>4
<1> QED BY <1>1, <1>2, <1>5 DEF Accounted, Handles

\* The calls left behind by a request, and what becomes of it, switch nothing on
\* that it was not switching on before.
LEMMA LiftsKept ==
  ASSUME Typed, NEW r \in Requests, NEW q, Become(r, q), NEW c \in Configs,
         q.op \in AddOps => req[r].op \in AddOps /\ q.cfg = req[r].cfg,
         stray' \subseteq Orphan(r)
  PROVE  Lifts(c)' => Lifts(c)
<1>1. \A s \in Requests : req'[s] = IF s = r THEN q ELSE req[s]
  BY DEF Become, Typed, TypeOK
<1>2. ASSUME NEW s \in Requests, req'[s].op \in AddOps, req'[s].cfg = c
      PROVE  Lifts(c)
  BY <1>1, <1>2 DEF Lifts
<1>3. ASSUME NEW m \in stray', m.op = "add", m.cfg = c
      PROVE  Lifts(c)
  <2>1. CASE m \in stray
    BY <1>3, <2>1 DEF Lifts
  <2>2. CASE m \notin stray
    <3>1. m = [op |-> Kind(req[r].op), cfg |-> req[r].cfg]
      BY <2>2 DEF Orphan
    <3>2. req[r].op \in AddOps /\ req[r].cfg = c
      BY <1>3, <3>1 DEF Kind
    <3> QED BY <3>2 DEF Lifts
  <2> QED BY <2>1, <2>2
<1>4. Lifts(c)' <=> \/ \E s \in Requests : req'[s].op \in AddOps /\ req'[s].cfg = c
                    \/ \E m \in stray' : m.op = "add" /\ m.cfg = c
  BY DEF Lifts
<1> QED BY <1>2, <1>3, <1>4

\* What the request that moves must still know, if it is a suspension, when it
\* continues as q.
Keeps(r, q, c) ==
  q.op = "suspend" =>
    /\ req[r].op = "suspend" /\ q.given = req[r].given
    /\ c \notin q.given =>
         /\ q.pc = "commit" /\ q.cfg = c => c \notin peers'
         /\ config'[c].owner = q.who /\ (c \in peers' \/ config'[c].status = "active")
              => \/ c \in q.list \cup q.failed
                 \/ q.pc \in {"call", "commit"} /\ q.cfg = c

\* A step of one request that starts no switching on.
LEMMA Mover ==
  ASSUME Typed, SuspensionInv, NEW r \in Requests, NEW q, Become(r, q),
         q.op \in AddOps => req[r].op \in AddOps /\ q.cfg = req[r].cfg,
         stray' \subseteq Orphan(r),
         \A c \in Configs : Calm(c) /\ Keeps(r, q, c)
  PROVE  SuspensionInv'
<1>1. \A s \in Requests : req'[s] = IF s = r THEN q ELSE req[s]
  BY DEF Become, Typed, TypeOK
<1>2. \A c \in Configs : Lifts(c)' => Lifts(c)
  BY LiftsKept
<1>3. ASSUME NEW s \in Requests, NEW c \in Configs, s # r
      PROVE  Accounted(s, c)'
  BY <1>1, <1>2, <1>3, Bystander
<1>4. ASSUME NEW c \in Configs
      PROVE  Accounted(r, c)'
  <2>1. CASE q.op # "suspend" \/ c \in q.given
    BY <1>1, <2>1 DEF Accounted
  <2>2. CASE q.op = "suspend" /\ c \notin q.given
    <3>1. Keeps(r, q, c) /\ Accounted(r, c)
      BY DEF SuspensionInv
    <3>2. ~ Lifts(c)'
      BY <1>2, <2>2, <3>1 DEF Keeps, Accounted
    <3>3. req'[r] = q
      BY <1>1
    <3> QED BY <2>2, <3>1, <3>2, <3>3 DEF Keeps, Accounted, Handles
  <2> QED BY <2>1, <2>2
<1>5. \A s \in Requests, c \in Configs : Accounted(s, c)'
  BY <1>3, <1>4
<1> QED BY <1>5 DEF SuspensionInv

\* A step that touches no tunnel keeps every config calm.
LEMMA Untouched ==
  ASSUME UNCHANGED tunnels, NEW r \in Requests
  PROVE  stray' \subseteq Orphan(r) /\ \A c \in Configs : Calm(c)
BY DEF tunnels, Orphan, Calm

\* A step that touches no tunnel and leaves the request something else than a
\* suspension or an operation that switches on.
LEMMA Aside ==
  ASSUME Typed, SuspensionInv, NEW r \in Requests, NEW q, Become(r, q),
         q.op \notin AddOps, q.op # "suspend", UNCHANGED tunnels
  PROVE  SuspensionInv'
<1>1. \A c \in Configs : Keeps(r, q, c)
  BY DEF Keeps
<1> QED BY <1>1, Untouched, Mover

\* A suspension begins: what it does not count as given is off or in its list.
LEMMA StartSuspendAccounted ==
  ASSUME Typed, SuspensionInv, NEW r \in Requests, NEW a \in Admins, NEW p \in People,
         StartSuspend(r, a, p)
  PROVE  SuspensionInv'
<1>1. PICK q : q = [Idle EXCEPT !.op = "suspend", !.who = p, !.list = TunnelsOf(p),
                         !.given = Raising, !.pc = IF p \in Local THEN "mark" ELSE "clerk"]
  BY Zenon
<1>2. Become(r, q) /\ UNCHANGED tunnels
  BY <1>1 DEF StartSuspend, Begin
<1>3. \A s \in Requests : req'[s] = IF s = r THEN q ELSE req[s]
  BY <1>2 DEF Become, Typed, TypeOK
<1>4. /\ q.op = "suspend" /\ q.who = p /\ q.list = TunnelsOf(p) /\ q.given = Raising
      /\ q.pc \in {"mark", "clerk"}
  BY <1>1 DEF Idle
<1>5. \A c \in Configs : Lifts(c)' => Lifts(c)
  BY <1>2, <1>4, LiftsKept, Untouched DEF AddOps
<1>6. ASSUME NEW s \in Requests, NEW c \in Configs, s # r
      PROVE  Accounted(s, c)'
  BY <1>2, <1>3, <1>5, <1>6, Untouched, Bystander
<1>7. ASSUME NEW c \in Configs, c \notin Raising
      PROVE  Accounted(r, c)'
  <2>1. ~ Lifts(c)
    BY <1>7 DEF Raising, Lifts
  <2>2. c \in peers => config[c].status = "active"
    BY <1>7 DEF Raising
  <2>3. config[c].owner = p /\ (c \in peers \/ config[c].status = "active") => c \in TunnelsOf(p)
    BY <2>2 DEF TunnelsOf
  <2>4. req'[r] = q /\ peers' = peers /\ config' = config
    BY <1>2, <1>3 DEF tunnels
  <2>5. ~ Lifts(c)'
    BY <1>5, <2>1
  <2> QED BY <1>4, <2>3, <2>4, <2>5 DEF Accounted
<1>8. \A s \in Requests, c \in Configs : Accounted(s, c)'
  BY <1>3, <1>4, <1>6, <1>7 DEF Accounted
<1> QED BY <1>8 DEF SuspensionInv

\* An assign or enable begins: every suspension under way counts its config as given.
LEMMA StartAddAccounted ==
  ASSUME Typed, SuspensionInv, NEW r \in Requests, NEW c \in Configs, NEW op \in AddOps,
         NEW p \in People \cup {None}, StartAdd(r, op, c, p)
  PROVE  SuspensionInv'
<1>1. PICK q : q = [Idle EXCEPT !.op = op, !.pc = "write", !.who = p, !.cfg = c]
  BY Zenon
<1>2. q.op = op /\ q.cfg = c /\ op # "suspend"
  BY <1>1 DEF Idle, AddOps
<1>3. \A s \in Requests : req'[s] = IF s = r THEN q
                                    ELSE IF req[s].op = "suspend" THEN [req[s] EXCEPT !.given = @ \cup {c}]
                                    ELSE req[s]
  BY <1>1 DEF StartAdd
<1>4. config' = config /\ peers' = peers /\ stray' = stray
  BY DEF StartAdd, tunnels
<1>5. ASSUME NEW s \in Requests, s # r
      PROVE  /\ req'[s].op = req[s].op /\ req'[s].cfg = req[s].cfg /\ req'[s].pc = req[s].pc
             /\ req'[s].who = req[s].who /\ req'[s].list = req[s].list
             /\ req'[s].failed = req[s].failed
             /\ req[s].op = "suspend" => req'[s].given = req[s].given \cup {c}
  BY <1>3, <1>5 DEF Typed, TypeOK, Request
<1>6. ASSUME NEW d \in Configs, d # c, Lifts(d)'
      PROVE  Lifts(d)
  <2>1. \/ \E s \in Requests : req'[s].op \in AddOps /\ req'[s].cfg = d
        \/ \E m \in stray' : m.op = "add" /\ m.cfg = d
    BY <1>6 DEF Lifts
  <2>2. ASSUME NEW s \in Requests, req'[s].op \in AddOps, req'[s].cfg = d
        PROVE  Lifts(d)
    <3>1. s # r
      BY <1>2, <1>3, <1>6, <2>2
    <3> QED BY <1>5, <2>2, <3>1 DEF Lifts
  <2> QED BY <1>4, <2>1, <2>2 DEF Lifts
<1>7. ASSUME NEW s \in Requests, NEW d \in Configs
      PROVE  Accounted(s, d)'
  <2> SUFFICES ASSUME req'[s].op = "suspend", d \notin req'[s].given
               PROVE  Accounted(s, d)'
    BY DEF Accounted
  <2>1. s # r
    BY <1>2, <1>3
  <2>2. req[s].op = "suspend" /\ d \notin req[s].given /\ d # c
    BY <1>5, <2>1
  <2>3. Accounted(s, d) /\ ~ Lifts(d)'
    BY <1>6, <2>2 DEF SuspensionInv, Accounted
  <2> QED BY <1>4, <1>5, <2>1, <2>2, <2>3 DEF Accounted, Handles
<1> QED BY <1>7 DEF SuspensionInv

LEMMA StartAccounted ==
  ASSUME Typed, SuspensionInv, NEW r \in Requests, Start(r)
  PROVE  SuspensionInv'
<1>1. ASSUME NEW a \in Admins, NEW p \in People, StartSuspend(r, a, p)
      PROVE  SuspensionInv'
  BY <1>1, StartSuspendAccounted
<1>2. ASSUME NEW c \in Configs, NEW op \in AddOps, NEW p \in People \cup {None}, StartAdd(r, op, c, p)
      PROVE  SuspensionInv'
  BY <1>2, StartAddAccounted
<1>3. ASSUME NEW c \in Configs, NEW op \in Removals, StartRemove(r, op, c)
      PROVE  SuspensionInv'
  <2>1. PICK q : q = [Idle EXCEPT !.op = op, !.pc = "call", !.cfg = c]
    BY Zenon
  <2>2. q.op \notin AddOps /\ q.op # "suspend"
    BY <2>1, AccessAssumption DEF Idle, AddOps, RemoveOps
  <2>3. Become(r, q) /\ UNCHANGED tunnels
    BY <1>3, <2>1 DEF StartRemove, Begin
  <2> QED BY <2>2, <2>3, Aside
<1>4. ASSUME NEW q, q.op \in {"sync", "reactivate", "visit", "create"}, Become(r, q), UNCHANGED tunnels
      PROVE  SuspensionInv'
  BY <1>4, Aside DEF AddOps
<1>5. CASE StartSync(r)
  <2>1. PICK q : q = [Idle EXCEPT !.op = "sync", !.pc = "match", !.seen = clerk]
    BY Zenon
  <2>2. q.op = "sync"
    BY <2>1 DEF Idle
  <2>3. Become(r, q) /\ UNCHANGED tunnels
    BY <1>5, <2>1 DEF StartSync, Begin
  <2> QED BY <1>4, <2>2, <2>3
<1>6. ASSUME NEW p \in People, StartReactivate(r, p)
      PROVE  SuspensionInv'
  <2>1. PICK q : q = [Idle EXCEPT !.op = "reactivate", !.who = p,
                           !.pc = IF p \in Local THEN "mark" ELSE "clerk"]
    BY Zenon
  <2>2. q.op = "reactivate"
    BY <2>1 DEF Idle
  <2>3. Become(r, q) /\ UNCHANGED tunnels
    BY <1>6, <2>1 DEF StartReactivate, Begin
  <2> QED BY <1>4, <2>2, <2>3
<1>7. ASSUME NEW p \in People, Visit(r, p)
      PROVE  SuspensionInv'
  <2>1. PICK q : q = [Idle EXCEPT !.op = "visit", !.pc = "match", !.who = p]
    BY Zenon
  <2>2. q.op = "visit"
    BY <2>1 DEF Idle
  <2>3. Become(r, q) /\ UNCHANGED tunnels
    BY <1>7, <2>1 DEF Visit, Begin
  <2> QED BY <1>4, <2>2, <2>3
<1>8. ASSUME NEW p \in People, StartCreate(r, p)
      PROVE  SuspensionInv'
  <2>1. PICK q : q = [Idle EXCEPT !.op = "create", !.pc = "insert", !.who = p]
    BY Zenon
  <2>2. q.op = "create"
    BY <2>1 DEF Idle
  <2>3. Become(r, q) /\ UNCHANGED tunnels
    BY <1>8, <2>1 DEF StartCreate, Begin
  <2> QED BY <1>4, <2>2, <2>3
<1> QED BY <1>1, <1>2, <1>3, <1>5, <1>6, <1>7, <1>8 DEF Start

\* The steps of the suspension itself, and of a reactivation.
LEMMA SuspendAccounted ==
  ASSUME Typed, SuspensionInv, NEW r \in Requests,
         SetClerkBan(r) \/ Mark(r) \/ Answers(r) \/ \E c \in Configs : Stop(r, c)
  PROVE  SuspensionInv'
<1>0. req[r] \in Request /\ Shape(req[r])
  BY DEF Typed, TypeOK
<1>1. CASE SetClerkBan(r)
  <2>1. PICK q : q = [req[r] EXCEPT !.pc = "mark"]
    OBVIOUS
  <2>2. Become(r, q) /\ UNCHANGED tunnels /\ req[r].pc = "clerk" /\ req[r].op \notin AddOps
    BY <1>1, <2>1 DEF SetClerkBan, AddOps
  <2>3. /\ q.op = req[r].op /\ q.given = req[r].given /\ q.who = req[r].who /\ q.pc = "mark"
        /\ q.list = req[r].list /\ q.failed = req[r].failed
    BY <1>0, <2>1 DEF Request
  <2>4. \A c \in Configs : Keeps(r, q, c)
    BY <2>2, <2>3 DEF SuspensionInv, Accounted, Keeps, Handles, tunnels
  <2> QED BY <2>2, <2>3, <2>4, Untouched, Mover
<1>2. CASE Mark(r)
  <2>1. CASE req[r].op # "suspend"
    <3>1. Become(r, Idle) /\ UNCHANGED tunnels
      BY <1>2, <2>1 DEF Mark
    <3> QED BY <3>1, Aside DEF Idle, AddOps
  <2>2. CASE req[r].op = "suspend"
    <3>1. PICK q : q = [req[r] EXCEPT !.pc = "stop"]
      OBVIOUS
    <3>2. Become(r, q) /\ UNCHANGED tunnels /\ req[r].pc = "mark" /\ req[r].op \notin AddOps
      BY <1>2, <2>2, <3>1 DEF Mark, AddOps
    <3>3. /\ q.op = req[r].op /\ q.given = req[r].given /\ q.who = req[r].who /\ q.pc = "stop"
          /\ q.list = req[r].list /\ q.failed = req[r].failed
      BY <1>0, <3>1 DEF Request
    <3>4. \A c \in Configs : Keeps(r, q, c)
      BY <3>2, <3>3 DEF SuspensionInv, Accounted, Keeps, Handles, tunnels
    <3> QED BY <3>2, <3>3, <3>4, Untouched, Mover
  <2> QED BY <2>1, <2>2
<1>3. CASE Answers(r)
  BY <1>3, Aside DEF Answers, Idle, AddOps
<1>4. ASSUME NEW c \in Configs, Stop(r, c)
      PROVE  SuspensionInv'
  <2>1. req[r].op = "suspend" /\ req[r].pc = "stop"
    BY <1>0, <1>4 DEF Stop, Shape
  <2>2. PICK q : q = [req[r] EXCEPT !.cfg = c, !.list = @ \ {c}]
    OBVIOUS
  <2>3. /\ q.op = "suspend" /\ q.cfg = c /\ q.who = req[r].who /\ q.given = req[r].given
        /\ q.list = req[r].list \ {c} /\ q.failed = req[r].failed
    BY <1>0, <2>1, <2>2 DEF Request
  <2>4. PICK p : p = IF config[c].status = "active" THEN [q EXCEPT !.pc = "call"] ELSE Failed(q)
    OBVIOUS
  <2>5. /\ p.op = "suspend" /\ p.who = req[r].who /\ p.given = req[r].given
        /\ p.list = req[r].list \ {c}
        /\ \/ p.pc = "call" /\ p.cfg = c /\ p.failed = req[r].failed
           \/ p.pc = "stop" /\ p.failed = req[r].failed \cup {c}
    BY <1>0, <2>2, <2>3, <2>4 DEF Request, Failed, AddOps
  <2>6. Become(r, p) /\ UNCHANGED tunnels
    BY <1>4, <2>2, <2>4 DEF Stop
  <2>7. \A d \in Configs : Keeps(r, p, d)
    BY <2>1, <2>5, <2>6 DEF SuspensionInv, Accounted, Keeps, Handles, tunnels
  <2>8. p.op \notin AddOps
    BY <2>5 DEF AddOps
  <2> QED BY <2>6, <2>7, <2>8, Untouched, Mover
<1> QED BY <1>1, <1>2, <1>3, <1>4

\* A call that fails, or that the request gives up on.
LEMMA FailedAccounted ==
  ASSUME Typed, SuspensionInv, NEW r \in Requests, req[r].pc = "call",
         Become(r, Failed(req[r])), stray' \subseteq Orphan(r), UNCHANGED <<config, peers>>
  PROVE  SuspensionInv'
<1>0. req[r] \in Request /\ Shape(req[r])
  BY DEF Typed, TypeOK
<1>1. PICK q : q = Failed(req[r])
  OBVIOUS
<1>2. q.op \in AddOps => req[r].op \in AddOps /\ q.cfg = req[r].cfg
  BY <1>0, <1>1 DEF Failed, Idle, Request, AddOps
<1>3. \A c \in Configs : Calm(c)
  BY DEF Calm
<1>4. q.op = "suspend" =>
        /\ req[r].op = "suspend" /\ q.given = req[r].given /\ q.who = req[r].who
        /\ q.pc = "stop" /\ q.list = req[r].list /\ q.failed = req[r].failed \cup {req[r].cfg}
  BY <1>0, <1>1 DEF Failed, Idle, Request, AddOps
<1>5. \A c \in Configs : Keeps(r, q, c)
  BY <1>4 DEF SuspensionInv, Accounted, Keeps, Handles
<1>6. Become(r, q)
  BY <1>1
<1> QED BY <1>2, <1>3, <1>5, <1>6, Mover

\* The steps of the operations on one config, and of the agents.
LEMMA ConfigAccounted ==
  ASSUME Typed, SuspensionInv, NEW r \in Requests,
         \/ Write(r) \/ Undo(r) \/ Commit(r) \/ AgentApplies(r) \/ AgentRefuses(r)
         \/ Timeout(r) \/ Abandon(r)
  PROVE  SuspensionInv'
<1>0. req[r] \in Request /\ Shape(req[r])
  BY DEF Typed, TypeOK
<1>a. config \in [Configs -> ConfigRow]
  BY DEF Typed, TypeOK
<1>1. CASE Write(r)
  <2>1. req[r].pc = "write" /\ req[r].op \in AddOps /\ req[r].op # "suspend"
    BY <1>0, <1>1 DEF Write, Shape, AddOps
  <2>2. PICK q : q = [req[r] EXCEPT !.pc = "call"]
    OBVIOUS
  <2>3. Become(r, q) /\ q.op = req[r].op /\ q.cfg = req[r].cfg
    BY <1>0, <1>1, <2>2 DEF Write, Request
  <2>4. \A c \in Configs : Lifts(c) \/ config'[c] = config[c]
    BY <1>1, <1>a, <2>1 DEF Write, Lifts
  <2>5. peers' = peers /\ stray' \subseteq Orphan(r)
    BY <1>1 DEF Write, Orphan
  <2>6. \A c \in Configs : Calm(c) /\ Keeps(r, q, c)
    BY <2>1, <2>3, <2>4, <2>5 DEF Calm, Keeps
  <2> QED BY <2>1, <2>3, <2>5, <2>6, Mover
<1>2. CASE Undo(r)
  <2>1. req[r].op \in AddOps
    BY <1>0, <1>2 DEF Undo, Shape
  <2>2. Become(r, Idle) /\ peers' = peers /\ stray' \subseteq Orphan(r)
    BY <1>2 DEF Undo, Orphan
  <2>3. \A c \in Configs : Lifts(c) \/ config'[c] = config[c]
    BY <1>2, <1>a, <2>1 DEF Undo, Lifts
  <2>4. \A c \in Configs : Calm(c) /\ Keeps(r, Idle, c)
    BY <2>2, <2>3 DEF Calm, Keeps, Idle
  <2>5. Idle.op \notin AddOps
    BY DEF Idle, AddOps
  <2> QED BY <2>2, <2>4, <2>5, Mover
<1>3. CASE Commit(r)
  <2>1. req[r].pc = "commit" /\ req[r].cfg \in Configs /\ req[r].op \notin AddOps
    BY <1>0, <1>3 DEF Commit, Shape
  <2>2. PICK q : q = IF req[r].op = "suspend" THEN [req[r] EXCEPT !.pc = "stop", !.cfg = None] ELSE Idle
    OBVIOUS
  <2>3. Become(r, q) /\ peers' = peers /\ stray' \subseteq Orphan(r)
    BY <1>3, <2>2 DEF Commit, Orphan
  <2>4. \A c \in Configs : config'[c] = IF c = req[r].cfg THEN Committed(req[r].op, config[c]) ELSE config[c]
    BY <1>3, <1>a DEF Commit
  <2>5. \A c \in Configs : /\ Committed(req[r].op, config[c]).status # "active"
                           /\ Committed(req[r].op, config[c]).owner \in {None, config[c].owner}
    BY <1>a DEF Committed, ConfigRow
  <2>6. \A c \in Configs : Calm(c)
    BY <2>3, <2>4, <2>5 DEF Calm
  <2>7. q.op \notin AddOps
    BY <1>0, <2>1, <2>2 DEF Request, Idle, AddOps
  <2>8. q.op = "suspend" =>
          /\ req[r].op = "suspend" /\ q.given = req[r].given /\ q.who = req[r].who
          /\ q.pc = "stop" /\ q.list = req[r].list /\ q.failed = req[r].failed
    BY <1>0, <2>2 DEF Request, Idle
  <2>9. ASSUME NEW c \in Configs
        PROVE  Keeps(r, q, c)
    <3> SUFFICES ASSUME q.op = "suspend", c \notin q.given
                 PROVE  Keeps(r, q, c)
      BY <2>8 DEF Keeps
    <3>1. Accounted(r, c) /\ req[r].op = "suspend" /\ c \notin req[r].given
      BY <2>8 DEF SuspensionInv
    <3>2. CASE c = req[r].cfg
      BY <2>1, <2>3, <2>4, <2>5, <2>8, <3>1, <3>2 DEF Accounted, Keeps
    <3>3. CASE c # req[r].cfg
      BY <2>3, <2>4, <2>8, <3>1, <3>3 DEF Accounted, Keeps, Handles
    <3> QED BY <3>2, <3>3
  <2> QED BY <2>3, <2>6, <2>7, <2>9, Mover
<1>4. CASE AgentApplies(r)
  <2>1. req[r].pc = "call" /\ UNCHANGED config /\ stray' \subseteq Orphan(r)
    BY <1>4 DEF AgentApplies, Orphan
  <2>2. CASE req[r].op \in AddOps
    <3>1. Become(r, Idle) /\ peers' = peers \cup {req[r].cfg}
      BY <1>4, <2>2 DEF AgentApplies, Apply, Kind
    <3>2. \A c \in Configs : Calm(c) /\ Keeps(r, Idle, c)
      BY <2>1, <2>2, <3>1 DEF Calm, Lifts, Keeps, Idle
    <3>3. Idle.op \notin AddOps
      BY DEF Idle, AddOps
    <3> QED BY <2>1, <3>1, <3>2, <3>3, Mover
  <2>3. CASE req[r].op \notin AddOps
    <3>1. PICK q : q = [req[r] EXCEPT !.pc = "commit"]
      OBVIOUS
    <3>2. Become(r, q) /\ peers' = peers \ {req[r].cfg}
      BY <1>4, <2>3, <3>1 DEF AgentApplies, Apply, Kind
    <3>3. /\ q.op = req[r].op /\ q.given = req[r].given /\ q.who = req[r].who /\ q.pc = "commit"
          /\ q.list = req[r].list /\ q.failed = req[r].failed /\ q.cfg = req[r].cfg
      BY <1>0, <3>1 DEF Request
    <3>4. \A c \in Configs : Calm(c)
      BY <2>1, <3>2 DEF Calm
    <3>5. \A c \in Configs : Keeps(r, q, c)
      BY <2>1, <3>2, <3>3 DEF SuspensionInv, Accounted, Keeps, Handles
    <3> QED BY <2>1, <2>3, <3>2, <3>3, <3>4, <3>5, Mover
  <2> QED BY <2>2, <2>3
<1>5. CASE AgentRefuses(r)
  BY <1>5, FailedAccounted DEF AgentRefuses, tunnels, Orphan
<1>6. CASE Timeout(r)
  BY <1>6, FailedAccounted DEF Timeout
<1>7. CASE Abandon(r)
  <2>1. Become(r, Idle) /\ stray' \subseteq Orphan(r) /\ UNCHANGED <<config, peers>>
    BY <1>7 DEF Abandon
  <2>2. \A c \in Configs : Calm(c) /\ Keeps(r, Idle, c)
    BY <2>1 DEF Calm, Keeps, Idle
  <2>3. Idle.op \notin AddOps
    BY DEF Idle, AddOps
  <2> QED BY <2>1, <2>2, <2>3, Mover
<1> QED BY <1>1, <1>2, <1>3, <1>4, <1>5, <1>6, <1>7

\* Syncs, visits and creations touch no tunnel.
LEMMA MirrorAccounted ==
  ASSUME Typed, SuspensionInv, NEW r \in Requests,
         \/ EndSync(r) \/ Fetch(r) \/ Upsert(r) \/ Insert(r)
         \/ \E edited \in SUBSET People : Match(r, edited)
         \/ \E p \in People : Update(r, p)
  PROVE  SuspensionInv'
<1>0. req[r] \in Request
  BY DEF Typed, TypeOK
<1>1. UNCHANGED tunnels
  BY DEF EndSync, Fetch, Upsert, Insert, Match, Update
<1>2. Idle.op \notin AddOps /\ Idle.op # "suspend"
  BY DEF Idle, AddOps
<1>3. CASE EndSync(r) \/ Upsert(r) \/ Insert(r)
  BY <1>1, <1>2, <1>3, Aside DEF EndSync, Upsert, Insert
<1>4. ASSUME NEW q, q.op \in {"sync", "visit"}, Become(r, q)
      PROVE  SuspensionInv'
  BY <1>1, <1>4, Aside DEF AddOps
<1>5. CASE Fetch(r)
  <2>1. CASE clerk[req[r].who] = "absent"
    BY <1>1, <1>2, <1>5, <2>1, Aside DEF Fetch
  <2>2. CASE clerk[req[r].who] # "absent"
    <3>1. PICK q : q = [req[r] EXCEPT !.pc = "update", !.seen = clerk]
      OBVIOUS
    <3>2. q.op = "visit"
      BY <1>0, <1>5, <3>1 DEF Fetch, At, Request
    <3>3. Become(r, q)
      BY <1>5, <2>2, <3>1 DEF Fetch
    <3> QED BY <1>4, <3>2, <3>3
  <2> QED BY <2>1, <2>2
<1>6. ASSUME NEW edited \in SUBSET People, Match(r, edited)
      PROVE  SuspensionInv'
  <2>1. PICK q : q = [req[r] EXCEPT !.pc = "update", !.todo = Differs(req[r]) \cup edited]
    OBVIOUS
  <2>2. q.op = "sync"
    BY <1>0, <1>6, <2>1 DEF Match, At, Request
  <2>3. Become(r, q)
    BY <1>6, <2>1 DEF Match
  <2> QED BY <1>4, <2>2, <2>3
<1>7. ASSUME NEW p \in People, Update(r, p)
      PROVE  SuspensionInv'
  <2>1. PICK q : q = [req[r] EXCEPT !.todo = @ \ {p}]
    OBVIOUS
  <2>2. q.op = "sync"
    BY <1>0, <1>7, <2>1 DEF Update, At, Request
  <2>3. Become(r, q)
    BY <1>7, <2>1 DEF Update
  <2> QED BY <1>4, <2>2, <2>3
<1> QED BY <1>3, <1>5, <1>6, <1>7

LEMMA StepAccounted ==
  ASSUME Typed, SuspensionInv, [Next]_vars
  PROVE  SuspensionInv'
<1>1. ASSUME req' = req, stray' \subseteq stray, \A c \in Configs : Calm(c)
      PROVE  SuspensionInv'
  <2>1. \A c \in Configs : Lifts(c)' => Lifts(c)
    BY <1>1 DEF Lifts
  <2>2. \A r \in Requests, c \in Configs : Accounted(r, c)'
    BY <1>1, <2>1, Bystander
  <2> QED BY <2>2 DEF SuspensionInv
<1>2. CASE UNCHANGED vars
  BY <1>1, <1>2 DEF vars, Calm
<1>3. ASSUME NEW m \in stray, StrayLands(m)
      PROVE  SuspensionInv'
  <2>1. req' = req /\ config' = config /\ stray' \subseteq stray
    BY <1>3 DEF StrayLands
  <2>2. \A c \in Configs : c \in peers' => c \in peers \/ Lifts(c)
    BY <1>3 DEF StrayLands, Apply, Lifts
  <2> QED BY <1>1, <2>1, <2>2 DEF Calm
<1>4. ASSUME NEW p \in People, NEW state \in ClerkStates, ClerkChanges(p, state)
      PROVE  SuspensionInv'
  BY <1>1, <1>4 DEF ClerkChanges, tunnels, Calm
<1>5. CASE Next
  BY <1>3, <1>4, <1>5, StartAccounted, SuspendAccounted, ConfigAccounted, MirrorAccounted
  DEF Next, Advance
<1> QED BY <1>2, <1>5

\* When a suspension answers, every config of its person that is active or has a
\* tunnel is named as failed, but for those somebody was switching on, or had
\* left a call or a tunnel on, since its list was read: for any people, configs,
\* faults and operations at once (users/index.ts suspendUser).
THEOREM SuspensionIsHonest == Spec => SuspensionNamesWhatStaysOn
<1>1. ASSUME Typed, SuspensionInv
      PROVE  \A r \in Requests, c \in Configs :
               Answers(r) /\ config[c].owner = req[r].who /\ (c \in peers \/ config[c].status = "active")
               => c \in req[r].failed \cup req[r].given
  <2>1. \A r \in Requests, c \in Configs :
          Answers(r) => req[r].op = "suspend" /\ req[r].list = {} /\ req[r].pc = "stop"
    BY <1>1 DEF Answers, Typed, Shape
  <2> QED BY <1>1, <2>1 DEF SuspensionInv, Accounted, Handles
<1> QED BY <1>1, InitTyped, StepTyped, InitAccounted, StepAccounted, PTL DEF Spec, SuspensionNamesWhatStaysOn

=============================================================================
