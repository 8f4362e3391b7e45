-------------------------- MODULE LifecycleProofs --------------------------
(***************************************************************************)
(* Proofs about Lifecycle, for any sets of requests, configs, nodes, users *)
(* and addresses, and any faults.                                          *)
(***************************************************************************)
EXTENDS LifecycleContract, TLAPS

-----------------------------------------------------------------------------
(* Types *)

\* A request that loads, writes or calls has a config to do it to.
HasTarget(q) ==
  q.pc \in {"load", "write", "sent", "settled", "undo"} => q.cfg \in Configs

TypeInv == TypeOK /\ \A r \in Requests : HasTarget(req[r])

LEMMA IdleType == Idle \in Request /\ HasTarget(Idle)
  BY DEF Idle, Request, Ops, Pcs, HasTarget

LEMMA LoadedType ==
  ASSUME TypeOK, NEW q \in Request, q.cfg \in Configs
  PROVE  Loaded(q) \in Request /\ HasTarget(Loaded(q))
<1> DEFINE b == IF q.op = "assign" THEN config[q.cfg].owner ELSE None
           p == IF q.op \in AddOps THEN "write"
                ELSE IF Managed(q.cfg) THEN "sent" ELSE "settled"
<1>1. b \in Users \cup {None}
  BY DEF TypeOK, ConfigRow
<1>2. p \in Pcs
  BY DEF Pcs
<1>3. Loaded(q) = [q EXCEPT !.pc = p, !.before = b]
  BY DEF Loaded
<1> HIDE DEF b, p
<1> QED
  BY <1>1, <1>2, <1>3 DEF Request, HasTarget

LEMMA FinishedType ==
  ASSUME NEW q \in Request, q.cfg \in Configs
  PROVE  Finished(q) \in Request /\ HasTarget(Finished(q))
<1>1. [q EXCEPT !.op = "generate", !.pc = "alloc"] \in Request
  BY DEF Request, Ops, Pcs
<1>2. [q EXCEPT !.op = "assign", !.pc = "load"] \in Request
  BY DEF Request, Ops, ConfigOps, AddOps, Pcs
<1>3. [q EXCEPT !.pc = "link"] \in Request
  BY DEF Request, Pcs
<1> QED
  BY <1>1, <1>2, <1>3, IdleType DEF Finished, Request, HasTarget

LEMMA FailedType ==
  ASSUME NEW q \in Request, q.cfg \in Configs
  PROVE  Failed(q) \in Request /\ HasTarget(Failed(q))
  BY IdleType DEF Failed, Request, Pcs, HasTarget

LEMMA BecomeType ==
  ASSUME TypeInv, NEW r \in Requests, NEW q \in Request, HasTarget(q), Become(r, q)
  PROVE  /\ req' \in [Requests -> Request]
         /\ \A s \in Requests : HasTarget(req'[s])
  BY DEF TypeInv, TypeOK, Become

LEMMA ApplyType ==
  ASSUME TypeOK, NEW kind, NEW c \in Configs, Apply(kind, c)
  PROVE  /\ peers' \in SUBSET Configs
         /\ route' \in [Nodes \X Pool -> Configs \cup {None}]
  BY DEF TypeOK, Apply, AddPeer, RemovePeer

LEMMA OrphanType ==
  ASSUME TypeInv, NEW r \in Requests
  PROVE  Orphan(r) \in SUBSET AgentCall
  BY DEF TypeInv, TypeOK, HasTarget, Orphan, AgentCall, Kind


LEMMA TypeInit == Init => TypeInv
  BY LifecycleAssumption, IdleType
  DEF Init, TypeInv, TypeOK, NoRow, ConfigRow, Statuses, Live

LEMMA StartType ==
  ASSUME TypeInv, NEW r \in Requests, Start(r)
  PROVE  TypeInv'
<1>1. Idle \in Request
  BY IdleType
<1>2. ASSUME NEW op \in ConfigOps, NEW c \in Configs, NEW u \in Users \cup {None},
             StartOp(r, op, c, u)
      PROVE  TypeInv'
  <2> DEFINE q == [Idle EXCEPT !.op = op, !.cfg = c, !.user = u]
  <2>1. q \in Request /\ q.cfg \in Configs
    BY <1>1 DEF Request, Ops
  <2>2. Become(r, Loaded(q)) /\ UNCHANGED <<db, node, stray>>
    BY <1>2 DEF StartOp
  <2> HIDE DEF q
  <2>3. Loaded(q) \in Request /\ HasTarget(Loaded(q))
    BY <2>1, LoadedType DEF TypeInv
  <2> QED
    BY <2>2, <2>3, BecomeType DEF TypeInv, TypeOK, db, node
<1>3. ASSUME NEW n \in Nodes, NEW u \in Users \cup {None}, StartGenerate(r, n, u)
      PROVE  TypeInv'
  <2>1. LET q == [Idle EXCEPT !.op = "generate", !.pc = "alloc", !.node = n, !.user = u]
        IN  q \in Request /\ HasTarget(q)
    BY <1>1 DEF Idle, Request, Ops, Pcs, HasTarget
  <2> QED
    BY <1>3, <2>1, BecomeType DEF StartGenerate, TypeInv, TypeOK, db, node
<1>4. ASSUME NEW c \in Configs, NEW u \in Users, StartReassign(r, c, u)
      PROVE  TypeInv'
  <2>1. config[c].node \in Nodes \cup {None}
    BY DEF TypeInv, TypeOK, ConfigRow
  <2> DEFINE q == [Idle EXCEPT !.op = "revoke", !.cfg = c, !.user = u,
                               !.node = config[c].node, !.orig = c]
  <2>2. q \in Request /\ q.cfg \in Configs
    BY <1>1, <2>1 DEF Request, Ops, ConfigOps, RemoveOps
  <2>3. Become(r, Loaded(q)) /\ UNCHANGED <<db, node, stray>>
    BY <1>4 DEF StartReassign
  <2> HIDE DEF q
  <2>4. Loaded(q) \in Request /\ HasTarget(Loaded(q))
    BY <2>2, LoadedType DEF TypeInv
  <2> QED
    BY <2>3, <2>4, BecomeType DEF TypeInv, TypeOK, db, node
<1>5. ASSUME NEW n \in Nodes, StartRemoveNode(r, n)
      PROVE  TypeInv'
  <2>1. LET q == [Idle EXCEPT !.op = "removeNode", !.pc = "retire", !.node = n]
        IN  q \in Request /\ HasTarget(q)
    BY <1>1 DEF Idle, Request, Ops, Pcs, HasTarget
  <2> QED
    BY <1>5, <2>1, BecomeType DEF StartRemoveNode, TypeInv, TypeOK, db, node
<1> QED
  BY <1>2, <1>3, <1>4, <1>5 DEF Start

LEMMA AdvanceType ==
  ASSUME TypeInv, NEW r \in Requests, Advance(r)
  PROVE  TypeInv'
<1> DEFINE q == req[r]
<1> USE DEF TypeInv
<1>1. q \in Request /\ HasTarget(q)
  BY DEF TypeOK
<1>2. CASE Load(r)
  BY <1>1, <1>2, LoadedType, IdleType, BecomeType DEF Load, TypeOK, db, node, HasTarget
<1>3. CASE Alloc(r)
  <2>1. ASSUME NEW ip \in Pool
        PROVE  LET p == [q EXCEPT !.pc = "insert", !.ip = ip]
               IN  p \in Request /\ HasTarget(p)
    BY <1>1 DEF Request, Pcs, HasTarget
  <2> QED
    BY <1>3, <2>1, IdleType, BecomeType DEF Alloc, Free, TypeOK, db, node
<1>4. CASE Insert(r)
  <2>1. q.node \in Nodes \cup {None} /\ q.ip \in Pool \cup {None}
    BY <1>1 DEF Request
  <2>2. ASSUME NEW c \in Configs
        PROVE  /\ [q EXCEPT !.cfg = c, !.ip = None] \in Request
               /\ [q EXCEPT !.cfg = c, !.ip = None].cfg = c
               /\ [NoRow EXCEPT !.status = "unassigned", !.source = "managed",
                                !.node = q.node, !.ip = q.ip] \in ConfigRow
    BY <1>1, <2>1 DEF Request, NoRow, ConfigRow, Statuses, Live
  <2>3. PICK c \in Configs :
          /\ config' = [config EXCEPT ![c] =
                          [NoRow EXCEPT !.status = "unassigned", !.source = "managed",
                                        !.node = q.node, !.ip = q.ip]]
          /\ address' = [address EXCEPT ![c] = "live"]
          /\ Become(r, Finished([q EXCEPT !.cfg = c, !.ip = None]))
    BY <1>4 DEF Insert
  <2>4. LET p == Finished([q EXCEPT !.cfg = c, !.ip = None])
        IN  p \in Request /\ HasTarget(p)
    BY <2>2, FinishedType
  <2> QED
    BY <1>4, <2>2, <2>3, <2>4, BecomeType DEF Insert, TypeOK, node
<1>5. CASE InsertFails(r)
  BY <1>5, IdleType, BecomeType DEF InsertFails, TypeOK, db, node
<1>6. CASE Write(r)
  <2>1. q.cfg \in Configs
    BY <1>1, <1>6 DEF Write, HasTarget
  <2>2. LET p == [q EXCEPT !.pc = "sent"] IN p \in Request /\ HasTarget(p)
    BY <1>1, <2>1 DEF Request, Pcs, HasTarget
  <2>3. req' \in [Requests -> Request] /\ \A s \in Requests : HasTarget(req'[s])
    BY <1>1, <1>6, <2>1, <2>2, FinishedType, BecomeType DEF Write
  <2>4. q.user \in Users \cup {None} /\ config[q.cfg] \in ConfigRow
    BY <1>1, <2>1 DEF Request, TypeOK
  <2>5. /\ [config[q.cfg] EXCEPT !.status = "active", !.owner = q.user] \in ConfigRow
        /\ [config[q.cfg] EXCEPT !.status = "active"] \in ConfigRow
    BY <2>4 DEF ConfigRow, Statuses, Live
  <2>6. config' \in [Configs -> ConfigRow]
    BY <1>6, <2>1, <2>5 DEF Write, TypeOK
  <2> QED
    BY <1>6, <2>3, <2>6 DEF Write, TypeOK, node
<1>7. CASE Confirm(r)
  BY <1>1, <1>7, FinishedType, BecomeType DEF Confirm, TypeOK, db, node, HasTarget
<1>8. CASE Commit(r)
  <2>1. q.cfg \in Configs
    BY <1>1, <1>8 DEF Commit, HasTarget
  <2>2. config[q.cfg] \in ConfigRow
    BY <2>1 DEF TypeOK
  <2>3. Committed(q.op, config[q.cfg]) \in ConfigRow
    BY <2>2 DEF Committed, ConfigRow, Statuses, Live
  <2>4. req' \in [Requests -> Request] /\ \A s \in Requests : HasTarget(req'[s])
    BY <1>1, <1>8, <2>1, FinishedType, BecomeType DEF Commit
  <2> QED
    BY <1>8, <2>1, <2>3, <2>4 DEF Commit, TypeOK, node
<1>9. CASE Undo(r)
  <2>1. q.cfg \in Configs
    BY <1>1, <1>9 DEF Undo, HasTarget
  <2>2. config[q.cfg] \in ConfigRow /\ q.before \in Users \cup {None}
    BY <1>1, <2>1 DEF TypeOK, Request
  <2>3. Restored(q, config[q.cfg]) \in ConfigRow
    BY <2>2 DEF Restored, ConfigRow, Statuses, Live
  <2> QED
    BY <1>9, <2>1, <2>3, IdleType, BecomeType DEF Undo, TypeOK, node
<1>10. CASE Link(r)
  <2>1. q.cfg \in Configs \cup {None}
    BY <1>1 DEF Request
  <2>2. ASSUME NEW c \in Configs
        PROVE  [config[c] EXCEPT !.replacedBy = q.cfg] \in ConfigRow
    <3>1. config[c] \in ConfigRow
      BY DEF TypeOK
    <3> QED
      BY <2>1, <3>1 DEF ConfigRow
  <2>3. config' = [config EXCEPT ![q.orig] = [@ EXCEPT !.replacedBy = q.cfg]]
    BY <1>10 DEF Link
  <2>4. config' \in [Configs -> ConfigRow]
    BY <2>2, <2>3 DEF TypeOK
  <2> QED
    BY <1>10, <2>4, IdleType, BecomeType DEF Link, TypeOK, node
<1>11. CASE RetireNode(r)
  BY <1>11, IdleType, BecomeType DEF RetireNode, TypeOK, node
<1>12. CASE Timeout(r)
  BY <1>1, <1>12, FailedType, OrphanType, BecomeType
  DEF Timeout, TypeOK, db, node, HasTarget
<1> QED
  BY <1>2, <1>3, <1>4, <1>5, <1>6, <1>7, <1>8, <1>9, <1>10, <1>11, <1>12 DEF Advance

LEMMA OtherType ==
  ASSUME TypeInv, Next,
         \A r \in Requests : ~ Start(r) /\ ~ Advance(r)
  PROVE  TypeInv'
<1> USE DEF TypeInv
<1>1. ASSUME NEW r \in Requests, AgentApplies(r) PROVE TypeInv'
  <2>1. req[r] \in Request /\ req[r].cfg \in Configs
    BY <1>1 DEF AgentApplies, TypeOK, HasTarget
  <2>2. LET q == [req[r] EXCEPT !.pc = "settled"] IN q \in Request /\ HasTarget(q)
    BY <2>1 DEF Request, Pcs, HasTarget
  <2> QED
    BY <1>1, <2>1, <2>2, ApplyType, BecomeType DEF AgentApplies, TypeOK, db
<1>2. ASSUME NEW r \in Requests, AgentRefuses(r) PROVE TypeInv'
  BY <1>2, FailedType, BecomeType DEF AgentRefuses, TypeOK, db, node, HasTarget
<1>3. ASSUME NEW r \in Requests, Abandon(r) PROVE TypeInv'
  BY <1>3, IdleType, OrphanType, BecomeType DEF Abandon, TypeOK, db, node
<1>4. ASSUME NEW c \in Configs, Upload(c) PROVE TypeInv'
  <2>1. [NoRow EXCEPT !.status = "unassigned"] \in ConfigRow
    BY DEF NoRow, ConfigRow, Statuses, Live
  <2> QED
    BY <1>4, <2>1 DEF Upload, TypeOK, node
<1>5. ASSUME NEW m \in stray, StrayLands(m) PROVE TypeInv'
  <2>1. m.cfg \in Configs
    BY DEF TypeOK, AgentCall
  <2> QED
    BY <1>5, <2>1, ApplyType DEF StrayLands, TypeOK, db
<1>6. ASSUME NEW m \in stray, StrayLost(m) PROVE TypeInv'
  BY <1>6 DEF StrayLost, TypeOK, db, node
<1>7. ASSUME NEW n \in Nodes, Reboot(n) PROVE TypeInv'
  BY <1>7 DEF Reboot, TypeOK, db
<1> QED
  BY <1>1, <1>2, <1>3, <1>4, <1>5, <1>6, <1>7 DEF Next

LEMMA TypeStep == TypeInv /\ [Next]_vars => TypeInv'
<1> SUFFICES ASSUME TypeInv, [Next]_vars PROVE TypeInv'
  OBVIOUS
<1>1. CASE Next
  BY <1>1, StartType, AdvanceType, OtherType
<1>2. CASE UNCHANGED vars
  BY <1>2 DEF vars, TypeInv, TypeOK
<1> QED
  BY <1>1, <1>2

\* Every variable keeps its shape, for any constants and any faults.
THEOREM TypeCorrect == Spec => []TypeOK
<1>1. Spec => []TypeInv
  BY TypeInit, TypeStep, PTL DEF Spec
<1> QED
  BY <1>1, PTL DEF TypeInv

-----------------------------------------------------------------------------
(* What holds under every interleaving and every fault *)

\* The owner an undone assign restores is always none, and only an existing row
\* has an address.
RaceInv ==
  /\ UniqueLiveAddress
  /\ SpareHasNoOwner
  /\ \A r \in Requests : req[r].before = None
  /\ \A c \in Configs : config[c].status = "none" => address[c] # "live"

LEMMA RaceInit == Init => RaceInv
  BY DEF Init, RaceInv, UniqueLiveAddress, SpareHasNoOwner, Idle, NoRow

LEMMA LoadedBefore ==
  ASSUME TypeInv, SpareHasNoOwner, NEW q \in Request, q.cfg \in Configs,
         config[q.cfg].status \in From(q.op)
  PROVE  Loaded(q).before = None
<1>1. CASE q.op = "assign"
  BY <1>1 DEF From, SpareHasNoOwner, Loaded, Request
<1>2. CASE q.op # "assign"
  BY <1>2 DEF Loaded, Request
<1> QED
  BY <1>1, <1>2

LEMMA BecomeBefore ==
  ASSUME TypeInv, RaceInv, NEW r \in Requests, NEW q, q.before = None, Become(r, q)
  PROVE  \A s \in Requests : req'[s].before = None
  BY DEF TypeInv, TypeOK, RaceInv, Become

LEMMA KeepsBefore ==
  ASSUME NEW q \in Request, q.before = None
  PROVE  /\ Idle.before = None
         /\ Finished(q).before = None
         /\ Failed(q).before = None
  BY DEF Idle, Finished, Failed, Request

\* The steps that touch neither table only have to keep "before".
LEMMA RaceSameTables ==
  ASSUME RaceInv, UNCHANGED <<config, address>>,
         \A s \in Requests : req'[s].before = None
  PROVE  RaceInv'
  BY DEF RaceInv, UniqueLiveAddress, SpareHasNoOwner

LEMMA RaceStart ==
  ASSUME TypeInv, RaceInv, NEW r \in Requests, Start(r)
  PROVE  RaceInv'
<1>1. ASSUME NEW op \in ConfigOps, NEW c \in Configs, NEW u \in Users \cup {None},
             StartOp(r, op, c, u)
      PROVE  RaceInv'
  <2> DEFINE q == [Idle EXCEPT !.op = op, !.cfg = c, !.user = u]
  <2>1. q \in Request /\ q.cfg = c /\ q.op = op
    BY IdleType DEF Idle, Request, Ops
  <2>2. Become(r, Loaded(q)) /\ config[c].status \in From(op)
        /\ UNCHANGED <<config, address>>
    BY <1>1 DEF StartOp, db
  <2> HIDE DEF q
  <2>3. Loaded(q).before = None
    BY <2>1, <2>2, LoadedBefore DEF RaceInv
  <2> QED
    BY <2>2, <2>3, BecomeBefore, RaceSameTables
<1>2. ASSUME NEW n \in Nodes, NEW u \in Users \cup {None}, StartGenerate(r, n, u)
      PROVE  RaceInv'
  BY <1>2, BecomeBefore, RaceSameTables DEF StartGenerate, db, Idle
<1>3. ASSUME NEW c \in Configs, NEW u \in Users, StartReassign(r, c, u)
      PROVE  RaceInv'
  <2> DEFINE q == [Idle EXCEPT !.op = "revoke", !.cfg = c, !.user = u,
                               !.node = config[c].node, !.orig = c]
  <2>1. Become(r, Loaded(q)) /\ UNCHANGED <<config, address>>
    BY <1>3 DEF StartReassign, db
  <2>2. Loaded(q).before = None
    BY DEF Loaded, Idle
  <2> HIDE DEF q
  <2> QED
    BY <2>1, <2>2, BecomeBefore, RaceSameTables
<1>4. ASSUME NEW n \in Nodes, StartRemoveNode(r, n)
      PROVE  RaceInv'
  BY <1>4, BecomeBefore, RaceSameTables DEF StartRemoveNode, db, Idle
<1> QED
  BY <1>1, <1>2, <1>3, <1>4 DEF Start

LEMMA RaceAdvance ==
  ASSUME TypeInv, RaceInv, NEW r \in Requests, Advance(r)
  PROVE  RaceInv'
<1> DEFINE q == req[r]
<1>1. q \in Request /\ HasTarget(q) /\ q.before = None
  BY DEF TypeInv, TypeOK, RaceInv
<1>2. /\ Idle.before = None
      /\ Finished(q).before = None
      /\ Failed(q).before = None
  BY <1>1, KeepsBefore
<1>3. ASSUME UNCHANGED <<config, address>>, NEW p, p.before = None, Become(r, p)
      PROVE  RaceInv'
  BY <1>3, BecomeBefore, RaceSameTables
<1>4. CASE Load(r)
  <2>1. CASE config[q.cfg].status \in From(q.op)
    <3>1. q.cfg \in Configs
      BY <1>1, <1>4 DEF Load, HasTarget
    <3>2. Loaded(q).before = None
      BY <1>1, <2>1, <3>1, LoadedBefore DEF RaceInv
    <3> QED
      BY <1>3, <1>4, <2>1, <3>2 DEF Load, db
  <2>2. CASE config[q.cfg].status \notin From(q.op)
    BY <1>2, <1>3, <1>4, <2>2 DEF Load, db
  <2> QED
    BY <2>1, <2>2
<1>5. CASE Alloc(r)
  <2>1. ASSUME NEW ip PROVE [q EXCEPT !.pc = "insert", !.ip = ip].before = None
    BY <1>1 DEF Request
  <2> QED
    BY <1>2, <1>3, <1>5, <2>1 DEF Alloc, db
<1>6. CASE Insert(r)
  <2> DEFINE row == [NoRow EXCEPT !.status = "unassigned", !.source = "managed",
                                  !.node = q.node, !.ip = q.ip]
  <2>1. PICK c \in Configs :
          /\ config[c].status = "none"
          /\ config' = [config EXCEPT ![c] = row]
          /\ address' = [address EXCEPT ![c] = "live"]
          /\ Become(r, Finished([q EXCEPT !.cfg = c, !.ip = None]))
    BY <1>6 DEF Insert
  <2>2. /\ row.status = "unassigned" /\ row.owner = None
        /\ row.node = q.node /\ row.ip = q.ip
    BY DEF NoRow
  <2>3. \A d \in Configs : address[d] = "live" /\ config[d].node = q.node
                             => config[d].ip # q.ip
    BY <1>6 DEF Insert, Conflicts, Taken
  <2>4. \A d \in Configs : /\ config'[d] = IF d = c THEN row ELSE config[d]
                           /\ address'[d] = IF d = c THEN "live" ELSE address[d]
    BY <2>1 DEF TypeInv, TypeOK
  <2>5. \A s \in Requests : req'[s].before = None
    <3>1. /\ [q EXCEPT !.cfg = c, !.ip = None] \in Request
          /\ [q EXCEPT !.cfg = c, !.ip = None].before = None
      BY <1>1 DEF Request
    <3> QED
      BY <2>1, <3>1, KeepsBefore, BecomeBefore
  <2> HIDE DEF row
  <2> QED
    BY <2>2, <2>3, <2>4, <2>5 DEF RaceInv, UniqueLiveAddress, SpareHasNoOwner
<1>7. CASE InsertFails(r)
  BY <1>2, <1>3, <1>7 DEF InsertFails, db
<1>8. CASE Write(r)
  <2>1. q.cfg \in Configs
    BY <1>1, <1>8 DEF Write, HasTarget
  <2>2. \A d \in Configs :
          /\ config'[d].node = config[d].node /\ config'[d].ip = config[d].ip
          /\ d # q.cfg => config'[d] = config[d]
          /\ d = q.cfg => config'[d].status = "active"
    BY <1>8, <2>1 DEF Write, TypeInv, TypeOK, ConfigRow
  <2>3. \A s \in Requests : req'[s].before = None
    <3>1. [q EXCEPT !.pc = "sent"].before = None
      BY <1>1 DEF Request
    <3> QED
      BY <1>2, <1>8, <3>1, BecomeBefore DEF Write
  <2> QED
    BY <1>8, <2>2, <2>3 DEF Write, RaceInv, UniqueLiveAddress, SpareHasNoOwner
<1>9. CASE Confirm(r)
  BY <1>2, <1>3, <1>9 DEF Confirm, db
<1>10. CASE Commit(r)
  <2>1. q.cfg \in Configs
    BY <1>1, <1>10 DEF Commit, HasTarget
  <2>2. \A d \in Configs :
          /\ config'[d].node = config[d].node /\ config'[d].ip = config[d].ip
          /\ d # q.cfg => config'[d] = config[d]
          /\ d = q.cfg => /\ config'[d].status # "none"
                          /\ config'[d].status = "unassigned" => config'[d].owner = None
          /\ address'[d] = "live" => address[d] = "live"
    BY <1>10, <2>1 DEF Commit, Committed, TypeInv, TypeOK, ConfigRow
  <2>3. \A s \in Requests : req'[s].before = None
    BY <1>2, <1>10, BecomeBefore DEF Commit
  <2> QED
    BY <2>2, <2>3 DEF RaceInv, UniqueLiveAddress, SpareHasNoOwner
<1>11. CASE Undo(r)
  <2>1. q.cfg \in Configs
    BY <1>1, <1>11 DEF Undo, HasTarget
  <2>2. \A d \in Configs :
          /\ config'[d].node = config[d].node /\ config'[d].ip = config[d].ip
          /\ d # q.cfg => config'[d] = config[d]
          /\ d = q.cfg => /\ config'[d].status # "none"
                          /\ config'[d].status = "unassigned" => config'[d].owner = None
    BY <1>1, <1>11, <2>1 DEF Undo, Restored, TypeInv, TypeOK, ConfigRow
  <2>3. \A s \in Requests : req'[s].before = None
    BY <1>2, <1>11, BecomeBefore DEF Undo
  <2> QED
    BY <1>11, <2>2, <2>3 DEF Undo, RaceInv, UniqueLiveAddress, SpareHasNoOwner
<1>12. CASE Link(r)
  <2>1. \A d \in Configs :
          /\ config'[d].node = config[d].node /\ config'[d].ip = config[d].ip
          /\ config'[d].status = config[d].status /\ config'[d].owner = config[d].owner
    BY <1>12 DEF Link, TypeInv, TypeOK, ConfigRow
  <2>2. \A s \in Requests : req'[s].before = None
    BY <1>2, <1>12, BecomeBefore DEF Link
  <2> QED
    BY <1>12, <2>1, <2>2 DEF Link, RaceInv, UniqueLiveAddress, SpareHasNoOwner
<1>13. CASE RetireNode(r)
  BY <1>2, <1>3, <1>13 DEF RetireNode
<1>14. CASE Timeout(r)
  BY <1>2, <1>3, <1>14 DEF Timeout, db
<1> QED
  BY <1>4, <1>5, <1>6, <1>7, <1>8, <1>9, <1>10, <1>11, <1>12, <1>13, <1>14 DEF Advance

LEMMA RaceOther ==
  ASSUME TypeInv, RaceInv, Next,
         \A r \in Requests : ~ Start(r) /\ ~ Advance(r)
  PROVE  RaceInv'
<1>1. ASSUME NEW r \in Requests, AgentApplies(r) \/ AgentRefuses(r) \/ Abandon(r)
      PROVE  RaceInv'
  <2>1. req[r] \in Request /\ req[r].before = None
    BY DEF TypeInv, TypeOK, RaceInv
  <2>2. [req[r] EXCEPT !.pc = "settled"].before = None
    BY <2>1 DEF Request
  <2> QED
    BY <1>1, <2>1, <2>2, KeepsBefore, BecomeBefore, RaceSameTables
    DEF AgentApplies, AgentRefuses, Abandon, db
<1>2. ASSUME NEW c \in Configs, Upload(c) PROVE RaceInv'
  <2> DEFINE row == [NoRow EXCEPT !.status = "unassigned"]
  <2>1. row.status = "unassigned" /\ row.owner = None
    BY DEF NoRow
  <2>2. \A d \in Configs : config'[d] = IF d = c THEN row ELSE config[d]
    BY <1>2 DEF Upload, TypeInv, TypeOK
  <2>3. address[c] # "live" /\ UNCHANGED <<address, req>>
    BY <1>2 DEF Upload, RaceInv
  <2> HIDE DEF row
  <2> QED
    BY <2>1, <2>2, <2>3 DEF RaceInv, UniqueLiveAddress, SpareHasNoOwner
<1>3. ASSUME UNCHANGED <<db, req>> PROVE RaceInv'
  BY <1>3 DEF db, RaceInv, UniqueLiveAddress, SpareHasNoOwner
<1>4. ASSUME NEW m \in stray, StrayLands(m) \/ StrayLost(m) PROVE RaceInv'
  BY <1>3, <1>4 DEF StrayLands, StrayLost
<1>5. ASSUME NEW n \in Nodes, Reboot(n) PROVE RaceInv'
  BY <1>3, <1>5 DEF Reboot
<1> QED
  BY <1>1, <1>2, <1>4, <1>5 DEF Next

LEMMA RaceStep == TypeInv /\ RaceInv /\ [Next]_vars => RaceInv'
<1> SUFFICES ASSUME TypeInv, RaceInv, [Next]_vars PROVE RaceInv'
  OBVIOUS
<1>1. CASE Next
  BY <1>1, RaceStart, RaceAdvance, RaceOther
<1>2. CASE UNCHANGED vars
  BY <1>2 DEF vars, RaceInv, UniqueLiveAddress, SpareHasNoOwner
<1> QED
  BY <1>1, <1>2

\* The unique index keeps live addresses of a node apart, and a spare never
\* names a person, however the requests interleave and whatever fails.
THEOREM RacesAreSafe == Spec => [](UniqueLiveAddress /\ SpareHasNoOwner)
<1>1. Spec => [](TypeInv /\ RaceInv)
  BY TypeInit, TypeStep, RaceInit, RaceStep, PTL DEF Spec
<1>2. RaceInv => UniqueLiveAddress /\ SpareHasNoOwner
  BY DEF RaceInv
<1> QED
  BY <1>1, <1>2, PTL

-----------------------------------------------------------------------------
(* Handing over under every interleaving *)

\* A row with a node has had an address, and a row with an address exists.
RowKept ==
  \A c \in Configs : /\ config[c].node # None => address[c] # "none"
                     /\ address[c] # "none" => config[c].status # "none"

\* What a reassign may rely on although others work on its rows: the old row is
\* on the node it read, its address is gone for good once it is revoked, and the
\* replacement is a row that did not exist before.
Passing(q) ==
  /\ q.pc \in {"alloc", "insert"} => q.op = "generate"
  /\ q.pc = "write" => q.op \in AddOps
  /\ q.pc = "link" => q.op = "assign"
  /\ q.orig # None =>
       /\ q.op \in {"revoke", "generate", "assign"}
       /\ q.node # None /\ config[q.orig].node = q.node
       /\ q.op = "revoke" => q.cfg = q.orig
       /\ q.op # "revoke" => address[q.orig] = "released"
       /\ q.op = "assign" => /\ q.cfg \in Configs \ {q.orig}
                             /\ config[q.cfg].node = q.node
                             /\ address[q.cfg] # "none"

HandInv == RowKept /\ HandOverIsFresh /\ \A r \in Requests : Passing(req[r])

\* No step moves a row to another node, unmakes an address or takes a released
\* one back into use.
Onward ==
  \A c \in Configs :
    /\ config[c].node # None => config'[c].node = config[c].node
    /\ address[c] # "none" => address'[c] # "none"
    /\ address[c] = "released" => address'[c] = "released"

\* Nothing is handed over at the start.
LEMMA HandInit == Init => HandInv
<1> SUFFICES ASSUME Init PROVE HandInv
  OBVIOUS
<1>1. \A c \in Configs : config[c] = NoRow /\ address[c] = "none"
  BY DEF Init
<1>2. \A r \in Requests : Passing(req[r])
  BY DEF Init, Passing, Idle
<1> QED BY <1>1, <1>2, LifecycleAssumption DEF HandInv, RowKept, HandOverIsFresh, NoRow

\* A reassign relies on nothing that can be taken away from it.
LEMMA PassingFrame ==
  ASSUME Onward, NEW q \in Request, Passing(q)
  PROVE  Passing(q)'
<1>1. q.orig # None => q.orig \in Configs
  BY DEF Request
<1> QED BY <1>1 DEF Onward, Passing

\* The step of one request: the others keep what they rely on.
LEMMA PassingStep ==
  ASSUME TypeInv, HandInv, Onward, NEW r \in Requests, NEW p, Become(r, p), Passing(p)'
  PROVE  \A s \in Requests : Passing(req[s])'
<1> SUFFICES ASSUME NEW s \in Requests PROVE Passing(req[s])'
  OBVIOUS
<1>1. req'[s] = IF s = r THEN p ELSE req[s]
  BY DEF Become, TypeInv, TypeOK
<1> DEFINE q == req[s]
<1>2. q \in Request /\ Passing(q)
  BY DEF TypeInv, TypeOK, HandInv
<1>3. CASE s = r
  BY <1>1, <1>3 DEF Passing
<1>4. CASE s # r
  <2>1. q.orig # None => q.orig \in Configs
    BY <1>2 DEF Request
  <2> QED BY <1>1, <1>2, <1>4, <2>1 DEF Onward, Passing
<1> QED BY <1>3, <1>4

\* A request that has ended relies on nothing.
LEMMA PassingIdle == Passing(Idle) /\ Passing(Idle)'
  BY DEF Passing, Idle

\* What an operation does once its row is loaded, or its agent has failed, is
\* still part of the same hand-over.
LEMMA PassingOn ==
  ASSUME TypeInv, NEW q \in Request, Passing(q)
  PROVE  /\ Passing(Loaded(q))
         /\ Passing(Failed(q))
         /\ Passing([q EXCEPT !.pc = "sent"]) /\ Passing([q EXCEPT !.pc = "settled"])
<1>1. \A pc \in {"sent", "settled", "undo"} : Passing([q EXCEPT !.pc = pc])
  BY DEF Passing, Request
<1>2. ASSUME NEW pc \in {"write", "sent", "settled"}, NEW b, pc = "write" => q.op \in AddOps
      PROVE  Passing([q EXCEPT !.pc = pc, !.before = b])
  BY <1>2 DEF Passing, Request
<1>3. Passing(Loaded(q))
  BY <1>2 DEF Loaded
<1>4. Passing(Failed(q))
  BY <1>1, PassingIdle DEF Failed
<1> QED BY <1>1, <1>3, <1>4

\* The steps that touch neither table.
LEMMA HandSameTables ==
  ASSUME TypeInv, HandInv, UNCHANGED <<config, address>>,
         NEW r \in Requests, NEW p, Become(r, p), Passing(p)
  PROVE  HandInv'
<1>1. Onward
  BY DEF Onward
<1>2. Passing(p)'
  BY DEF Passing
<1>3. \A s \in Requests : Passing(req[s])'
  BY <1>1, <1>2, PassingStep
<1> QED BY <1>3 DEF HandInv, RowKept, HandOverIsFresh

\* Starting a request writes nothing; a reassign reads the node of its row.
LEMMA HandStart ==
  ASSUME TypeInv, HandInv, NEW r \in Requests, Start(r)
  PROVE  HandInv'
<1>0. Idle \in Request
  BY IdleType
<1>1. ASSUME NEW op \in ConfigOps, NEW c \in Configs, NEW u \in Users \cup {None},
             StartOp(r, op, c, u)
      PROVE  HandInv'
  <2> DEFINE q == [Idle EXCEPT !.op = op, !.cfg = c, !.user = u]
  <2>1. q \in Request /\ q.op = op /\ Passing(q)
    BY <1>0 DEF Idle, Request, Ops, Passing
  <2>2. Become(r, Loaded(q)) /\ UNCHANGED <<config, address>>
    BY <1>1 DEF StartOp, db
  <2> HIDE DEF q
  <2>3. Passing(Loaded(q))
    BY <2>1, PassingOn
  <2> QED BY <2>2, <2>3, HandSameTables
<1>2. ASSUME NEW n \in Nodes, NEW u \in Users \cup {None}, StartGenerate(r, n, u)
      PROVE  HandInv'
  <2>1. Passing([Idle EXCEPT !.op = "generate", !.pc = "alloc", !.node = n, !.user = u])
    BY DEF Idle, Passing
  <2> QED BY <1>2, <2>1, HandSameTables DEF StartGenerate, db
<1>3. ASSUME NEW c \in Configs, NEW u \in Users, StartReassign(r, c, u)
      PROVE  HandInv'
  <2> DEFINE q == [Idle EXCEPT !.op = "revoke", !.cfg = c, !.user = u,
                               !.node = config[c].node, !.orig = c]
  <2>1. config[c].node \in Nodes /\ config[c].node # None
    BY <1>3 DEF StartReassign, TypeInv, TypeOK, ConfigRow
  <2>2. q \in Request
    BY <1>0, <2>1 DEF Idle, Request, Ops, ConfigOps, RemoveOps
  <2>3. Passing(q)
    BY <2>1 DEF Idle, Passing
  <2>4. Become(r, Loaded(q)) /\ UNCHANGED <<config, address>>
    BY <1>3 DEF StartReassign, db
  <2> HIDE DEF q
  <2>5. Passing(Loaded(q))
    BY <2>2, <2>3, PassingOn
  <2> QED BY <2>4, <2>5, HandSameTables
<1>4. ASSUME NEW n \in Nodes, StartRemoveNode(r, n)
      PROVE  HandInv'
  <2>1. Passing([Idle EXCEPT !.op = "removeNode", !.pc = "retire", !.node = n])
    BY DEF Idle, Passing
  <2> QED BY <1>4, <2>1, HandSameTables DEF StartRemoveNode, db
<1> QED BY <1>1, <1>2, <1>3, <1>4 DEF Start

\* Writing a row that exists, without touching its node or its replacement, and
\* releasing an address at most.
LEMMA HandSameRows ==
  ASSUME TypeInv, HandInv, NEW r \in Requests, NEW p, Become(r, p), NEW c \in Configs,
         \A d \in Configs : /\ config'[d].node = config[d].node
                            /\ config'[d].replacedBy = config[d].replacedBy
                            /\ d # c => config'[d] = config[d]
                            /\ d = c => config'[d].status # "none",
         \A d \in Configs : address'[d] = address[d] \/ (address[d] # "none" /\ address'[d] = "released"),
         Passing(p)'
  PROVE  HandInv'
<1>1. Onward
  BY DEF Onward
<1>2. \A s \in Requests : Passing(req[s])'
  BY <1>1, PassingStep
<1> QED BY <1>2 DEF HandInv, RowKept, HandOverIsFresh

\* A new row: until then nothing pointed at it, and it is on the node that was
\* asked for.
LEMMA HandInsert ==
  ASSUME TypeInv, HandInv, NEW r \in Requests, Insert(r)
  PROVE  HandInv'
<1> PICK q : q = req[r]
  OBVIOUS
<1> DEFINE row == [NoRow EXCEPT !.status = "unassigned", !.source = "managed",
                                !.node = q.node, !.ip = q.ip]
<1>1. q \in Request /\ Passing(q) /\ q.op = "generate"
  BY DEF Insert, TypeInv, TypeOK, HandInv, Passing
<1>2. PICK c \in Configs :
        /\ config[c].status = "none"
        /\ config' = [config EXCEPT ![c] = row]
        /\ address' = [address EXCEPT ![c] = "live"]
        /\ Become(r, Finished([q EXCEPT !.cfg = c, !.ip = None]))
  BY DEF Insert
<1>3. row.status = "unassigned" /\ row.node = q.node /\ row.replacedBy = None
  BY DEF NoRow
<1> HIDE DEF row
<1>4. \A d \in Configs : /\ config'[d] = IF d = c THEN row ELSE config[d]
                         /\ address'[d] = IF d = c THEN "live" ELSE address[d]
  BY <1>2 DEF TypeInv, TypeOK
<1>5. address[c] = "none" /\ config[c].node = None
  BY <1>2 DEF HandInv, RowKept
<1>6. Onward
  BY <1>4, <1>5 DEF Onward
<1>7. Passing(Finished([q EXCEPT !.cfg = c, !.ip = None]))'
  <2> PICK p : p = [q EXCEPT !.cfg = c, !.ip = None]
    OBVIOUS
  <2>1. p.op = "generate" /\ p.cfg = c /\ p.orig = q.orig /\ p.node = q.node /\ p.user = q.user
    BY <1>1 DEF Request
  <2>2. p \in Request
    BY <1>1 DEF Request
  <2>3. CASE p.user = None
    BY <2>1, <2>3, PassingIdle DEF Finished
  <2>4. CASE p.user # None
    <3> PICK f : f = [p EXCEPT !.op = "assign", !.pc = "load"]
      OBVIOUS
    <3>1. Finished(p) = f
      BY <2>1, <2>4 DEF Finished
    <3>2. /\ f.op = "assign" /\ f.pc = "load" /\ f.cfg = c /\ f.orig = q.orig /\ f.node = q.node
      BY <2>1, <2>2 DEF Request
    <3>3. q.orig # None =>
            /\ q.orig \in Configs /\ q.node # None /\ config[q.orig].node = q.node
            /\ address[q.orig] = "released"
      BY <1>1 DEF Passing, Request
    <3>4. q.orig # None =>
            /\ q.orig # c /\ config'[q.orig].node = q.node /\ address'[q.orig] = "released"
      BY <1>4, <1>5, <3>3
    <3>5. config'[c].node = q.node /\ address'[c] # "none"
      BY <1>3, <1>4
    <3>6. Passing(f)'
      BY <3>2, <3>3, <3>4, <3>5 DEF Passing
    <3> QED BY <3>1, <3>6
  <2> QED BY <2>3, <2>4
<1>8. \A s \in Requests : Passing(req[s])'
  BY <1>2, <1>6, <1>7, PassingStep
<1>9. RowKept' /\ HandOverIsFresh'
  BY <1>3, <1>4, <1>5, LifecycleAssumption DEF HandInv, RowKept, HandOverIsFresh
<1> QED BY <1>8, <1>9 DEF HandInv

\* A reassign goes on from its revoke with the address released, and from its
\* assign to the link.
LEMMA PassingFinished ==
  ASSUME NEW q \in Request, q.op \in ConfigOps, Passing(q)',
         q.op = "revoke" /\ q.orig # None => address'[q.orig] = "released"
  PROVE  Passing(Finished(q))'
<1>1. CASE q.op = "revoke" /\ q.orig # None
  <2> DEFINE f == [q EXCEPT !.op = "generate", !.pc = "alloc"]
  <2>1. f.op = "generate" /\ f.pc = "alloc" /\ f.orig = q.orig /\ f.node = q.node
    BY DEF Request
  <2>2. Finished(q) = f
    BY <1>1 DEF Finished
  <2> HIDE DEF f
  <2>3. Passing(f)'
    BY <1>1, <2>1 DEF Passing
  <2> QED BY <2>2, <2>3
<1>2. CASE q.op = "assign" /\ q.orig # None
  <2> DEFINE f == [q EXCEPT !.pc = "link"]
  <2>1. f.op = "assign" /\ f.pc = "link" /\ f.cfg = q.cfg /\ f.orig = q.orig /\ f.node = q.node
    BY <1>2 DEF Request
  <2>2. Finished(q) = f
    BY <1>2 DEF Finished
  <2> HIDE DEF f
  <2>3. Passing(f)'
    BY <1>2, <2>1 DEF Passing
  <2> QED BY <2>2, <2>3
<1>3. CASE ~ (q.op \in {"revoke", "assign"} /\ q.orig # None)
  <2>1. Finished(q) = Idle
    BY <1>3 DEF Finished, ConfigOps, AddOps, RemoveOps
  <2> QED BY <2>1, PassingIdle
<1> QED BY <1>1, <1>2, <1>3

\* The link: the old row's address is released, and the replacement has one.
LEMMA HandLink ==
  ASSUME TypeInv, HandInv, NEW r \in Requests, Link(r)
  PROVE  HandInv'
<1> DEFINE q == req[r]
<1>1. q \in Request /\ Passing(q) /\ q.op = "assign"
  BY DEF Link, TypeInv, TypeOK, HandInv, Passing
<1>2. \A d \in Configs :
        /\ config'[d].node = config[d].node /\ config'[d].status = config[d].status
        /\ config'[d].replacedBy = IF d = q.orig THEN q.cfg ELSE config[d].replacedBy
  BY DEF Link, TypeInv, TypeOK, ConfigRow
<1>3. address' = address /\ Become(r, Idle)
  BY DEF Link
<1>4. Onward
  BY <1>2, <1>3 DEF Onward
<1>5. \A s \in Requests : Passing(req[s])'
  BY <1>3, <1>4, PassingIdle, PassingStep
<1>6. RowKept'
  BY <1>2, <1>3 DEF HandInv, RowKept
<1>7. HandOverIsFresh'
  <2>1. \A d \in Configs : d = q.orig => d # None
    BY LifecycleAssumption
  <2> QED BY <1>1, <1>2, <1>3, <2>1 DEF HandInv, HandOverIsFresh, Passing
<1> QED BY <1>5, <1>6, <1>7 DEF HandInv

\* The steps a request takes by itself.
LEMMA HandAdvance ==
  ASSUME TypeInv, HandInv, NEW r \in Requests, Advance(r)
  PROVE  HandInv'
<1> PICK q : q = req[r]
  OBVIOUS
<1>1. q \in Request /\ Passing(q) /\ HasTarget(q)
  BY DEF TypeInv, TypeOK, HandInv
<1>2. Passing(Failed(q)) /\ Passing(Idle) /\ Passing(Loaded(q))
  BY <1>1, PassingOn, PassingIdle
<1>3. CASE Load(r)
  BY <1>2, <1>3, HandSameTables DEF Load, db
<1>4. CASE Alloc(r)
  <2>1. \A ip : Passing([q EXCEPT !.pc = "insert", !.ip = ip])
    BY <1>1, <1>4 DEF Alloc, Passing, Request
  <2> QED BY <1>2, <1>4, <2>1, HandSameTables DEF Alloc, db
<1>5. CASE Insert(r)
  BY <1>5, HandInsert
<1>6. CASE InsertFails(r)
  BY <1>2, <1>6, HandSameTables DEF InsertFails, db
<1>7. CASE Write(r)
  <2>1. q.cfg \in Configs /\ q.op \in AddOps
    BY <1>1, <1>7 DEF Write, HasTarget, Passing
  <2>2. \A d \in Configs : /\ config'[d].node = config[d].node
                           /\ config'[d].replacedBy = config[d].replacedBy
                           /\ d # q.cfg => config'[d] = config[d]
                           /\ d = q.cfg => config'[d].status # "none"
    BY <1>7, <2>1 DEF Write, TypeInv, TypeOK, ConfigRow
  <2>3. address' = address
    BY <1>7 DEF Write
  <2>4. Onward
    BY <2>2, <2>3 DEF Onward
  <2>5. Passing([q EXCEPT !.pc = "sent"])'
    <3>1. Passing([q EXCEPT !.pc = "sent"]) /\ [q EXCEPT !.pc = "sent"] \in Request
      BY <1>1, PassingOn DEF Request, Pcs
    <3> QED BY <2>4, <3>1, PassingFrame
  <2>6. Passing(Finished(q))'
    BY <1>1, <2>1, <2>4, PassingFrame, PassingFinished DEF AddOps, ConfigOps
  <2>7. PICK p : Become(r, p) /\ Passing(p)'
    BY <1>7, <2>5, <2>6 DEF Write
  <2> QED BY <2>1, <2>2, <2>3, <2>7, HandSameRows
<1>8. CASE Confirm(r)
  <2>1. UNCHANGED <<config, address>> /\ q.op \in AddOps /\ Become(r, Finished(q))
    BY <1>8 DEF Confirm, db
  <2>2. Onward
    BY <2>1 DEF Onward
  <2>3. Passing(Finished(q))'
    BY <1>1, <2>1, <2>2, PassingFrame, PassingFinished DEF AddOps, ConfigOps
  <2>4. \A s \in Requests : Passing(req[s])'
    BY <2>1, <2>2, <2>3, PassingStep
  <2> QED BY <2>1, <2>4 DEF HandInv, RowKept, HandOverIsFresh
<1>9. CASE Commit(r)
  <2>1. q.cfg \in Configs /\ q.op \in RemoveOps
    BY <1>1, <1>9 DEF Commit, HasTarget
  <2>2. \A d \in Configs : /\ config'[d].node = config[d].node
                           /\ config'[d].replacedBy = config[d].replacedBy
                           /\ d # q.cfg => config'[d] = config[d]
                           /\ d = q.cfg => config'[d].status # "none"
    BY <1>9, <2>1 DEF Commit, Committed, TypeInv, TypeOK, ConfigRow
  <2>3. /\ \A d \in Configs : \/ address'[d] = address[d]
                              \/ address[d] # "none" /\ address'[d] = "released"
        /\ q.op = "revoke" => address'[q.cfg] = IF address[q.cfg] = "live" THEN "released" ELSE address[q.cfg]
    BY <1>9, <2>1 DEF Commit, Releases, TypeInv, TypeOK
  <2>4. Onward
    BY <2>2, <2>3 DEF Onward
  <2>5. q.op = "revoke" /\ q.orig # None => address'[q.orig] = "released"
    <3>1. ASSUME q.op = "revoke", q.orig # None
          PROVE  q.orig = q.cfg /\ address[q.cfg] \in {"live", "released"}
      <4>1. q.orig = q.cfg /\ config[q.cfg].node # None
        BY <1>1, <3>1 DEF Passing
      <4> QED BY <2>1, <4>1 DEF HandInv, RowKept, TypeInv, TypeOK
    <3> QED BY <2>3, <3>1
  <2>6. Passing(Finished(q))'
    BY <1>1, <2>1, <2>4, <2>5, PassingFrame, PassingFinished DEF ConfigOps
  <2>7. Become(r, Finished(q))
    BY <1>9 DEF Commit
  <2> QED BY <2>1, <2>2, <2>3, <2>6, <2>7, HandSameRows
<1>10. CASE Undo(r)
  <2>1. q.cfg \in Configs
    BY <1>1, <1>10 DEF Undo, HasTarget
  <2>2. \A d \in Configs : /\ config'[d].node = config[d].node
                           /\ config'[d].replacedBy = config[d].replacedBy
                           /\ d # q.cfg => config'[d] = config[d]
                           /\ d = q.cfg => config'[d].status # "none"
    BY <1>10, <2>1 DEF Undo, Restored, TypeInv, TypeOK, ConfigRow
  <2>3. address' = address /\ Become(r, Idle)
    BY <1>10 DEF Undo
  <2> QED BY <2>1, <2>2, <2>3, PassingIdle, HandSameRows
<1>11. CASE Link(r)
  BY <1>11, HandLink
<1>12. CASE RetireNode(r)
  BY <1>2, <1>12, HandSameTables DEF RetireNode
<1>13. CASE Timeout(r)
  BY <1>2, <1>13, HandSameTables DEF Timeout, db
<1> QED
  BY <1>3, <1>4, <1>5, <1>6, <1>7, <1>8, <1>9, <1>10, <1>11, <1>12, <1>13 DEF Advance

\* The agents, the requests that die, and the uploads.
LEMMA HandOther ==
  ASSUME TypeInv, HandInv, Next,
         \A r \in Requests : ~ Start(r) /\ ~ Advance(r)
  PROVE  HandInv'
<1>1. ASSUME NEW r \in Requests, AgentApplies(r) \/ AgentRefuses(r) \/ Abandon(r)
      PROVE  HandInv'
  <2>1. req[r] \in Request /\ Passing(req[r])
    BY DEF TypeInv, TypeOK, HandInv
  <2>2. /\ Passing(Idle) /\ Passing(Failed(req[r]))
        /\ Passing([req[r] EXCEPT !.pc = "settled"])
    BY <2>1, PassingIdle, PassingOn
  <2> QED BY <1>1, <2>2, HandSameTables DEF AgentApplies, AgentRefuses, Abandon, db
<1>2. ASSUME NEW c \in Configs, Upload(c)
      PROVE  HandInv'
  <2> DEFINE row == [NoRow EXCEPT !.status = "unassigned"]
  <2>1. row.status = "unassigned" /\ row.node = None /\ row.replacedBy = None
    BY DEF NoRow
  <2>2. \A d \in Configs : config'[d] = IF d = c THEN row ELSE config[d]
    BY <1>2 DEF Upload, TypeInv, TypeOK
  <2>3. address' = address /\ req' = req /\ address[c] = "none" /\ config[c].node = None
    BY <1>2 DEF Upload, HandInv, RowKept
  <2> HIDE DEF row
  <2>4. Onward
    BY <2>2, <2>3 DEF Onward
  <2>5. \A s \in Requests : Passing(req[s])'
    <3> SUFFICES ASSUME NEW s \in Requests PROVE Passing(req[s])'
      OBVIOUS
    <3>1. req[s] \in Request /\ Passing(req[s]) /\ req'[s] = req[s]
      BY <2>3 DEF TypeInv, TypeOK, HandInv
    <3>2. req[s].orig # None => req[s].orig \in Configs
      BY <3>1 DEF Request
    <3> QED BY <2>3, <2>4, <3>1, <3>2 DEF Onward, Passing
  <2>6. RowKept' /\ HandOverIsFresh'
    BY <2>1, <2>2, <2>3, LifecycleAssumption DEF HandInv, RowKept, HandOverIsFresh
  <2> QED BY <2>5, <2>6 DEF HandInv
<1>3. ASSUME UNCHANGED <<db, req>> PROVE HandInv'
  BY <1>3 DEF db, HandInv, RowKept, HandOverIsFresh, Passing
<1>4. ASSUME NEW m \in stray, StrayLands(m) \/ StrayLost(m) PROVE HandInv'
  BY <1>3, <1>4 DEF StrayLands, StrayLost
<1>5. ASSUME NEW n \in Nodes, Reboot(n) PROVE HandInv'
  BY <1>3, <1>5 DEF Reboot
<1> QED BY <1>1, <1>2, <1>4, <1>5 DEF Next

\* The invariant is inductive.
LEMMA HandStep == TypeInv /\ HandInv /\ [Next]_vars => HandInv'
<1> SUFFICES ASSUME TypeInv, HandInv, [Next]_vars PROVE HandInv'
  OBVIOUS
<1>1. CASE Next
  BY <1>1, HandStart, HandAdvance, HandOther
<1>2. CASE UNCHANGED vars
  BY <1>2 DEF vars, HandInv, RowKept, HandOverIsFresh, Passing
<1> QED BY <1>1, <1>2

\* A row that points at its replacement is a finished hand-over, however the
\* requests interleave and whatever fails: its address is released for good, and
\* the replacement is another row, on the same node, with an address of its own.
THEOREM HandsOver == Spec => []HandOverIsFresh
<1>1. Spec => [](TypeInv /\ HandInv)
  BY TypeInit, TypeStep, HandInit, HandStep, PTL DEF Spec
<1>2. HandInv => HandOverIsFresh
  BY DEF HandInv
<1> QED BY <1>1, <1>2, PTL

-----------------------------------------------------------------------------
(* The invariant behind the safety theorems, for serial operation *)

\* A row exists when its request works on it; an address is reserved exactly by
\* the managed rows that are not revoked; a config that is on, or was switched
\* off, has an owner; a replaced row is revoked.
RowOK(c) ==
  /\ address[c] = "live" <=> (Managed(c) /\ config[c].status \in Live)
  /\ Managed(c) => config[c].node \in Nodes /\ config[c].ip \in Pool
  /\ config[c].status = "none" => ~ Managed(c)
  /\ config[c].status \in {"active", "disabled"} => config[c].owner # None
  /\ config[c].replacedBy # None => config[c].status = "revoked"

\* A peer's address is its own; when late calls are lost the row also says it is live.
PeerOK(c) ==
  c \in peers =>
    /\ address[c] = "live"
    /\ route[Endpoint(c)] = c
    /\ "late" \notin Faults => config[c].status = "active"

\* What a request may rely on between two of its steps, although it never reads
\* the row again: nobody else has moved it.
RequestOK(r) ==
  LET q == req[r]  c == q.cfg IN
  /\ q.pc = "idle" <=> q.op = "none"
  /\ q.pc = "idle" => q = Idle
  /\ q.before = None
  /\ q.pc \in {"load", "link"} => q.op = "assign"
  /\ q.pc \in {"alloc", "insert"} <=> q.op = "generate"
  /\ q.pc = "insert" => q.ip # None
  /\ q.pc = "retire" <=> q.op = "removeNode"
  /\ q.op \in {"generate", "removeNode"} => q.node # None
  /\ q.op = "generate" => c = q.orig
  /\ q.op = "removeNode" => c = None /\ q.orig = None
  /\ q.op \in ConfigOps => c # None /\ config[c].status # "none"
  /\ q.op = "assign" => q.user # None
  /\ q.pc = "write" => q.op \in AddOps /\ config[c].status \in From(q.op)
  /\ q.pc \in {"sent", "undo"} => Managed(c)
  /\ q.pc = "undo" => q.op \in AddOps
  /\ q.pc \in {"sent", "settled", "undo"} /\ q.op \in AddOps => config[c].status = "active"
  /\ q.pc \in {"sent", "settled"} /\ q.op \in RemoveOps => config[c].status \in From(q.op)
  /\ q.pc = "settled" /\ q.op \in RemoveOps => c \notin peers
  /\ q.pc \in {"sent", "undo"} /\ q.op \in AddOps /\ "late" \notin Faults => c \notin peers
  /\ q.orig # None =>
       /\ q.op \in {"revoke", "generate", "assign"}
       /\ q.op = "revoke" => c = q.orig
       /\ q.op = "assign" => c # q.orig
       /\ q.user # None /\ q.node # None
       /\ q.op # "revoke" => config[q.orig].status = "revoked"
  /\ q.pc = "link" => q.orig # None
  /\ q.orig # None => config[q.orig].status # "none"

\* Two requests never work on the same config.
Apart(r, s) == r # s => Claims(r) \cap Claims(s) = {}

\* A stray call is about a managed config nobody else works on: the request that
\* sent it may still be putting the row back.
StrayOK(m) ==
  /\ Managed(m.cfg)
  /\ m.op = "add" => config[m.cfg].status \in Live
  /\ m.op = "add" /\ "late" \notin Faults => config[m.cfg].status = "active"
  /\ \A r \in Requests :
       m.cfg \in Claims(r) => /\ req[r].pc = "undo" /\ m.cfg = req[r].cfg
                              /\ m.op = "add"
                              /\ "late" \in Faults

SerialInv ==
  /\ \A c \in Configs : RowOK(c) /\ PeerOK(c)
  /\ \A r \in Requests : RequestOK(r)
  /\ \A r, s \in Requests : Apart(r, s)
  /\ \A m \in stray : StrayOK(m)

\* A request that does not move keeps what it relies on, as long as the rows it
\* claims stay as they are.
LEMMA RequestFrame ==
  ASSUME TypeInv, NEW s \in Requests, RequestOK(s), req'[s] = req[s],
         \A c \in Claims(s) : /\ config'[c].status = config[c].status
                              /\ config'[c].source = config[c].source
                              /\ c \in peers' => c \in peers
  PROVE  RequestOK(s)'
<1> DEFINE q == req[s]
<1>1. q \in Request
  BY DEF TypeInv, TypeOK
<1>2. q.cfg # None => q.cfg \in Claims(s)
  BY DEF Claims
<1>3. q.orig # None => q.orig \in Claims(s)
  BY DEF Claims
<1>4. q.pc \in {"write", "sent", "settled", "undo"} => q.op \in ConfigOps
  BY <1>1 DEF RequestOK, Idle, Request, Ops
<1> QED
  BY <1>1, <1>2, <1>3, <1>4 DEF RequestOK, Managed

\* An existing row is what a request or a stray call works on.
LEMMA ClaimedExists ==
  ASSUME TypeInv, SerialInv, NEW c \in Configs, config[c].status = "none"
  PROVE  c \notin Claimed
<1>1. ASSUME NEW r \in Requests PROVE c \notin Claims(r)
  <2>1. req[r] \in Request /\ RequestOK(r)
    BY DEF TypeInv, TypeOK, SerialInv
  <2> QED
    BY <2>1, LifecycleAssumption
    DEF RequestOK, Claims, Request, Ops, ConfigOps, AddOps, RemoveOps, Idle
<1>2. ASSUME NEW m \in stray PROVE m.cfg # c
  BY <1>2 DEF SerialInv, StrayOK, RowOK, Managed
<1> QED
  BY <1>1, <1>2 DEF Claimed

\* The step of one request: it touches the rows in C, which it claims or nobody
\* does, and leaves every other row and peer alone.
LEMMA Assemble ==
  ASSUME TypeInv, SerialInv, NEW r \in Requests, NEW C \in SUBSET Configs,
         C \subseteq Claims(r) \cup (Configs \ Claimed),
         \A s \in Requests \ {r} : req'[s] = req[s],
         \A d \in Configs \ C :
           /\ config'[d] = config[d] /\ address'[d] = address[d]
           /\ d \in peers' <=> d \in peers
           /\ d \in peers => route'[Endpoint(d)] = route[Endpoint(d)],
         \A c \in C : RowOK(c)' /\ PeerOK(c)',
         RequestOK(r)',
         Claims(r)' \subseteq Claims(r) \cup (Configs \ Claimed),
         \A m \in stray' : StrayOK(m)'
  PROVE  SerialInv'
<1>1. ASSUME NEW s \in Requests \ {r}, NEW c \in Claims(s) PROVE c \in Configs /\ c \notin C
  <2>1. c \in Claimed
    BY DEF Claimed
  <2>2. c \in Configs
    BY DEF Claims, TypeInv, TypeOK, Request
  <2>3. c \notin Claims(r)
    BY DEF SerialInv, Apart
  <2> QED
    BY <2>1, <2>2, <2>3
<1>2. ASSUME NEW d \in Configs \ C PROVE RowOK(d)' /\ PeerOK(d)'
  <2>1. Endpoint(d)' = Endpoint(d) /\ Managed(d)' = Managed(d)
    BY DEF Endpoint, Managed
  <2>2. RowOK(d) /\ PeerOK(d)
    BY DEF SerialInv
  <2>3. RowOK(d)'
    BY <2>1, <2>2 DEF RowOK
  <2>4. PeerOK(d)'
    BY <2>1, <2>2 DEF PeerOK
  <2> QED
    BY <2>3, <2>4
<1>3. ASSUME NEW s \in Requests \ {r} PROVE RequestOK(s)'
  BY <1>1, RequestFrame DEF SerialInv
<1>4. ASSUME NEW s \in Requests, NEW t \in Requests PROVE Apart(s, t)'
  <2>1. \A u \in Requests \ {r} : Claims(u)' = Claims(u)
    BY DEF Claims
  <2>2. \A u \in Requests : Claims(u) \subseteq Claimed
    BY DEF Claimed
  <2>3. Apart(s, t) /\ Apart(t, s)
    BY DEF SerialInv
  <2>4. CASE s # r /\ t # r
    BY <2>1, <2>3, <2>4 DEF Apart
  <2>5. CASE s = r /\ t # r
    BY <2>1, <2>2, <2>3, <2>5 DEF Apart
  <2>6. CASE s # r /\ t = r
    BY <2>1, <2>2, <2>3, <2>6 DEF Apart
  <2>7. CASE s = r /\ t = r
    BY <2>7 DEF Apart
  <2> QED
    BY <2>4, <2>5, <2>6, <2>7
<1> QED
  BY <1>2, <1>3, <1>4 DEF SerialInv

\* Outside its catch block a request never meets a stray call.
LEMMA StrayFrame ==
  ASSUME TypeInv, SerialInv, NEW r \in Requests, NEW C \in SUBSET Configs,
         C \subseteq Claims(r) \cup (Configs \ Claimed),
         req[r].pc # "undo",
         \A s \in Requests \ {r} : req'[s] = req[s],
         \A d \in Configs \ C : config'[d] = config[d],
         Claims(r)' \subseteq Claims(r) \cup (Configs \ Claimed),
         NEW m \in stray
  PROVE  StrayOK(m)'
<1>1. StrayOK(m) /\ m.cfg \in Configs
  BY DEF SerialInv, TypeInv, TypeOK, AgentCall
<1>2. m.cfg \in Claimed /\ m.cfg \notin Claims(r)
  BY <1>1 DEF Claimed, StrayOK
<1>3. config'[m.cfg] = config[m.cfg] /\ m.cfg \notin Claims(r)'
  BY <1>1, <1>2
<1>4. \A s \in Requests \ {r} : Claims(s)' = Claims(s)
  BY DEF Claims
<1> QED
  BY <1>1, <1>3, <1>4 DEF StrayOK, Managed

\* A call the agent applies moves one peer: no other peer loses its address,
\* because no other live allocation has it.
LEMMA ApplyFrame ==
  ASSUME TypeInv, RaceInv, SerialInv, NEW kind, NEW c \in Configs, Managed(c),
         kind = "add" => config[c].status \in Live, Apply(kind, c)
  PROVE  /\ \A d \in Configs \ {c} :
              /\ d \in peers' <=> d \in peers
              /\ d \in peers => route'[Endpoint(d)] = route[Endpoint(d)]
         /\ kind = "add" => route'[Endpoint(c)] = c
         /\ kind = "remove" => c \notin peers'
<1>1. RowOK(c) /\ Endpoint(c) \in Nodes \X Pool /\ DOMAIN route = Nodes \X Pool
  BY DEF SerialInv, RowOK, Endpoint, TypeInv, TypeOK
<1>2. ASSUME NEW d \in Configs \ {c}, d \in peers
      PROVE  /\ kind = "add" => Endpoint(d) # Endpoint(c)
             /\ route[Endpoint(d)] = d
  <2>1. address[d] = "live" /\ route[Endpoint(d)] = d
    BY <1>2 DEF SerialInv, PeerOK
  <2>2. kind = "add" => address[c] = "live"
    BY <1>1 DEF RowOK
  <2> QED
    BY <2>1, <2>2 DEF RaceInv, UniqueLiveAddress, Endpoint
<1>3. CASE kind = "add" /\ AddPeer(c)
  BY <1>1, <1>2, <1>3 DEF AddPeer, TypeInv, TypeOK
<1>4. CASE kind = "remove" /\ RemovePeer(c)
  BY <1>1, <1>2, <1>4 DEF RemovePeer, TypeInv, TypeOK
<1> QED
  BY <1>3, <1>4 DEF Apply

LEMMA SerialInit == Init => SerialInv
  BY LifecycleAssumption
  DEF Init, SerialInv, RowOK, PeerOK, RequestOK, Apart, Claims, Idle, NoRow,
      Managed, Live, ConfigOps, AddOps, RemoveOps

LEMMA IdleOK ==
  ASSUME NEW r \in Requests, req'[r] = Idle
  PROVE  RequestOK(r)' /\ Claims(r)' = {}
  BY DEF RequestOK, Claims, Idle, ConfigOps, AddOps, RemoveOps

LEMMA BecomeIs ==
  ASSUME TypeInv, NEW r \in Requests, NEW p, Become(r, p)
  PROVE  req'[r] = p /\ \A s \in Requests \ {r} : req'[s] = req[s]
  BY DEF TypeInv, TypeOK, Become

\* A step that changes nothing but the record of its request.
LEMMA RequestOnly ==
  ASSUME TypeInv, SerialInv, NEW r \in Requests, NEW p, Become(r, p),
         UNCHANGED <<config, address, peers, route, stray>>,
         req[r].pc # "undo",
         {p.cfg, p.orig} \ {None} \subseteq Claims(r) \cup (Configs \ Claimed),
         RequestOK(r)'
  PROVE  SerialInv'
<1>1. req'[r] = p /\ \A s \in Requests \ {r} : req'[s] = req[s]
  BY BecomeIs
<1>2. Claims(r)' \subseteq Claims(r) \cup (Configs \ Claimed)
  BY <1>1 DEF Claims
<1> DEFINE C == {}
<1>3. \A d \in Configs \ C :
        /\ config'[d] = config[d] /\ address'[d] = address[d]
        /\ d \in peers' <=> d \in peers
        /\ d \in peers => route'[Endpoint(d)] = route[Endpoint(d)]
  OBVIOUS
<1>4. /\ C \in SUBSET Configs
      /\ C \subseteq Claims(r) \cup (Configs \ Claimed)
      /\ \A c \in C : RowOK(c)' /\ PeerOK(c)'
  OBVIOUS
<1> HIDE DEF C
<1>5. \A m \in stray' : StrayOK(m)'
  BY <1>1, <1>2, <1>3, <1>4, StrayFrame
<1> QED
  BY <1>1, <1>2, <1>3, <1>4, <1>5, Assemble

LEMMA GiveUp ==
  ASSUME TypeInv, SerialInv, NEW r \in Requests, Become(r, Idle),
         UNCHANGED <<config, address, peers, route, stray>>,
         req[r].pc # "undo"
  PROVE  SerialInv'
<1>1. RequestOK(r)'
  BY IdleOK, BecomeIs
<1>2. {Idle.cfg, Idle.orig} \ {None} = {}
  BY DEF Idle
<1> QED
  BY <1>1, <1>2, RequestOnly

\* Loading a row the operation accepts.
LEMMA LoadedOK ==
  ASSUME TypeInv, RaceInv, SerialInv, NEW r \in Requests, NEW q \in Request,
         q.cfg \in Configs, q.op \in ConfigOps,
         config[q.cfg].status \in From(q.op),
         q.op = "assign" => q.user # None,
         q.orig # None =>
           /\ q.op \in {"revoke", "assign"}
           /\ q.op = "revoke" => q.cfg = q.orig
           /\ q.op = "assign" => q.cfg # q.orig /\ config[q.orig].status = "revoked"
           /\ q.user # None /\ q.node # None,
         Become(r, Loaded(q)), UNCHANGED <<config, address, peers, route, stray>>,
         req[r].pc # "undo",
         {q.cfg, q.orig} \ {None} \subseteq Claims(r) \cup (Configs \ Claimed)
  PROVE  SerialInv'
<1> DEFINE p == Loaded(q)
<1>1. /\ p.op = q.op /\ p.cfg = q.cfg /\ p.user = q.user /\ p.node = q.node
      /\ p.orig = q.orig /\ p.before = None
      /\ p.pc = IF q.op \in AddOps THEN "write"
                ELSE IF Managed(q.cfg) THEN "sent" ELSE "settled"
  BY LoadedBefore DEF Loaded, Request, RaceInv
<1>2. req'[r] = p
  BY BecomeIs
<1>3. q.cfg \in peers => Managed(q.cfg)
  BY DEF SerialInv, RowOK, PeerOK
<1>4. config[q.cfg].status # "none" /\ q.cfg # None
  BY LifecycleAssumption DEF From, Live, ConfigOps, AddOps, RemoveOps
<1> HIDE DEF p
<1>5. RequestOK(r)'
  BY <1>1, <1>2, <1>3, <1>4
  DEF RequestOK, Managed, ConfigOps, AddOps, RemoveOps
<1> QED
  BY <1>1, <1>5, RequestOnly DEF p

LEMMA SerialStart ==
  ASSUME Serial, TypeInv, RaceInv, SerialInv, NEW r \in Requests, Start(r)
  PROVE  SerialInv'
<1>1. ASSUME NEW op \in ConfigOps, NEW c \in Configs, NEW u \in Users \cup {None},
             StartOp(r, op, c, u)
      PROVE  SerialInv'
  <2> DEFINE q == [Idle EXCEPT !.op = op, !.cfg = c, !.user = u]
  <2>1. q \in Request /\ q.cfg = c /\ q.op = op /\ q.user = u /\ q.orig = None
    BY IdleType DEF Idle, Request, Ops
  <2>2. /\ req[r].pc # "undo" /\ c \notin Claimed /\ config[c].status \in From(op)
        /\ op = "assign" => u # None
        /\ Become(r, Loaded(q)) /\ UNCHANGED <<config, address, peers, route, stray>>
    BY <1>1 DEF StartOp, MayStart, db, node
  <2> HIDE DEF q
  <2> QED
    BY <2>1, <2>2, LoadedOK
<1>2. ASSUME NEW n \in Nodes, NEW u \in Users \cup {None}, StartGenerate(r, n, u)
      PROVE  SerialInv'
  <2> DEFINE q == [Idle EXCEPT !.op = "generate", !.pc = "alloc", !.node = n, !.user = u]
  <2>1. /\ q.op = "generate" /\ q.pc = "alloc" /\ q.node = n /\ q.orig = None
        /\ q.cfg = None /\ q.before = None
    BY DEF Idle
  <2>2. /\ req[r].pc # "undo" /\ Become(r, q)
        /\ UNCHANGED <<config, address, peers, route, stray>>
    BY <1>2 DEF StartGenerate, db, node
  <2> HIDE DEF q
  <2>3. req'[r] = q
    BY <2>2, BecomeIs
  <2>4. RequestOK(r)'
    BY <2>1, <2>3, LifecycleAssumption
    DEF RequestOK, ConfigOps, AddOps, RemoveOps
  <2> QED
    BY <2>1, <2>2, <2>4, RequestOnly
<1>3. ASSUME NEW c \in Configs, NEW u \in Users, StartReassign(r, c, u)
      PROVE  SerialInv'
  <2> DEFINE q == [Idle EXCEPT !.op = "revoke", !.cfg = c, !.user = u,
                               !.node = config[c].node, !.orig = c]
  <2>1. /\ q \in Request /\ q.cfg = c /\ q.op = "revoke" /\ q.user = u /\ q.orig = c
        /\ q.node = config[c].node
    BY IdleType DEF Idle, Request, Ops, ConfigOps, RemoveOps, TypeInv, TypeOK, ConfigRow
  <2>2. /\ req[r].pc # "undo" /\ c \notin Claimed /\ config[c].status \in From("revoke")
        /\ config[c].node # None
        /\ Become(r, Loaded(q)) /\ UNCHANGED <<config, address, peers, route, stray>>
    BY <1>3 DEF StartReassign, MayStart, db, node
  <2>3. u # None /\ "revoke" \in ConfigOps
    BY LifecycleAssumption DEF ConfigOps, RemoveOps
  <2> HIDE DEF q
  <2> QED
    BY <2>1, <2>2, <2>3, LoadedOK
<1>4. ASSUME NEW n \in Nodes, StartRemoveNode(r, n)
      PROVE  SerialInv'
  <2> DEFINE q == [Idle EXCEPT !.op = "removeNode", !.pc = "retire", !.node = n]
  <2>1. /\ q.op = "removeNode" /\ q.pc = "retire" /\ q.node = n /\ q.orig = None
        /\ q.cfg = None /\ q.before = None
    BY DEF Idle
  <2>2. /\ req[r].pc # "undo" /\ Become(r, q)
        /\ UNCHANGED <<config, address, peers, route, stray>>
    BY <1>4 DEF StartRemoveNode, db, node
  <2> HIDE DEF q
  <2>3. req'[r] = q
    BY <2>2, BecomeIs
  <2>4. RequestOK(r)'
    BY <2>1, <2>3, LifecycleAssumption
    DEF RequestOK, ConfigOps, AddOps, RemoveOps
  <2> QED
    BY <2>1, <2>2, <2>4, RequestOnly
<1> QED
  BY <1>1, <1>2, <1>3, <1>4 DEF Start

\* A step that writes one row its request claims, or a new one.
LEMMA RowMove ==
  ASSUME TypeInv, SerialInv, NEW r \in Requests, NEW c \in Configs,
         c \in Claims(r) \/ c \notin Claimed,
         req[r].pc # "undo",
         \A s \in Requests \ {r} : req'[s] = req[s],
         \A d \in Configs \ {c} : config'[d] = config[d] /\ address'[d] = address[d],
         UNCHANGED <<peers, route, stray>>,
         RowOK(c)', PeerOK(c)', RequestOK(r)',
         Claims(r)' \subseteq Claims(r) \cup {c}
  PROVE  SerialInv'
<1> DEFINE C == {c}
<1>1. /\ C \in SUBSET Configs
      /\ C \subseteq Claims(r) \cup (Configs \ Claimed)
      /\ \A d \in C : RowOK(d)' /\ PeerOK(d)'
      /\ Claims(r)' \subseteq Claims(r) \cup (Configs \ Claimed)
  OBVIOUS
<1>2. \A d \in Configs \ C :
        /\ config'[d] = config[d] /\ address'[d] = address[d]
        /\ d \in peers' <=> d \in peers
        /\ d \in peers => route'[Endpoint(d)] = route[Endpoint(d)]
  OBVIOUS
<1> HIDE DEF C
<1>3. \A m \in stray' : StrayOK(m)'
  BY <1>1, <1>2, StrayFrame
<1> QED
  BY <1>1, <1>2, <1>3, Assemble

LEMMA SerialLoad ==
  ASSUME TypeInv, RaceInv, SerialInv, NEW r \in Requests, Load(r)
  PROVE  SerialInv'
<1> DEFINE q == req[r]
<1>1. q \in Request /\ q.cfg \in Configs /\ RequestOK(r)
  BY DEF Load, TypeInv, TypeOK, HasTarget, SerialInv
<1>2. /\ q.op = "assign" /\ q.op \in ConfigOps /\ q.user # None
      /\ q.orig # None => /\ q.cfg # q.orig /\ config[q.orig].status = "revoked"
                          /\ q.user # None /\ q.node # None
      /\ q.pc # "undo"
  BY <1>1 DEF Load, RequestOK, ConfigOps, AddOps
<1>3. UNCHANGED <<config, address, peers, route, stray>>
  BY DEF Load, db, node
<1>4. {q.cfg, q.orig} \ {None} \subseteq Claims(r)
  BY DEF Claims
<1>5. CASE config[q.cfg].status \in From(q.op)
  BY <1>1, <1>2, <1>3, <1>4, <1>5, LoadedOK DEF Load
<1>6. CASE config[q.cfg].status \notin From(q.op)
  BY <1>2, <1>3, <1>6, GiveUp DEF Load
<1> QED
  BY <1>5, <1>6

LEMMA SerialAlloc ==
  ASSUME TypeInv, RaceInv, SerialInv, NEW r \in Requests, Alloc(r)
  PROVE  SerialInv'
<1> DEFINE q == req[r]
<1>1. q \in Request /\ RequestOK(r) /\ q.pc = "alloc"
  BY DEF Alloc, TypeInv, TypeOK, SerialInv
<1>2. UNCHANGED <<config, address, peers, route, stray>>
  BY DEF Alloc, db, node
<1>3. ASSUME NEW ip \in Pool, Become(r, [q EXCEPT !.pc = "insert", !.ip = ip])
      PROVE  SerialInv'
  <2> DEFINE p == [q EXCEPT !.pc = "insert", !.ip = ip]
  <2>1. /\ p.op = q.op /\ p.cfg = q.cfg /\ p.user = q.user /\ p.node = q.node
        /\ p.orig = q.orig /\ p.before = q.before /\ p.pc = "insert" /\ p.ip = ip
    BY <1>1 DEF Request
  <2>2. ip # None
    BY LifecycleAssumption
  <2>3. req'[r] = p
    BY <1>3, BecomeIs
  <2> HIDE DEF p
  <2>4. RequestOK(r)'
    BY <1>1, <1>2, <2>1, <2>2, <2>3
    DEF RequestOK, ConfigOps, AddOps, RemoveOps, Idle
  <2>5. {p.cfg, p.orig} \ {None} \subseteq Claims(r)
    BY <2>1 DEF Claims
  <2> QED
    BY <1>1, <1>2, <1>3, <2>4, <2>5, RequestOnly DEF p
<1>4. CASE Become(r, Idle)
  BY <1>1, <1>2, <1>4, GiveUp
<1> QED
  BY <1>3, <1>4 DEF Alloc, Free

LEMMA SerialInsert ==
  ASSUME TypeInv, RaceInv, SerialInv, NEW r \in Requests, Insert(r)
  PROVE  SerialInv'
<1> DEFINE q == req[r]
<1>1. q \in Request /\ RequestOK(r) /\ q.pc = "insert"
  BY DEF Insert, TypeInv, TypeOK, SerialInv
<1>2. /\ q.op = "generate" /\ q.node \in Nodes /\ q.ip \in Pool /\ q.before = None
      /\ q.orig # None => /\ q.user # None /\ q.node # None
                          /\ config[q.orig].status = "revoked"
  BY <1>1 DEF RequestOK, Request
<1> DEFINE row == [NoRow EXCEPT !.status = "unassigned", !.source = "managed",
                                !.node = q.node, !.ip = q.ip]
<1>3. PICK c \in Configs :
        /\ config[c].status = "none"
        /\ config' = [config EXCEPT ![c] = row]
        /\ address' = [address EXCEPT ![c] = "live"]
        /\ Become(r, Finished([q EXCEPT !.cfg = c, !.ip = None]))
  BY DEF Insert
<1>4. UNCHANGED <<peers, route, stray>>
  BY DEF Insert, node
<1>5. /\ row.status = "unassigned" /\ row.source = "managed" /\ row.owner = None
      /\ row.node = q.node /\ row.ip = q.ip /\ row.replacedBy = None
  BY DEF NoRow
<1>6. \A d \in Configs : /\ config'[d] = IF d = c THEN row ELSE config[d]
                         /\ address'[d] = IF d = c THEN "live" ELSE address[d]
  BY <1>3 DEF TypeInv, TypeOK
<1> HIDE DEF row
<1>7. c \notin Claimed /\ c \notin peers
  BY <1>3, ClaimedExists DEF SerialInv, RowOK, PeerOK, Live
<1>8. RowOK(c)' /\ PeerOK(c)'
  BY <1>2, <1>4, <1>5, <1>6, <1>7 DEF RowOK, PeerOK, Managed, Live
<1> DEFINE g == [q EXCEPT !.cfg = c, !.ip = None]
           p == Finished(g)
<1>9. /\ g.op = "generate" /\ g.cfg = c /\ g.user = q.user /\ g.node = q.node
      /\ g.orig = q.orig /\ g.before = None /\ g \in Request
  BY <1>1, <1>2 DEF Request
<1>10. CASE q.user = None
  <2>1. p = Idle
    BY <1>9, <1>10 DEF Finished
  <2>2. RequestOK(r)' /\ Claims(r)' = {}
    BY <1>3, <2>1, BecomeIs, IdleOK
  <2> QED
    BY <1>1, <1>3, <1>4, <1>6, <1>7, <1>8, <2>2, BecomeIs, RowMove
<1>11. CASE q.user # None
  <2>1. p = [g EXCEPT !.op = "assign", !.pc = "load"]
    BY <1>9, <1>11 DEF Finished
  <2>2. /\ p.op = "assign" /\ p.pc = "load" /\ p.cfg = c /\ p.user = q.user
        /\ p.node = q.node /\ p.orig = q.orig /\ p.before = None
    BY <1>9, <2>1 DEF Request
  <2> HIDE DEF p, g
  <2>3. req'[r] = p /\ \A s \in Requests \ {r} : req'[s] = req[s]
    BY <1>3, BecomeIs DEF p, g
  <2>4. c # None /\ (q.orig # None => q.orig # c /\ q.orig \in Configs)
    BY <1>1, <1>2, <1>3, LifecycleAssumption DEF Request
  <2>5. RequestOK(r)'
    BY <1>2, <1>5, <1>6, <1>11, <2>2, <2>3, <2>4
    DEF RequestOK, ConfigOps, AddOps, RemoveOps
  <2>6. Claims(r)' \subseteq Claims(r) \cup {c}
    BY <2>2, <2>3 DEF Claims
  <2> QED
    BY <1>1, <1>4, <1>6, <1>7, <1>8, <2>3, <2>5, <2>6, RowMove
<1> QED
  BY <1>10, <1>11

\* The request after an adding operation has succeeded: over, or at the link.
LEMMA AddFinished ==
  ASSUME TypeInv, SerialInv, NEW r \in Requests, NEW q \in Request, q = req[r],
         q.op \in AddOps, q.pc # "undo", q.pc # "idle",
         Become(r, Finished(q)), UNCHANGED peers,
         \A d \in Configs : d # q.cfg => config'[d] = config[d],
         q.cfg \in Configs => config'[q.cfg].status # "none"
  PROVE  RequestOK(r)' /\ Claims(r)' \subseteq Claims(r)
<1>1. RequestOK(r)
  BY DEF SerialInv
<1>2. CASE q.op = "assign" /\ q.orig # None
  <2> DEFINE p == [q EXCEPT !.pc = "link"]
  <2>1. Finished(q) = p
    BY <1>2 DEF Finished
  <2>2. /\ p.op = "assign" /\ p.pc = "link" /\ p.cfg = q.cfg /\ p.user = q.user
        /\ p.node = q.node /\ p.orig = q.orig /\ p.before = q.before /\ p.ip = q.ip
    BY <1>2 DEF Request
  <2> HIDE DEF p
  <2>3. req'[r] = p
    BY <2>1, BecomeIs
  <2>4. q.cfg \in Configs /\ q.orig \in Configs /\ q.cfg # q.orig
        /\ config[q.orig].status = "revoked"
    BY <1>1, <1>2 DEF RequestOK, Request, ConfigOps, AddOps
  <2>5. RequestOK(r)'
    BY <1>1, <1>2, <2>2, <2>3, <2>4
    DEF RequestOK, ConfigOps, AddOps, RemoveOps
  <2> QED
    BY <2>2, <2>3, <2>5 DEF Claims
<1>3. CASE ~ (q.op = "assign" /\ q.orig # None)
  <2>1. Finished(q) = Idle
    BY <1>3 DEF Finished, AddOps
  <2> QED
    BY <2>1, IdleOK, BecomeIs
<1> QED
  BY <1>2, <1>3

LEMMA SerialWrite ==
  ASSUME TypeInv, RaceInv, SerialInv, NEW r \in Requests, Write(r)
  PROVE  SerialInv'
<1> DEFINE q == req[r]
<1> PICK c \in Configs : c = q.cfg
  BY DEF Write, TypeInv, HasTarget
<1>1. /\ q \in Request /\ RequestOK(r) /\ q.pc = "write" /\ c \in Configs
      /\ config[c] \in ConfigRow /\ RowOK(c) /\ PeerOK(c)
  BY DEF Write, TypeInv, TypeOK, SerialInv, HasTarget
<1>2. /\ q.op \in AddOps /\ config[c].status \in From(q.op) /\ q.before = None
      /\ q.op = "assign" => q.user # None
  BY <1>1 DEF RequestOK
<1>3. /\ c \in Claims(r)
      /\ \A s \in Requests \ {r} : req'[s] = req[s]
      /\ UNCHANGED <<address, peers, route, stray>>
      /\ \A d \in Configs \ {c} : config'[d] = config[d] /\ address'[d] = address[d]
  BY <1>1, LifecycleAssumption, BecomeIs
  DEF Write, Claims, node, TypeInv, TypeOK, Become
<1>4. /\ config'[c].status = "active" /\ config'[c].source = config[c].source
      /\ config'[c].node = config[c].node /\ config'[c].ip = config[c].ip
      /\ config'[c].replacedBy = config[c].replacedBy
      /\ config'[c].owner = IF q.op = "assign" THEN q.user ELSE config[c].owner
  BY <1>1 DEF Write, TypeInv, TypeOK, ConfigRow
<1>5. config[c].status = IF q.op = "assign" THEN "unassigned" ELSE "disabled"
  BY <1>2 DEF From, AddOps
<1>6. RowOK(c)' /\ PeerOK(c)'
  BY <1>1, <1>2, <1>3, <1>4, <1>5 DEF RowOK, PeerOK, Managed, Endpoint, Live
<1>7. CASE Managed(c)
  <2> DEFINE p == [q EXCEPT !.pc = "sent"]
  <2>1. /\ p.op = q.op /\ p.pc = "sent" /\ p.cfg = c /\ p.user = q.user
        /\ p.node = q.node /\ p.orig = q.orig /\ p.before = None /\ p.ip = q.ip
    BY <1>1, <1>2 DEF Request
  <2>2. Become(r, p)
    BY <1>7 DEF Write
  <2> HIDE DEF p
  <2>3. req'[r] = p
    BY <2>2, BecomeIs
  <2>4. "late" \notin Faults => c \notin peers
    BY <1>1, <1>5 DEF PeerOK
  <2>5. q.orig # None => q.orig # c /\ q.orig \in Configs
    BY <1>1, <1>2 DEF RequestOK, Request, AddOps
  <2>6. RequestOK(r)'
    BY <1>1, <1>2, <1>3, <1>4, <1>7, <2>1, <2>3, <2>4, <2>5
    DEF RequestOK, ConfigOps, AddOps, RemoveOps, Managed
  <2>7. Claims(r)' \subseteq Claims(r)
    BY <2>1, <2>3 DEF Claims
  <2> QED
    BY <1>1, <1>3, <1>6, <2>6, <2>7, RowMove
<1>8. CASE ~ Managed(c)
  <2>1. Become(r, Finished(q))
    BY <1>8 DEF Write
  <2>2. RequestOK(r)' /\ Claims(r)' \subseteq Claims(r)
    BY <1>1, <1>2, <1>3, <1>4, <2>1, AddFinished
  <2> QED
    BY <1>1, <1>3, <1>6, <2>2, RowMove
<1> QED
  BY <1>7, <1>8

LEMMA SerialConfirm ==
  ASSUME TypeInv, RaceInv, SerialInv, NEW r \in Requests, Confirm(r)
  PROVE  SerialInv'
<1> DEFINE q == req[r]
<1>1. /\ q \in Request /\ q.cfg \in Configs /\ q.pc = "settled" /\ q.op \in AddOps
      /\ Become(r, Finished(q)) /\ UNCHANGED <<config, address, peers, route, stray>>
      /\ config[q.cfg].status # "none"
  BY DEF Confirm, TypeInv, TypeOK, HasTarget, db, node, SerialInv, RequestOK, ConfigOps
<1>2. RequestOK(r)' /\ Claims(r)' \subseteq Claims(r)
  BY <1>1, AddFinished
<1>3. {Finished(q).cfg, Finished(q).orig} \ {None} = Claims(r)'
  BY <1>1, BecomeIs DEF Claims
<1> QED
  BY <1>1, <1>2, <1>3, RequestOnly

LEMMA SerialCommit ==
  ASSUME TypeInv, RaceInv, SerialInv, NEW r \in Requests, Commit(r)
  PROVE  SerialInv'
<1> DEFINE q == req[r]
<1> PICK c \in Configs : c = q.cfg
  BY DEF Commit, TypeInv, HasTarget
<1>1. /\ q \in Request /\ RequestOK(r) /\ q.pc = "settled" /\ q.op \in RemoveOps
      /\ config[c] \in ConfigRow /\ RowOK(c) /\ PeerOK(c)
  BY DEF Commit, TypeInv, TypeOK, SerialInv
<1>2. /\ config[c].status \in From(q.op) /\ q.before = None /\ c \notin peers
      /\ q.orig # None => q.op = "revoke" /\ q.orig = c /\ q.user # None /\ q.node # None
  BY <1>1 DEF RequestOK, RemoveOps
<1>3. /\ c \in Claims(r)
      /\ \A s \in Requests \ {r} : req'[s] = req[s]
      /\ req'[r] = Finished(q)
      /\ UNCHANGED <<peers, route, stray>>
      /\ \A d \in Configs \ {c} : config'[d] = config[d] /\ address'[d] = address[d]
  BY <1>1, LifecycleAssumption, BecomeIs DEF Commit, Claims, node, TypeInv, TypeOK
<1>4. /\ config'[c].source = config[c].source
      /\ config'[c].node = config[c].node /\ config'[c].ip = config[c].ip
      /\ config'[c].replacedBy = config[c].replacedBy
      /\ config'[c].owner = IF q.op = "unassign" THEN None ELSE config[c].owner
      /\ config'[c].status = IF q.op = "unassign" THEN "unassigned"
                             ELSE IF q.op = "disable" THEN "disabled" ELSE "revoked"
      /\ address'[c] = IF q.op = "revoke" /\ address[c] = "live" THEN "released"
                       ELSE address[c]
  BY <1>1 DEF Commit, Committed, Releases, TypeInv, TypeOK, ConfigRow
<1>5. config[c].status \in Live /\ (q.op # "revoke" => config[c].status = "active")
  BY <1>1, <1>2 DEF From, RemoveOps, Live
<1>6. RowOK(c)' /\ PeerOK(c)'
  BY <1>1, <1>2, <1>3, <1>4, <1>5 DEF RowOK, PeerOK, Managed, Live, RemoveOps
<1>7. RequestOK(r)' /\ Claims(r)' \subseteq Claims(r)
  <2>1. CASE q.orig # None
    <3> DEFINE p == [q EXCEPT !.op = "generate", !.pc = "alloc"]
    <3>1. Finished(q) = p
      BY <1>2, <2>1 DEF Finished
    <3>2. /\ p.op = "generate" /\ p.pc = "alloc" /\ p.cfg = c /\ p.user = q.user
          /\ p.node = q.node /\ p.orig = q.orig /\ p.before = None /\ p.ip = q.ip
      BY <1>1, <1>2 DEF Request
    <3> HIDE DEF p
    <3>3. RequestOK(r)'
      BY <1>2, <1>3, <1>4, <2>1, <3>1, <3>2
      DEF RequestOK, ConfigOps, AddOps, RemoveOps
    <3> QED
      BY <1>3, <3>1, <3>2, <3>3 DEF Claims
  <2>2. CASE q.orig = None
    <3>1. Finished(q) = Idle
      BY <1>1, <2>2 DEF Finished, RemoveOps
    <3> QED
      BY <1>3, <3>1, IdleOK
  <2> QED
    BY <2>1, <2>2
<1> QED
  BY <1>1, <1>3, <1>6, <1>7, RowMove

LEMMA SerialUndo ==
  ASSUME TypeInv, RaceInv, SerialInv, NEW r \in Requests, Undo(r)
  PROVE  SerialInv'
<1> DEFINE q == req[r]
<1> PICK c \in Configs : c = q.cfg
  BY DEF Undo, TypeInv, HasTarget
<1>1. /\ q \in Request /\ RequestOK(r) /\ q.pc = "undo"
      /\ config[c] \in ConfigRow /\ RowOK(c) /\ PeerOK(c)
  BY DEF Undo, TypeInv, TypeOK, SerialInv
<1>2. /\ q.op \in AddOps /\ q.before = None /\ config[c].status = "active"
      /\ "late" \notin Faults => c \notin peers
  BY <1>1 DEF RequestOK
<1>3. /\ c \in Claims(r)
      /\ \A s \in Requests \ {r} : req'[s] = req[s]
      /\ req'[r] = Idle
      /\ UNCHANGED <<address, peers, route, stray>>
      /\ \A d \in Configs \ {c} : config'[d] = config[d]
  BY <1>1, LifecycleAssumption, BecomeIs DEF Undo, Claims, node, TypeInv, TypeOK
<1>4. /\ config'[c].source = config[c].source
      /\ config'[c].node = config[c].node /\ config'[c].ip = config[c].ip
      /\ config'[c].replacedBy = config[c].replacedBy
      /\ config'[c].status = IF q.op = "assign" THEN "unassigned" ELSE "disabled"
      /\ config'[c].owner = IF q.op = "assign" THEN None ELSE config[c].owner
  BY <1>1, <1>2 DEF Undo, Restored, TypeInv, TypeOK, ConfigRow
<1>5. RowOK(c)' /\ PeerOK(c)'
  BY <1>1, <1>2, <1>3, <1>4 DEF RowOK, PeerOK, Managed, Endpoint, Live
<1>6. RequestOK(r)' /\ Claims(r)' = {}
  BY <1>3, IdleOK
<1>7. ASSUME NEW m \in stray PROVE StrayOK(m)'
  <2>1. StrayOK(m) /\ m.cfg \in Configs /\ m.op \in {"add", "remove"}
    BY DEF SerialInv, TypeInv, TypeOK, AgentCall
  <2>2. \A s \in Requests : Claims(s)' = IF s = r THEN {} ELSE Claims(s)
    BY <1>3, <1>6 DEF Claims
  <2>3. m.cfg = c => m.op = "add" /\ "late" \in Faults
    BY <1>3, <2>1 DEF StrayOK
  <2> QED
    BY <1>3, <1>4, <2>1, <2>2, <2>3 DEF StrayOK, Managed, Live
<1> DEFINE C == {c}
<1>8. /\ C \in SUBSET Configs
      /\ C \subseteq Claims(r) \cup (Configs \ Claimed)
      /\ \A d \in C : RowOK(d)' /\ PeerOK(d)'
      /\ Claims(r)' \subseteq Claims(r) \cup (Configs \ Claimed)
      /\ \A m \in stray' : StrayOK(m)'
  BY <1>3, <1>5, <1>6, <1>7
<1>9. \A d \in Configs \ C :
        /\ config'[d] = config[d] /\ address'[d] = address[d]
        /\ d \in peers' <=> d \in peers
        /\ d \in peers => route'[Endpoint(d)] = route[Endpoint(d)]
  BY <1>3
<1> HIDE DEF C
<1> QED
  BY <1>3, <1>6, <1>8, <1>9, Assemble

LEMMA SerialLink ==
  ASSUME TypeInv, RaceInv, SerialInv, NEW r \in Requests, Link(r)
  PROVE  SerialInv'
<1> DEFINE q == req[r]
<1>1. q \in Request /\ RequestOK(r) /\ q.pc = "link" /\ q.orig # None
  BY DEF Link, TypeInv, TypeOK, SerialInv, RequestOK
<1> PICK c \in Configs : c = q.orig
  BY <1>1 DEF Request
<1>2. /\ config[c].status = "revoked" /\ config[c] \in ConfigRow
      /\ RowOK(c) /\ PeerOK(c)
  BY <1>1 DEF RequestOK, TypeInv, TypeOK, SerialInv
<1>3. /\ c \in Claims(r)
      /\ \A s \in Requests \ {r} : req'[s] = req[s]
      /\ req'[r] = Idle
      /\ UNCHANGED <<peers, route, stray>>
      /\ \A d \in Configs \ {c} : config'[d] = config[d] /\ address'[d] = address[d]
  BY <1>1, BecomeIs DEF Link, Claims, node, TypeInv, TypeOK
<1>4. /\ config'[c].status = config[c].status /\ config'[c].source = config[c].source
      /\ config'[c].node = config[c].node /\ config'[c].ip = config[c].ip
      /\ config'[c].owner = config[c].owner
  BY <1>2 DEF Link, TypeInv, TypeOK, ConfigRow
<1>5. RowOK(c)' /\ PeerOK(c)'
  BY <1>2, <1>3, <1>4 DEF Link, RowOK, PeerOK, Managed, Endpoint
<1>6. RequestOK(r)' /\ Claims(r)' = {}
  BY <1>3, IdleOK
<1> QED
  BY <1>1, <1>3, <1>5, <1>6, RowMove

\* A failed call: the catch block of an adding operation, the end of a removing one.
LEMMA FailedOK ==
  ASSUME TypeInv, SerialInv, NEW r \in Requests,
         req[r].pc = "sent" \/ (req[r].pc = "settled" /\ Managed(req[r].cfg)
                                /\ "late" \in Faults),
         Become(r, Failed(req[r])), UNCHANGED <<config, peers>>
  PROVE  /\ RequestOK(r)'
         /\ Claims(r)' \subseteq Claims(r)
         /\ req[r].op \notin AddOps => Claims(r)' = {}
         /\ req[r].op \in AddOps => req'[r].pc = "undo" /\ req'[r].cfg = req[r].cfg
<1> DEFINE q == req[r]
<1>1. q \in Request /\ RequestOK(r)
  BY DEF TypeInv, TypeOK, SerialInv
<1>2. CASE q.op \in AddOps
  <2> DEFINE p == [q EXCEPT !.pc = "undo"]
  <2>1. /\ p.op = q.op /\ p.pc = "undo" /\ p.cfg = q.cfg /\ p.user = q.user
        /\ p.node = q.node /\ p.orig = q.orig /\ p.before = q.before /\ p.ip = q.ip
    BY <1>1 DEF Request
  <2>2. req'[r] = p
    BY <1>2, BecomeIs DEF Failed
  <2> HIDE DEF p
  <2>3. RequestOK(r)'
    BY <1>1, <1>2, <2>1, <2>2
    DEF RequestOK, ConfigOps, AddOps, RemoveOps, Managed
  <2> QED
    BY <1>2, <2>1, <2>2, <2>3 DEF Claims
<1>3. CASE q.op \notin AddOps
  BY <1>3, IdleOK, BecomeIs DEF Failed
<1> QED
  BY <1>2, <1>3

\* A caller that goes away leaves at most its own call behind.
LEMMA OrphanOK ==
  ASSUME TypeInv, SerialInv, NEW r \in Requests,
         \A s \in Requests \ {r} : req'[s] = req[s],
         UNCHANGED config,
         Claims(r)' \subseteq Claims(r),
         stray' = Orphan(r),
         \/ Claims(r)' = {}
         \/ /\ req[r].op \in AddOps /\ req[r].pc # "undo" /\ "late" \in Faults
            /\ req'[r].pc = "undo" /\ req'[r].cfg = req[r].cfg
  PROVE  \A m \in stray' : StrayOK(m)'
<1>1. \A s \in Requests \ {r} : Claims(s)' = Claims(s)
  BY DEF Claims
<1>2. ASSUME NEW m \in stray PROVE StrayOK(m)'
  <2>1. StrayOK(m)
    BY DEF SerialInv
  <2> QED
    BY <1>1, <2>1 DEF StrayOK, Managed
<1>3. ASSUME req[r].pc = "sent", NEW c \in Configs, c = req[r].cfg,
             NEW k \in {"add", "remove"}, k = Kind(req[r].op)
      PROVE  StrayOK([op |-> k, cfg |-> c])'
  <2>1. /\ RequestOK(r) /\ Managed(c) /\ c \in Claims(r)
        /\ k = "add" <=> req[r].op \in AddOps
        /\ k = "add" => config[c].status = "active"
    BY <1>3, LifecycleAssumption DEF SerialInv, RequestOK, Claims, Kind
  <2>2. \A s \in Requests \ {r} : c \notin Claims(s)
    BY <2>1 DEF SerialInv, Apart
  <2> DEFINE m == [op |-> k, cfg |-> c]
  <2>3. m.op = k /\ m.cfg = c
    OBVIOUS
  <2> HIDE DEF m
  <2>4. StrayOK(m)'
    BY <1>1, <1>3, <2>1, <2>2, <2>3 DEF StrayOK, Managed, Live
  <2> QED
    BY <2>4 DEF m
<1>4. CASE req[r].pc = "sent"
  <2>1. req[r].cfg \in Configs /\ Kind(req[r].op) \in {"add", "remove"}
    BY <1>4 DEF TypeInv, HasTarget, Kind
  <2>2. PICK c \in Configs, k \in {"add", "remove"} : c = req[r].cfg /\ k = Kind(req[r].op)
    BY <2>1
  <2>3. stray' = stray \cup {[op |-> k, cfg |-> c]}
    BY <1>4, <2>2 DEF Orphan
  <2>4. StrayOK([op |-> k, cfg |-> c])'
    BY <1>3, <1>4, <2>2
  <2> QED
    BY <1>2, <2>3, <2>4
<1>5. CASE req[r].pc # "sent"
  BY <1>2, <1>5 DEF Orphan
<1> QED
  BY <1>4, <1>5

\* A step that moves a request and the calls left behind, and no row and no peer.
LEMMA CallerLeaves ==
  ASSUME TypeInv, SerialInv, NEW r \in Requests,
         \A s \in Requests \ {r} : req'[s] = req[s],
         UNCHANGED <<config, address, peers, route>>,
         RequestOK(r)', Claims(r)' \subseteq Claims(r),
         \A m \in stray' : StrayOK(m)'
  PROVE  SerialInv'
<1> DEFINE C == {}
<1>1. /\ C \in SUBSET Configs
      /\ C \subseteq Claims(r) \cup (Configs \ Claimed)
      /\ \A d \in C : RowOK(d)' /\ PeerOK(d)'
      /\ Claims(r)' \subseteq Claims(r) \cup (Configs \ Claimed)
  OBVIOUS
<1>2. \A d \in Configs \ C :
        /\ config'[d] = config[d] /\ address'[d] = address[d]
        /\ d \in peers' <=> d \in peers
        /\ d \in peers => route'[Endpoint(d)] = route[Endpoint(d)]
  OBVIOUS
<1> HIDE DEF C
<1> QED
  BY <1>1, <1>2, Assemble

LEMMA SerialTimeout ==
  ASSUME TypeInv, RaceInv, SerialInv, NEW r \in Requests, Timeout(r)
  PROVE  SerialInv'
<1>1. /\ UNCHANGED <<config, address, peers, route>>
      /\ Become(r, Failed(req[r])) /\ req[r].pc # "undo"
      /\ req[r].pc = "sent" \/ (req[r].pc = "settled" /\ Managed(req[r].cfg))
  BY DEF Timeout, db, node
<1>2. \A s \in Requests \ {r} : req'[s] = req[s]
  BY <1>1, BecomeIs
<1>3. /\ RequestOK(r)' /\ Claims(r)' \subseteq Claims(r)
      /\ req[r].op \notin AddOps => Claims(r)' = {}
      /\ req[r].op \in AddOps => req'[r].pc = "undo" /\ req'[r].cfg = req[r].cfg
  BY <1>1, FailedOK DEF Timeout
<1>4. CASE "late" \in Faults
  <2>1. stray' = Orphan(r)
    BY <1>4 DEF Timeout
  <2>2. \A m \in stray' : StrayOK(m)'
    BY <1>1, <1>2, <1>3, <1>4, <2>1, OrphanOK
  <2> QED
    BY <1>1, <1>2, <1>3, <2>2, CallerLeaves
<1>5. CASE "late" \notin Faults
  <2>1. UNCHANGED stray
    BY <1>5 DEF Timeout
  <2>2. ASSUME NEW m \in stray' PROVE StrayOK(m)'
    <3>1. StrayOK(m) /\ m.cfg \notin Claims(r)
      BY <1>1, <2>1 DEF SerialInv, StrayOK
    <3>2. m.cfg \notin Claims(r)' /\ \A s \in Requests \ {r} : Claims(s)' = Claims(s)
      BY <1>2, <1>3, <3>1 DEF Claims
    <3> QED
      BY <1>1, <1>2, <3>1, <3>2 DEF StrayOK, Managed
  <2> QED
    BY <1>1, <1>2, <1>3, <2>2, CallerLeaves
<1> QED
  BY <1>4, <1>5

LEMMA SerialAbandon ==
  ASSUME TypeInv, RaceInv, SerialInv, NEW r \in Requests, Abandon(r)
  PROVE  SerialInv'
<1>1. UNCHANGED <<config, address, peers, route>> /\ stray' = Orphan(r)
  BY DEF Abandon, db, node
<1>2. req'[r] = Idle /\ \A s \in Requests \ {r} : req'[s] = req[s]
  BY BecomeIs DEF Abandon
<1>3. RequestOK(r)' /\ Claims(r)' = {}
  BY <1>2, IdleOK
<1>4. \A m \in stray' : StrayOK(m)'
  BY <1>1, <1>2, <1>3, OrphanOK
<1> QED
  BY <1>1, <1>2, <1>3, <1>4, CallerLeaves

LEMMA SerialRefuses ==
  ASSUME TypeInv, RaceInv, SerialInv, NEW r \in Requests, AgentRefuses(r)
  PROVE  SerialInv'
<1>1. /\ UNCHANGED <<config, address, peers, route, stray>>
      /\ Become(r, Failed(req[r])) /\ req[r].pc = "sent"
  BY DEF AgentRefuses, db, node
<1>2. req'[r] = Failed(req[r]) /\ \A s \in Requests \ {r} : req'[s] = req[s]
  BY <1>1, BecomeIs
<1>3. RequestOK(r)' /\ Claims(r)' \subseteq Claims(r)
  BY <1>1, FailedOK
<1>4. {Failed(req[r]).cfg, Failed(req[r]).orig} \ {None} = Claims(r)'
  BY <1>2 DEF Claims
<1> QED
  BY <1>1, <1>3, <1>4, RequestOnly

LEMMA SerialApplies ==
  ASSUME TypeInv, RaceInv, SerialInv, NEW r \in Requests, AgentApplies(r)
  PROVE  SerialInv'
<1> DEFINE q == req[r]
<1> PICK c \in Configs : c = q.cfg
  BY DEF AgentApplies, TypeInv, HasTarget
<1>1. /\ q \in Request /\ RequestOK(r) /\ q.pc = "sent" /\ RowOK(c)
      /\ Apply(Kind(q.op), c) /\ Become(r, [q EXCEPT !.pc = "settled"])
      /\ UNCHANGED <<config, address, stray>>
  BY DEF AgentApplies, TypeInv, TypeOK, SerialInv, db
<1>2. /\ Managed(c) /\ q.op \in ConfigOps /\ c \in Claims(r)
      /\ q.op \in AddOps => config[c].status = "active"
      /\ q.op \in RemoveOps => config[c].status \in From(q.op)
  <2>1. q.op \in ConfigOps
    BY <1>1 DEF RequestOK, Request, Ops, Idle
  <2> QED
    BY <1>1, <2>1, LifecycleAssumption DEF RequestOK, Claims
<1>3. /\ Kind(q.op) = "add" => q.op \in AddOps
      /\ Kind(q.op) = "remove" => q.op \in RemoveOps
      /\ Kind(q.op) \in {"add", "remove"}
  BY <1>2 DEF Kind, ConfigOps
<1>4. /\ \A d \in Configs \ {c} :
           /\ d \in peers' <=> d \in peers
           /\ d \in peers => route'[Endpoint(d)] = route[Endpoint(d)]
      /\ Kind(q.op) = "add" => route'[Endpoint(c)] = c
      /\ Kind(q.op) = "remove" => c \notin peers'
  BY <1>1, <1>2, <1>3, ApplyFrame DEF Live
<1>5. RowOK(c)' /\ PeerOK(c)'
  BY <1>1, <1>2, <1>3, <1>4 DEF RowOK, PeerOK, Managed, Endpoint, Live
<1> DEFINE p == [q EXCEPT !.pc = "settled"]
<1>6. /\ p.op = q.op /\ p.pc = "settled" /\ p.cfg = c /\ p.user = q.user
      /\ p.node = q.node /\ p.orig = q.orig /\ p.before = q.before /\ p.ip = q.ip
  BY <1>1 DEF Request
<1>7. req'[r] = p /\ \A s \in Requests \ {r} : req'[s] = req[s]
  BY <1>1, BecomeIs
<1> HIDE DEF p
<1>8. RequestOK(r)'
  BY <1>1, <1>2, <1>3, <1>4, <1>6, <1>7
  DEF RequestOK, ConfigOps, AddOps, RemoveOps, Managed
<1> DEFINE C == {c}
<1>9. /\ C \in SUBSET Configs
      /\ C \subseteq Claims(r) \cup (Configs \ Claimed)
      /\ \A d \in C : RowOK(d)' /\ PeerOK(d)'
      /\ Claims(r)' \subseteq Claims(r) \cup (Configs \ Claimed)
  BY <1>1, <1>2, <1>5, <1>6, <1>7 DEF Claims
<1>10. \A d \in Configs \ C :
         /\ config'[d] = config[d] /\ address'[d] = address[d]
         /\ d \in peers' <=> d \in peers
         /\ d \in peers => route'[Endpoint(d)] = route[Endpoint(d)]
  BY <1>1, <1>4
<1> HIDE DEF C
<1>11. \A m \in stray' : StrayOK(m)'
  BY <1>1, <1>7, <1>9, <1>10, StrayFrame
<1> QED
  BY <1>7, <1>8, <1>9, <1>10, <1>11, Assemble

LEMMA SerialStrayLands ==
  ASSUME TypeInv, RaceInv, SerialInv, NEW m \in stray, StrayLands(m)
  PROVE  SerialInv'
<1> PICK c \in Configs : c = m.cfg
  BY DEF TypeInv, TypeOK, AgentCall
<1>1. /\ StrayOK(m) /\ m.op \in {"add", "remove"} /\ RowOK(c)
      /\ Apply(m.op, c) /\ stray' \subseteq stray
      /\ UNCHANGED <<config, address, req>>
  BY DEF StrayLands, SerialInv, TypeInv, TypeOK, AgentCall, db
<1>2. Managed(c) /\ (m.op = "add" => config[c].status \in Live)
  BY <1>1 DEF StrayOK
<1>3. /\ \A d \in Configs \ {c} :
           /\ d \in peers' <=> d \in peers
           /\ d \in peers => route'[Endpoint(d)] = route[Endpoint(d)]
      /\ m.op = "add" => route'[Endpoint(c)] = c
      /\ m.op = "remove" => c \notin peers'
  BY <1>1, <1>2, ApplyFrame
<1>4. ASSUME NEW d \in Configs PROVE RowOK(d)' /\ PeerOK(d)'
  <2>1. Endpoint(d)' = Endpoint(d) /\ Managed(d)' = Managed(d) /\ RowOK(d) /\ PeerOK(d)
    BY <1>1 DEF Endpoint, Managed, SerialInv
  <2>2. RowOK(d)'
    BY <1>1, <2>1 DEF RowOK
  <2>3. CASE d # c
    BY <1>1, <1>3, <2>1, <2>2, <2>3 DEF PeerOK
  <2>4. CASE d = c
    BY <1>1, <1>2, <1>3, <2>1, <2>4 DEF PeerOK, RowOK, StrayOK
  <2> QED
    BY <2>2, <2>3, <2>4
<1>5. ASSUME NEW r \in Requests PROVE RequestOK(r)'
  <2>1. RequestOK(r)
    BY DEF SerialInv
  <2>2. CASE c \notin Claims(r)
    <3>1. \A d \in Claims(r) : d \in Configs \ {c}
      BY <2>2 DEF Claims, TypeInv, TypeOK, Request
    <3> QED
      BY <1>1, <1>3, <2>1, <3>1, RequestFrame
  <2>3. CASE c \in Claims(r)
    <3>1. req[r].pc = "undo" /\ c = req[r].cfg /\ m.op = "add" /\ "late" \in Faults
      BY <1>1, <2>3 DEF StrayOK
    <3> QED
      BY <1>1, <2>1, <3>1 DEF RequestOK, Managed
  <2> QED
    BY <2>2, <2>3
<1>6. \A r, s \in Requests : Apart(r, s)'
  BY <1>1 DEF SerialInv, Apart, Claims
<1>7. \A n \in stray' : StrayOK(n)'
  BY <1>1 DEF SerialInv, StrayOK, Managed, Claims
<1> QED
  BY <1>4, <1>5, <1>6, <1>7 DEF SerialInv

LEMMA SerialReboot ==
  ASSUME TypeInv, RaceInv, SerialInv, NEW n \in Nodes, Reboot(n)
  PROVE  SerialInv'
<1>1. /\ UNCHANGED <<config, address, req, stray>>
      /\ peers' = {c \in peers : config[c].node # n}
      /\ route' = [e \in DOMAIN route |-> IF e[1] = n THEN None ELSE route[e]]
  BY DEF Reboot, db
<1>2. ASSUME NEW d \in Configs PROVE RowOK(d)' /\ PeerOK(d)'
  <2>1. Endpoint(d)' = Endpoint(d) /\ Managed(d)' = Managed(d) /\ RowOK(d) /\ PeerOK(d)
    BY <1>1 DEF Endpoint, Managed, SerialInv
  <2>2. RowOK(d)'
    BY <1>1, <2>1 DEF RowOK
  <2>3. ASSUME d \in peers' PROVE route'[Endpoint(d)] = route[Endpoint(d)]
    <3>1. d \in peers /\ config[d].node # n
      BY <1>1, <2>3
    <3>2. Endpoint(d) \in DOMAIN route
      BY <2>1, <3>1 DEF PeerOK, RowOK, Endpoint, TypeInv, TypeOK
    <3> QED
      BY <1>1, <3>1, <3>2 DEF Endpoint
  <2>4. PeerOK(d)'
    BY <1>1, <2>1, <2>3 DEF PeerOK
  <2> QED
    BY <2>2, <2>4
<1>3. ASSUME NEW r \in Requests PROVE RequestOK(r)'
  BY <1>1, RequestFrame DEF SerialInv
<1>4. \A r, s \in Requests : Apart(r, s)'
  BY <1>1 DEF SerialInv, Apart, Claims
<1>5. \A m \in stray' : StrayOK(m)'
  BY <1>1 DEF SerialInv, StrayOK, Managed, Claims
<1> QED
  BY <1>2, <1>3, <1>4, <1>5 DEF SerialInv

LEMMA SerialUpload ==
  ASSUME TypeInv, RaceInv, SerialInv, NEW c \in Configs, Upload(c)
  PROVE  SerialInv'
<1> DEFINE row == [NoRow EXCEPT !.status = "unassigned"]
<1>1. row.status = "unassigned" /\ row.source = "static" /\ row.replacedBy = None
  BY DEF NoRow
<1>2. /\ config[c].status = "none" /\ RowOK(c) /\ PeerOK(c)
      /\ UNCHANGED <<address, peers, route, req, stray>>
      /\ \A d \in Configs : config'[d] = IF d = c THEN row ELSE config[d]
  BY DEF Upload, node, TypeInv, TypeOK, SerialInv
<1> HIDE DEF row
<1>3. c \notin Claimed
  BY <1>2, ClaimedExists
<1>4. ASSUME NEW d \in Configs PROVE RowOK(d)' /\ PeerOK(d)'
  <2>1. CASE d = c
    BY <1>1, <1>2, <2>1 DEF RowOK, PeerOK, Managed
  <2>2. CASE d # c
    <3>1. Endpoint(d)' = Endpoint(d) /\ Managed(d)' = Managed(d) /\ RowOK(d) /\ PeerOK(d)
      BY <1>2, <2>2 DEF Endpoint, Managed, SerialInv
    <3> QED
      BY <1>2, <2>2, <3>1 DEF RowOK, PeerOK
  <2> QED
    BY <2>1, <2>2
<1>5. ASSUME NEW r \in Requests PROVE RequestOK(r)'
  <2>1. \A d \in Claims(r) : d \in Configs \ {c}
    BY <1>3 DEF Claimed, Claims, TypeInv, TypeOK, Request
  <2> QED
    BY <1>2, <2>1, RequestFrame DEF SerialInv
<1>6. \A r, s \in Requests : Apart(r, s)'
  BY <1>2 DEF SerialInv, Apart, Claims
<1>7. ASSUME NEW m \in stray PROVE StrayOK(m)'
  <2>1. m.cfg \in Configs \ {c} /\ StrayOK(m)
    BY <1>3 DEF Claimed, SerialInv, TypeInv, TypeOK, AgentCall
  <2> QED
    BY <1>2, <2>1 DEF StrayOK, Managed, Claims
<1> QED
  BY <1>2, <1>4, <1>5, <1>6, <1>7 DEF SerialInv

LEMMA SerialSameButStray ==
  ASSUME SerialInv, UNCHANGED <<config, address, peers, route, req>>, stray' \subseteq stray
  PROVE  SerialInv'
<1>1. \A c \in Configs : RowOK(c)' /\ PeerOK(c)'
  BY DEF SerialInv, RowOK, PeerOK, Managed, Endpoint
<1>2. \A r \in Requests : RequestOK(r)'
  BY DEF SerialInv, RequestOK, Managed
<1>3. /\ \A r, s \in Requests : Apart(r, s)'
      /\ \A m \in stray' : StrayOK(m)'
  BY DEF SerialInv, Apart, StrayOK, Managed, Claims
<1> QED
  BY <1>1, <1>2, <1>3 DEF SerialInv

LEMMA SerialAdvance ==
  ASSUME TypeInv, RaceInv, SerialInv, NEW r \in Requests, Advance(r)
  PROVE  SerialInv'
<1>1. ASSUME InsertFails(r) PROVE SerialInv'
  <2>1. /\ Become(r, Idle) /\ req[r].pc # "undo"
        /\ UNCHANGED <<config, address, peers, route, stray>>
    BY <1>1 DEF InsertFails, db, node
  <2> QED
    BY <2>1, GiveUp
<1>2. ASSUME RetireNode(r) PROVE SerialInv'
  <2>1. /\ Become(r, Idle) /\ req[r].pc # "undo"
        /\ UNCHANGED <<config, address, peers, route, stray>>
    BY <1>2 DEF RetireNode, node
  <2> QED
    BY <2>1, GiveUp
<1> QED
  BY <1>1, <1>2, SerialLoad, SerialAlloc, SerialInsert, SerialWrite, SerialConfirm,
     SerialCommit, SerialUndo, SerialLink, SerialTimeout DEF Advance

LEMMA SerialStep ==
  Serial /\ TypeInv /\ RaceInv /\ SerialInv /\ [Next]_vars => SerialInv'
<1> SUFFICES ASSUME Serial, TypeInv, RaceInv, SerialInv, [Next]_vars PROVE SerialInv'
  OBVIOUS
<1>1. ASSUME NEW m \in stray, StrayLost(m) PROVE SerialInv'
  BY <1>1, SerialSameButStray DEF StrayLost, db, node
<1>2. CASE UNCHANGED vars
  BY <1>2, SerialSameButStray DEF vars
<1>3. CASE Next
  BY <1>1, <1>3, SerialStart, SerialAdvance, SerialAbandon, SerialApplies, SerialRefuses,
     SerialUpload, SerialStrayLands, SerialReboot DEF Next
<1> QED
  BY <1>2, <1>3

\* While operators work on a config one at a time and wait for its late calls
\* (Serial): a peer holds its own reserved address, addresses follow the status,
\* an active config has an owner, and a replaced one is revoked, whatever fails.
THEOREM SerialIsSafe ==
  ASSUME Serial
  PROVE  Spec => [](/\ PeerHoldsItsAddress /\ AddressFollowsStatus /\ NamedOwner
                    /\ ReplacedIsRevoked)
<1>1. Spec => [](TypeInv /\ RaceInv /\ SerialInv)
  BY TypeInit, TypeStep, RaceInit, RaceStep, SerialInit, SerialStep, PTL DEF Spec
<1>2. TypeInv /\ SerialInv => /\ PeerHoldsItsAddress /\ AddressFollowsStatus
                              /\ NamedOwner /\ ReplacedIsRevoked
  BY DEF TypeInv, TypeOK, SerialInv, RowOK, PeerOK, PeerHoldsItsAddress,
         AddressFollowsStatus, NamedOwner, ReplacedIsRevoked, Live
<1> QED
  BY <1>1, <1>2, PTL

\* When no call given up on is ever applied, and operations on one config do not
\* overlap, a revoked config has no peer, whatever times out, is refused or dies.
\* (The run LateRevoke shows what a late call does.)
THEOREM RevokedStaysDown ==
  ASSUME Serial, "late" \notin Faults
  PROVE  Spec => []RevokedIsDown
<1>1. Spec => [](TypeInv /\ RaceInv /\ SerialInv)
  BY TypeInit, TypeStep, RaceInit, RaceStep, SerialInit, SerialStep, PTL DEF Spec
<1>2. TypeInv /\ SerialInv => RevokedIsDown
  BY DEF TypeInv, TypeOK, SerialInv, RowOK, PeerOK, RevokedIsDown, Live
<1> QED
  BY <1>1, <1>2, PTL

\* When, as well, a call that timed out is lost, a live tunnel always stands for
\* an active, owned config.
THEOREM TunnelsAreAccounted ==
  ASSUME Serial, "late" \notin Faults
  PROVE  Spec => []TunnelIsAccounted
<1>1. Spec => [](TypeInv /\ RaceInv /\ SerialInv)
  BY TypeInit, TypeStep, RaceInit, RaceStep, SerialInit, SerialStep, PTL DEF Spec
<1>2. TypeInv /\ SerialInv => TunnelIsAccounted
  BY DEF TypeInv, TypeOK, SerialInv, RowOK, PeerOK, TunnelIsAccounted, Live
<1> QED
  BY <1>1, <1>2, PTL

-----------------------------------------------------------------------------
(* The lifecycle table *)

\* What an update of one row does to the two columns the contract speaks of.
LEMMA RowColumns ==
  ASSUME TypeOK, NEW c \in Configs, NEW row, config' = [config EXCEPT ![c] = row],
         NEW from, config[c].status \in from
  PROVE  /\ peers' = peers => Contract!Move(c, from, row.status)
         /\ [d \in Configs |-> config[d].owner]'
              = [[d \in Configs |-> config[d].owner] EXCEPT ![c] = row.owner]
         /\ row.owner = config[c].owner => UNCHANGED [d \in Configs |-> config[d].owner]
<1>1. /\ \A d \in Configs : config'[d] = IF d = c THEN row ELSE config[d]
      /\ DOMAIN config = Configs
  BY DEF TypeOK
<1>2. [d \in Configs |-> config[d].status]'
        = [[d \in Configs |-> config[d].status] EXCEPT ![c] = row.status]
  BY <1>1
<1>3. [d \in Configs |-> config[d].owner]'
        = [[d \in Configs |-> config[d].owner] EXCEPT ![c] = row.owner]
  BY <1>1
<1>4. row.owner = config[c].owner => UNCHANGED [d \in Configs |-> config[d].owner]
  BY <1>1
<1>5. peers' = peers => Contract!Move(c, from, row.status)
  BY <1>2 DEF Contract!Move
<1> QED
  BY <1>3, <1>4, <1>5

LEMMA ContractInit == Init => Contract!Init
  BY DEF Init, Contract!Init, NoRow

\* A step that leaves the rows and the peers alone is a stutter of the contract.
LEMMA ContractStutter ==
  ASSUME UNCHANGED <<config, peers>>
  PROVE  UNCHANGED Contract!vars
  BY DEF Contract!vars

LEMMA ContractUpload ==
  ASSUME TypeOK, NEW c \in Configs, Upload(c)
  PROVE  Contract!Issue(c)
<1> DEFINE row == [NoRow EXCEPT !.status = "unassigned"]
<1>1. row.status = "unassigned" /\ row.owner = None
  BY DEF NoRow
<1>2. config[c].status = "none" /\ config' = [config EXCEPT ![c] = row] /\ peers' = peers
  BY DEF Upload, node
<1> HIDE DEF row
<1>3. /\ Contract!Move(c, {"none"}, row.status)
      /\ [d \in Configs |-> config[d].owner]'
           = [[d \in Configs |-> config[d].owner] EXCEPT ![c] = row.owner]
  BY <1>2, RowColumns
<1> QED
  BY <1>1, <1>3 DEF Contract!Issue

LEMMA ContractInsert ==
  ASSUME TypeOK, NEW r \in Requests, Insert(r)
  PROVE  \E c \in Configs : Contract!Issue(c)
<1> PICK row : row = [NoRow EXCEPT !.status = "unassigned", !.source = "managed",
                                   !.node = req[r].node, !.ip = req[r].ip]
  OBVIOUS
<1>1. row.status = "unassigned" /\ row.owner = None
  BY DEF NoRow
<1>2. PICK c \in Configs : /\ config[c].status = "none"
                           /\ config' = [config EXCEPT ![c] = row]
                           /\ peers' = peers
  BY DEF Insert, node
<1>3. /\ Contract!Move(c, {"none"}, row.status)
      /\ [d \in Configs |-> config[d].owner]'
           = [[d \in Configs |-> config[d].owner] EXCEPT ![c] = row.owner]
      /\ row.owner = config[c].owner => UNCHANGED [d \in Configs |-> config[d].owner]
  BY <1>2, RowColumns
<1> QED
  BY <1>1, <1>3 DEF Contract!Issue

\* The rows only move along the table: the other writes of a request, whose
\* target the invariant knows.
LEMMA ContractWrite ==
  ASSUME TypeInv, SerialInv, NEW r \in Requests, Write(r)
  PROVE  \E c \in Configs : \/ Contract!Enable(c)
                            \/ \E u \in Users : Contract!Assign(c, u)
<1> DEFINE q == req[r]
<1> PICK c \in Configs : c = q.cfg
  BY DEF Write, TypeInv, HasTarget
<1>0. TypeOK
  BY DEF TypeInv
<1>1. /\ q.op \in AddOps /\ config[c].status \in From(q.op)
      /\ q.op = "assign" => q.user \in Users
  BY DEF Write, SerialInv, RequestOK, TypeInv, TypeOK, Request
<1>a. PICK row : row = IF q.op = "assign"
                       THEN [config[c] EXCEPT !.status = "active", !.owner = q.user]
                       ELSE [config[c] EXCEPT !.status = "active"]
  OBVIOUS
<1> PICK u : u = q.user
  OBVIOUS
<1>2. config' = [config EXCEPT ![c] = row] /\ peers' = peers
  BY <1>a DEF Write, node
<1>3. /\ row.status = "active"
      /\ row.owner = IF q.op = "assign" THEN q.user ELSE config[c].owner
  BY <1>a DEF TypeInv, TypeOK, ConfigRow
<1>4. CASE q.op = "assign"
  <2>1. config[c].status \in {"unassigned"}
    BY <1>1, <1>4 DEF From
  <2>2. /\ Contract!Move(c, {"unassigned"}, row.status)
        /\ [d \in Configs |-> config[d].owner]'
             = [[d \in Configs |-> config[d].owner] EXCEPT ![c] = row.owner]
    BY <1>0, <1>2, <1>3, <1>4, <2>1, RowColumns
  <2>3. Contract!Assign(c, u)
    BY <1>1, <1>3, <1>4, <2>2 DEF Contract!Assign
  <2> QED
    BY <1>1, <1>4, <2>3
<1>5. CASE q.op = "enable"
  <2>1. config[c].status \in {"disabled"}
    BY <1>1, <1>5 DEF From
  <2>2. /\ Contract!Move(c, {"disabled"}, row.status)
        /\ row.owner = config[c].owner => UNCHANGED [d \in Configs |-> config[d].owner]
    BY <1>0, <1>2, <2>1, RowColumns
  <2>3. Contract!Enable(c)
    BY <1>1, <1>3, <1>5, <2>2 DEF Contract!Enable
  <2> QED
    BY <1>1, <1>5, <2>3
<1> QED
  BY <1>1, <1>4, <1>5 DEF AddOps

LEMMA ContractCommit ==
  ASSUME TypeInv, SerialInv, NEW r \in Requests, Commit(r)
  PROVE  \E c \in Configs :
           Contract!Unassign(c) \/ Contract!Disable(c) \/ Contract!Revoke(c)
<1> DEFINE q == req[r]
<1> PICK c \in Configs : c = q.cfg
  BY DEF Commit, TypeInv, HasTarget
<1>0. TypeOK
  BY DEF TypeInv
<1>1. q.op \in RemoveOps /\ config[c].status \in From(q.op) /\ c \notin peers
  BY DEF Commit, SerialInv, RequestOK
<1> PICK row : row = Committed(q.op, config[c])
  OBVIOUS
<1>2. config' = [config EXCEPT ![c] = row] /\ peers' = peers
  BY DEF Commit, node
<1>3. /\ row.status = IF q.op = "unassign" THEN "unassigned"
                      ELSE IF q.op = "disable" THEN "disabled" ELSE "revoked"
      /\ row.owner = IF q.op = "unassign" THEN None ELSE config[c].owner
  BY DEF Committed, TypeInv, TypeOK, ConfigRow
<1>4. CASE q.op = "unassign"
  <2>1. config[c].status \in {"active"}
    BY <1>1, <1>4 DEF From
  <2>2. /\ Contract!Move(c, {"active"}, row.status)
        /\ [d \in Configs |-> config[d].owner]'
             = [[d \in Configs |-> config[d].owner] EXCEPT ![c] = row.owner]
    BY <1>0, <1>2, <1>3, <1>4, <2>1, RowColumns
  <2>3. Contract!Unassign(c)
    BY <1>1, <1>3, <1>4, <2>2 DEF Contract!Unassign
  <2> QED
    BY <1>1, <1>4, <2>3
<1>5. CASE q.op = "disable"
  <2>1. config[c].status \in {"active"}
    BY <1>1, <1>5 DEF From
  <2>2. /\ Contract!Move(c, {"active"}, row.status)
        /\ UNCHANGED [d \in Configs |-> config[d].owner]
    BY <1>0, <1>2, <1>3, <1>5, <2>1, RowColumns
  <2>3. Contract!Disable(c)
    BY <1>1, <1>3, <1>5, <2>2 DEF Contract!Disable
  <2> QED
    BY <1>1, <1>5, <2>3
<1>6. CASE q.op = "revoke"
  <2>1. config[c].status \in {"unassigned", "active", "disabled"}
    BY <1>1, <1>6 DEF From, Live
  <2>2. /\ Contract!Move(c, {"unassigned", "active", "disabled"}, row.status)
        /\ UNCHANGED [d \in Configs |-> config[d].owner]
    BY <1>0, <1>2, <1>3, <1>6, <2>1, RowColumns
  <2>3. Contract!Revoke(c)
    BY <1>1, <1>3, <1>6, <2>2 DEF Contract!Revoke
  <2> QED
    BY <1>1, <1>6, <2>3
<1> QED
  BY <1>1, <1>4, <1>5, <1>6 DEF RemoveOps

\* The catch block: the call was refused, so the tunnel is down, and the row
\* goes back to what it was.
LEMMA ContractUndo ==
  ASSUME "late" \notin Faults, TypeInv, SerialInv, NEW r \in Requests, Undo(r)
  PROVE  \E c \in Configs : Contract!Unassign(c) \/ Contract!Disable(c)
<1> DEFINE q == req[r]
<1> PICK c \in Configs : c = q.cfg
  BY DEF Undo, TypeInv, HasTarget
<1>0. TypeOK
  BY DEF TypeInv
<1>1. q.op \in AddOps /\ config[c].status = "active" /\ c \notin peers /\ q.before = None
  BY DEF Undo, SerialInv, RequestOK
<1> PICK row : row = Restored(q, config[c])
  OBVIOUS
<1>2. config' = [config EXCEPT ![c] = row] /\ peers' = peers
  BY DEF Undo, node
<1>3. /\ row.status = IF q.op = "assign" THEN "unassigned" ELSE "disabled"
      /\ row.owner = IF q.op = "assign" THEN None ELSE config[c].owner
  BY <1>1 DEF Restored, TypeInv, TypeOK, ConfigRow
<1>4. CASE q.op = "assign"
  <2>1. config[c].status \in {"active"}
    BY <1>1, <1>4 DEF From
  <2>2. /\ Contract!Move(c, {"active"}, row.status)
        /\ [d \in Configs |-> config[d].owner]'
             = [[d \in Configs |-> config[d].owner] EXCEPT ![c] = row.owner]
    BY <1>0, <1>2, <1>3, <1>4, <2>1, RowColumns
  <2>3. Contract!Unassign(c)
    BY <1>1, <1>3, <1>4, <2>2 DEF Contract!Unassign
  <2> QED
    BY <1>1, <1>4, <2>3
<1>5. CASE q.op = "enable"
  <2>1. config[c].status \in {"active"}
    BY <1>1, <1>5 DEF From
  <2>2. /\ Contract!Move(c, {"active"}, row.status)
        /\ UNCHANGED [d \in Configs |-> config[d].owner]
    BY <1>0, <1>2, <1>3, <1>5, <2>1, RowColumns
  <2>3. Contract!Disable(c)
    BY <1>1, <1>3, <1>5, <2>2 DEF Contract!Disable
  <2> QED
    BY <1>1, <1>5, <2>3
<1> QED
  BY <1>1, <1>4, <1>5 DEF AddOps

LEMMA ContractLink ==
  ASSUME TypeInv, NEW r \in Requests, Link(r)
  PROVE  UNCHANGED Contract!vars
<1> DEFINE q == req[r]
<1>1. /\ config' = [config EXCEPT ![q.orig].replacedBy = q.cfg]
      /\ peers' = peers
  BY DEF Link, node
<1>2. \A d \in Configs : /\ config'[d].status = config[d].status
                         /\ config'[d].owner = config[d].owner
  BY <1>1 DEF TypeInv, TypeOK, ConfigRow
<1> QED
  BY <1>1, <1>2 DEF Contract!vars

\* A call that lands raises the tunnel of an active, owned config, or drops one.
LEMMA ContractApply ==
  ASSUME NEW c \in Configs, NEW kind, Apply(kind, c), config' = config,
         kind = "add" => config[c].status = "active" /\ config[c].owner # None
  PROVE  Contract!Raise(c) \/ Contract!Drop({c})
<1>1. CASE kind = "add"
  BY <1>1 DEF Apply, AddPeer, Contract!Raise
<1>2. CASE kind = "remove"
  BY <1>2 DEF Apply, RemovePeer, Contract!Drop
<1> QED
  BY <1>1, <1>2 DEF Apply

LEMMA ContractApplies ==
  ASSUME TypeInv, SerialInv, NEW r \in Requests, AgentApplies(r)
  PROVE  \E c \in Configs : Contract!Raise(c) \/ Contract!Drop({c})
<1> PICK c \in Configs : c = req[r].cfg
  BY DEF AgentApplies, TypeInv, HasTarget
<1>1. Apply(Kind(req[r].op), c) /\ config' = config
  BY DEF AgentApplies, db
<1>2. Kind(req[r].op) = "add" => config[c].status = "active" /\ config[c].owner # None
  BY DEF AgentApplies, SerialInv, RequestOK, RowOK, Kind
<1> QED
  BY <1>1, <1>2, ContractApply

LEMMA ContractStrayLands ==
  ASSUME "late" \notin Faults, TypeInv, SerialInv, NEW m \in stray, StrayLands(m)
  PROVE  \E c \in Configs : Contract!Raise(c) \/ Contract!Drop({c})
<1> PICK c \in Configs : c = m.cfg
  BY DEF TypeInv, TypeOK, AgentCall
<1>1. Apply(m.op, c) /\ config' = config
  BY DEF StrayLands, db
<1>2. m.op = "add" => config[c].status = "active" /\ config[c].owner # None
  BY DEF SerialInv, StrayOK, RowOK
<1> QED
  BY <1>1, <1>2, ContractApply

LEMMA ContractReboot ==
  ASSUME TypeInv, NEW n \in Nodes, Reboot(n)
  PROVE  \E S \in SUBSET Configs : Contract!Drop(S)
<1> DEFINE S == {c \in Configs : config[c].node = n}
<1>1. peers' = peers \ S
  BY DEF Reboot, TypeInv, TypeOK
<1>2. Contract!Drop(S)
  BY <1>1 DEF Reboot, db, Contract!Drop
<1> QED
  BY <1>2

LEMMA ContractStep ==
  /\ Serial /\ "late" \notin Faults /\ TypeInv /\ SerialInv /\ [Next]_vars
  => [Contract!Next]_Contract!vars
<1> SUFFICES ASSUME Serial, "late" \notin Faults, TypeInv, SerialInv, [Next]_vars
             PROVE  Contract!Next \/ UNCHANGED Contract!vars
  OBVIOUS
<1> USE DEF Contract!Next
<1>1. ASSUME NEW r \in Requests, Start(r)
      PROVE  UNCHANGED Contract!vars
  BY <1>1, ContractStutter
  DEF Start, StartOp, StartGenerate, StartReassign, StartRemoveNode, db, node
<1>2. ASSUME NEW r \in Requests, Advance(r)
      PROVE  Contract!Next \/ UNCHANGED Contract!vars
  <2>1. CASE Load(r) \/ Alloc(r) \/ InsertFails(r) \/ Confirm(r) \/ RetireNode(r) \/ Timeout(r)
    BY <2>1, ContractStutter
    DEF Load, Alloc, InsertFails, Confirm, RetireNode, Timeout, db, node
  <2>2. CASE Insert(r)
    BY <2>2, ContractInsert DEF TypeInv
  <2>3. CASE Write(r)
    BY <2>3, ContractWrite
  <2>4. CASE Commit(r)
    BY <2>4, ContractCommit
  <2>5. CASE Undo(r)
    BY <2>5, ContractUndo
  <2>6. CASE Link(r)
    BY <2>6, ContractLink
  <2> QED
    BY <1>2, <2>1, <2>2, <2>3, <2>4, <2>5, <2>6 DEF Advance
<1>3. ASSUME NEW r \in Requests, Abandon(r) \/ AgentRefuses(r)
      PROVE  UNCHANGED Contract!vars
  BY <1>3, ContractStutter DEF Abandon, AgentRefuses, db, node
<1>4. ASSUME NEW m \in stray, StrayLost(m)
      PROVE  UNCHANGED Contract!vars
  BY <1>4, ContractStutter DEF StrayLost, db, node
<1>5. CASE UNCHANGED vars
  BY <1>5, ContractStutter DEF vars
<1>6. ASSUME NEW c \in Configs, Upload(c)
      PROVE  Contract!Next
  BY <1>6, ContractUpload DEF TypeInv
<1>7. ASSUME NEW r \in Requests, AgentApplies(r)
      PROVE  Contract!Next
  <2>1. PICK c \in Configs : Contract!Raise(c) \/ Contract!Drop({c})
    BY <1>7, ContractApplies
  <2>2. {c} \in SUBSET Configs
    OBVIOUS
  <2> QED
    BY <2>1, <2>2
<1>8. ASSUME NEW m \in stray, StrayLands(m)
      PROVE  Contract!Next
  <2>1. PICK c \in Configs : Contract!Raise(c) \/ Contract!Drop({c})
    BY <1>8, ContractStrayLands
  <2>2. {c} \in SUBSET Configs
    OBVIOUS
  <2> QED
    BY <2>1, <2>2
<1>9. ASSUME NEW n \in Nodes, Reboot(n)
      PROVE  Contract!Next
  BY <1>9, ContractReboot
<1> QED
  BY <1>1, <1>2, <1>3, <1>4, <1>5, <1>6, <1>7, <1>8, <1>9 DEF Next

\* The server actions implement the lifecycle table of SPEC section 5 while
\* operations on one config do not overlap and a call that timed out is lost:
\* also when calls are refused, requests die half-way, the calls these left
\* behind land later, and nodes restart.
THEOREM Implements ==
  ASSUME Serial, "late" \notin Faults
  PROVE  Spec => ContractSpec
<1>1. Spec => [](TypeInv /\ RaceInv /\ SerialInv)
  BY TypeInit, TypeStep, RaceInit, RaceStep, SerialInit, SerialStep, PTL DEF Spec
<1> QED
  BY <1>1, ContractInit, ContractStep, PTL DEF Spec, ContractSpec, Contract!Spec


\* The five steps that write a config row; every other one leaves it alone.
LEMMA RevokedStep ==
  /\ TypeInv /\ SerialInv /\ [Next]_vars
  => \A d \in Configs : config[d].status = "revoked" => config'[d].status = "revoked"
<1> SUFFICES ASSUME TypeInv, SerialInv, [Next]_vars,
                    NEW d \in Configs, config[d].status = "revoked"
             PROVE  config'[d].status = "revoked"
  OBVIOUS
<1>1. ASSUME NEW c \in Configs, Upload(c)
      PROVE  config'[d].status = "revoked"
  BY <1>1 DEF Upload, TypeInv, TypeOK
<1>2. ASSUME NEW r \in Requests, Advance(r)
      PROVE  config'[d].status = "revoked"
  <2> DEFINE q == req[r]
  <2>1. RequestOK(r)
    BY DEF SerialInv
  <2>2. CASE Insert(r)
    BY <2>2 DEF Insert, TypeInv, TypeOK
  <2>3. CASE Write(r)
    <3>1. q.op \in AddOps /\ config[q.cfg].status \in From(q.op)
      BY <2>1, <2>3 DEF Write, RequestOK
    <3>2. q.cfg # d
      BY <3>1 DEF From, AddOps
    <3> QED
      BY <2>3, <3>2 DEF Write, TypeInv, TypeOK
  <2>4. CASE Commit(r)
    <3>1. q.op \in RemoveOps /\ config[q.cfg].status \in From(q.op)
      BY <2>1, <2>4 DEF Commit, RequestOK
    <3>2. q.cfg # d
      BY <3>1 DEF From, RemoveOps, Live
    <3> QED
      BY <2>4, <3>2 DEF Commit, TypeInv, TypeOK
  <2>5. CASE Undo(r)
    <3>1. q.cfg # d
      BY <2>1, <2>5 DEF Undo, RequestOK
    <3> QED
      BY <2>5, <3>1 DEF Undo, TypeInv, TypeOK
  <2>6. CASE Link(r)
    BY <2>6 DEF Link, TypeInv, TypeOK, ConfigRow
  <2>7. CASE Load(r) \/ Alloc(r) \/ InsertFails(r) \/ Confirm(r) \/ RetireNode(r) \/ Timeout(r)
    BY <2>7 DEF Load, Alloc, InsertFails, Confirm, RetireNode, Timeout, db
  <2> QED
    BY <1>2, <2>2, <2>3, <2>4, <2>5, <2>6, <2>7 DEF Advance
<1>3. ASSUME UNCHANGED config
      PROVE  config'[d].status = "revoked"
  BY <1>3
<1>4. ASSUME NEW r \in Requests, Start(r) \/ Abandon(r) \/ AgentApplies(r) \/ AgentRefuses(r)
      PROVE  UNCHANGED config
  BY <1>4 DEF Start, StartOp, StartGenerate, StartReassign, StartRemoveNode,
              Abandon, AgentApplies, AgentRefuses, db
<1>5. ASSUME NEW m \in stray, StrayLands(m) \/ StrayLost(m)
      PROVE  UNCHANGED config
  BY <1>5 DEF StrayLands, StrayLost, db
<1> QED
  BY <1>1, <1>2, <1>3, <1>4, <1>5 DEF Next, Reboot, vars, db

\* While operations on one config do not overlap, nothing that fails, times out
\* or arrives late brings a revoked config back (SPEC section 5: terminal).
THEOREM RevokeIsFinal ==
  ASSUME Serial
  PROVE  Spec => RevokeIsTerminal
<1>1. Spec => [](TypeInv /\ RaceInv /\ SerialInv)
  BY TypeInit, TypeStep, RaceInit, RaceStep, SerialInit, SerialStep, PTL DEF Spec
<1>2. TypeInv /\ SerialInv /\ [Next]_vars =>
        [\A c \in Configs : config[c].status = "revoked" => config'[c].status = "revoked"]_vars
  BY RevokedStep
<1> QED
  BY <1>1, <1>2, PTL DEF Spec, RevokeIsTerminal

=============================================================================
