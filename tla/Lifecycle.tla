----------------------------- MODULE Lifecycle -----------------------------
(***************************************************************************)
(* The life of a VPN config: the control plane's server actions of         *)
(* src/server/configs/lifecycle.ts and external.ts, the address allocator  *)
(* they call, soft node removal, and the WireGuard peers the node agents   *)
(* hold.                                                                   *)
(*                                                                         *)
(* Every server action is a request that runs beside the others and is cut *)
(* into the steps its awaits make: the database is read, the agent is      *)
(* called, the database is written, and other requests run in between.     *)
(* The rows are written unconditionally by id, as in the code.             *)
(***************************************************************************)
EXTENDS Naturals, FiniteSets

CONSTANTS
  Requests,   \* server actions that may be in progress at once
  Configs,    \* ids of config rows; their number bounds the rows ever created
  Nodes,      \* registered nodes
  Users,      \* people a config can be assigned to
  Pool,       \* usable client addresses of each node's pool
  None,       \* SQL null
  Faults,     \* what may go wrong in a run, a subset of FaultKinds
  Serial      \* TRUE: operators do one thing to a config at a time (MayStart)

\* "refuse": the agent answers with an error and has changed nothing.
\* "timeout": the caller gives up on an agent that does not answer.
\* "late": a call given up on is not lost, it has been applied or still will be.
\* "abandon": a request dies where it stands (process restart, database error);
\*   a call it has made may still be applied.
\* "reboot": a node restarts and its kernel forgets every peer.
FaultKinds == {"refuse", "timeout", "late", "abandon", "reboot"}

ASSUME LifecycleAssumption ==
  /\ Pool \subseteq Nat
  /\ None \notin Configs \cup Nodes \cup Users \cup Pool
  /\ Faults \subseteq FaultKinds
  /\ Serial \in BOOLEAN

VARIABLES
  config,      \* the config table, with the row's current status, owner, ...
  address,     \* the ip_allocations row of each config
  nodeStatus,  \* the nodes table
  peers,       \* configs whose key is a peer of its node's interface
  route,       \* the peer that owns an allowed IP on a node's interface
  req,         \* the requests in progress
  stray        \* agent calls whose caller is gone and that may still land

db   == <<config, address, nodeStatus>>
node == <<peers, route>>
vars == <<config, address, nodeStatus, peers, route, req, stray>>

-----------------------------------------------------------------------------
(* Rows and requests *)

Live     == {"unassigned", "active", "disabled"}
Statuses == Live \cup {"none", "revoked"}

ConfigRow ==
  [status: Statuses, source: {"managed", "static"}, owner: Users \cup {None},
   node: Nodes \cup {None}, ip: Pool \cup {None},
   replacedBy: Configs \cup {None}]

NoRow == [status |-> "none", source |-> "static", owner |-> None,
          node |-> None, ip |-> None, replacedBy |-> None]

AddOps    == {"assign", "enable"}                \* database first, agent second
RemoveOps == {"unassign", "disable", "revoke"}   \* agent first, database second
ConfigOps == AddOps \cup RemoveOps
Ops       == ConfigOps \cup {"none", "generate", "removeNode"}
Pcs       == {"idle", "load", "alloc", "insert", "write", "sent", "settled",
              "undo", "link", "retire"}

\* cfg is the row the request works on, user and node its arguments, ip the
\* address allocateIp picked, before the owner assignConfig would restore, and
\* orig the config being handed over when the request is a reassign.
Request ==
  [op: Ops, pc: Pcs, cfg: Configs \cup {None}, user: Users \cup {None},
   node: Nodes \cup {None}, ip: Pool \cup {None}, before: Users \cup {None},
   orig: Configs \cup {None}]

Idle == [op |-> "none", pc |-> "idle", cfg |-> None, user |-> None,
         node |-> None, ip |-> None, before |-> None, orig |-> None]

AgentCall == [op: {"add", "remove"}, cfg: Configs]

Managed(c)   == config[c].source = "managed"
Kind(op)     == IF op \in AddOps THEN "add" ELSE "remove"
Endpoint(c)  == <<config[c].node, config[c].ip>>

\* (mutant) enable forgets to look at the status.
FromUnchecked(op) == IF op = "assign" THEN {"unassigned"}
                     ELSE IF op = "enable" THEN {"disabled", "revoked"}
                     ELSE IF op = "revoke" THEN Live
                     ELSE {"active"}

\* (mutant) unassign takes any row that was ever handed out.
FromHandedOut(op) == IF op = "unassign" THEN {"active", "disabled", "revoked"}
                     ELSE FromUnchecked(op) \ {"revoked"}

\* The status each operation insists on when it loads the row.
From(op) == IF op = "assign" THEN {"unassigned"}
            ELSE IF op = "enable" THEN {"disabled"}
            ELSE IF op = "revoke" THEN Live
            ELSE {"active"}   \* unassign, disable

\* The rows a request, or a call nobody waits for any more, still works on.
Claims(r) == {req[r].cfg, req[r].orig} \ {None}
Claimed   == (UNION {Claims(r) : r \in Requests}) \cup {m.cfg : m \in stray}

\* Not in the code, which starts an operation at any time. Under Serial the
\* operators start none on a config while a request works on it, nor while a
\* call that timed out on it may still land.
MayStart(c) == Serial => c \notin Claimed

Become(r, q) == req' = [req EXCEPT ![r] = q]

\* Where a config operation goes once the row is loaded: the adding operations
\* write the row first, the removing ones call the agent first, and a static
\* config has no agent to call.
Loaded(q) ==
  [q EXCEPT !.pc = IF q.op \in AddOps THEN "write"
                   ELSE IF Managed(q.cfg) THEN "sent" ELSE "settled",
            !.before = IF q.op = "assign" THEN config[q.cfg].owner ELSE None]

\* What follows an operation that succeeded: reassignConfig goes on from revoke
\* to generate to assign to the link, generateConfigAction from generate to
\* assign when the form named a person.
Finished(q) ==
  IF q.op = "revoke" /\ q.orig # None        THEN [q EXCEPT !.op = "generate", !.pc = "alloc"]
  ELSE IF q.op = "generate" /\ q.user # None THEN [q EXCEPT !.op = "assign", !.pc = "load"]
  ELSE IF q.op = "assign" /\ q.orig # None   THEN [q EXCEPT !.pc = "link"]
  ELSE Idle

Init ==
  /\ config     = [c \in Configs |-> NoRow]
  /\ address    = [c \in Configs |-> "none"]
  /\ nodeStatus = [n \in Nodes |-> "active"]
  /\ peers      = {}
  /\ route      = [e \in Nodes \X Pool |-> None]
  /\ req        = [r \in Requests |-> Idle]
  /\ stray      = {}

-----------------------------------------------------------------------------
(* Starting a request *)

\* assign, unassign, disable, enable and revoke: load the row, check its status.
StartOp(r, op, c, u) ==
  /\ req[r].pc = "idle"
  /\ MayStart(c)
  /\ config[c].status \in From(op)
  /\ (u # None) <=> (op = "assign")
  /\ Become(r, Loaded([Idle EXCEPT !.op = op, !.cfg = c, !.user = u]))
  /\ UNCHANGED <<db, node, stray>>

\* generate, with a person to assign the spare to or without.
StartGenerate(r, n, u) ==
  /\ req[r].pc = "idle"
  /\ Become(r, [Idle EXCEPT !.op = "generate", !.pc = "alloc", !.node = n, !.user = u])
  /\ UNCHANGED <<db, node, stray>>

\* reassign: refuses a row without a node, then begins with the revoke.
StartReassign(r, c, u) ==
  /\ req[r].pc = "idle"
  /\ MayStart(c)
  /\ config[c].node # None
  /\ config[c].status \in From("revoke")
  /\ Become(r, Loaded([Idle EXCEPT !.op = "revoke", !.cfg = c, !.user = u,
                                   !.node = config[c].node, !.orig = c]))
  /\ UNCHANGED <<db, node, stray>>

\* removeNode: count the live configs of the node, refuse when there are any.
StartRemoveNode(r, n) ==
  /\ req[r].pc = "idle"
  /\ \A c \in Configs : config[c].node = n => config[c].status \notin Live
  /\ Become(r, [Idle EXCEPT !.op = "removeNode", !.pc = "retire", !.node = n])
  /\ UNCHANGED <<db, node, stray>>

\* uploadExternalConfig: one insert, no node and no address.
Upload(c) ==
  /\ config[c].status = "none"
  /\ config' = [config EXCEPT ![c] = [NoRow EXCEPT !.status = "unassigned"]]
  /\ UNCHANGED <<address, nodeStatus, node, req, stray>>

-----------------------------------------------------------------------------
(* The steps of a request *)

\* The load of an assign that follows a generate; a status that has moved on
\* ends the request with ConfigStateError.
Load(r) ==
  /\ req[r].pc = "load"
  /\ Become(r, IF config[req[r].cfg].status \in From(req[r].op)
               THEN Loaded(req[r]) ELSE Idle)
  /\ UNCHANGED <<db, node, stray>>

\* The rows the partial unique index (node_id, ip) WHERE released_at IS NULL covers.
Taken(n) == {config[c].ip : c \in {d \in Configs : address[d] = "live"
                                                   /\ config[d].node = n}}

\* (mutant) the scan of the pool runs one address past its end.
FreePastEnd(n) == (Pool \cup {ip + 1 : ip \in Pool}) \ Taken(n)

\* The addresses the scan of allocateIp does not skip.
Free(n) == Pool \ Taken(n)

\* allocateIp reads the live allocations and picks the lowest free address;
\* without one PoolExhaustedError ends the request.
Alloc(r) ==
  LET free == Free(req[r].node) IN
  /\ req[r].pc = "alloc"
  /\ \/ /\ free = {}
        /\ Become(r, Idle)
     \/ \E ip \in free :
          /\ \A other \in free : ip <= other
          /\ Become(r, [req[r] EXCEPT !.pc = "insert", !.ip = ip])
  /\ UNCHANGED <<db, node, stray>>

\* (mutant) the database has no such index.
NeverConflicts(q) == FALSE

\* The insert hits the partial unique index.
Conflicts(q) == q.ip \in Taken(q.node)

\* The transaction commits: the config row and its allocation appear together.
\* The unique index lets one of two requests with the same address through.
Insert(r) ==
  LET q == req[r] IN
  /\ q.pc = "insert"
  /\ ~ Conflicts(q)
  /\ \E c \in Configs :
       /\ config[c].status = "none"
       /\ config' = [config EXCEPT ![c] =
                       [NoRow EXCEPT !.status = "unassigned", !.source = "managed",
                                     !.node = q.node, !.ip = q.ip]]
       /\ address' = [address EXCEPT ![c] = "live"]
       /\ Become(r, Finished([q EXCEPT !.cfg = c, !.ip = None]))
  /\ UNCHANGED <<nodeStatus, node, stray>>

\* The index rejects the row and the transaction rolls back. The bound on the
\* number of rows is met here too, as one more failed insert.
InsertFails(r) ==
  /\ req[r].pc = "insert"
  /\ \/ Conflicts(req[r])
     \/ \A c \in Configs : config[c].status # "none"
  /\ Become(r, Idle)
  /\ UNCHANGED <<db, node, stray>>

\* The unconditional update of an adding operation, after which the call to the
\* agent is on its way (there is none for a static config).
Write(r) ==
  LET q == req[r] IN
  /\ q.pc = "write"
  /\ config' = [config EXCEPT ![q.cfg] =
                  IF q.op = "assign"
                  THEN [@ EXCEPT !.status = "active", !.owner = q.user]
                  ELSE [@ EXCEPT !.status = "active"]]
  /\ Become(r, IF Managed(q.cfg) THEN [q EXCEPT !.pc = "sent"] ELSE Finished(q))
  /\ UNCHANGED <<address, nodeStatus, node, stray>>

\* The answer to addPeer arrives: the operation is over.
Confirm(r) ==
  /\ req[r].pc = "settled"
  /\ req[r].op \in AddOps
  /\ Become(r, Finished(req[r]))
  /\ UNCHANGED <<db, node, stray>>

\* (mutant) disable clears the owner as unassign does.
CommittedOwnerless(op, row) ==
  IF op = "unassign" THEN [row EXCEPT !.status = "unassigned", !.owner = None]
  ELSE IF op = "disable" THEN [row EXCEPT !.status = "disabled", !.owner = None]
  ELSE [row EXCEPT !.status = "revoked"]   \* revoke

\* The columns each removing operation sets.
Committed(op, row) ==
  IF op = "unassign" THEN [row EXCEPT !.status = "unassigned", !.owner = None]
  ELSE IF op = "disable" THEN [row EXCEPT !.status = "disabled"]
  ELSE [row EXCEPT !.status = "revoked"]   \* revoke

\* (mutants) disable returns the address too; revoke forgets to.
ReleasesOnDisable(op) == op \in {"disable", "revoke"}
ReleasesNever(op)     == FALSE

\* Only revoke calls releaseIp.
Releases(op) == op = "revoke"

\* The answer to removePeer arrives: the row is written, unconditionally.
Commit(r) ==
  LET q == req[r] IN
  /\ q.pc = "settled"
  /\ q.op \in RemoveOps
  /\ config' = [config EXCEPT ![q.cfg] = Committed(q.op, @)]
  /\ address' = [address EXCEPT ![q.cfg] =
                   IF Releases(q.op) /\ @ = "live" THEN "released" ELSE @]
  /\ Become(r, Finished(q))
  /\ UNCHANGED <<nodeStatus, node, stray>>

\* (mutant) the catch block restores the status alone.
RestoredStatus(q, row) ==
  [row EXCEPT !.status = IF q.op = "assign" THEN "unassigned" ELSE "disabled"]

\* What the catch blocks write back.
Restored(q, row) ==
  IF q.op = "assign" THEN [row EXCEPT !.status = "unassigned", !.owner = q.before]
                     ELSE [row EXCEPT !.status = "disabled"]

\* The catch block of an adding operation puts the row back and rethrows.
Undo(r) ==
  LET q == req[r] IN
  /\ q.pc = "undo"
  /\ config' = [config EXCEPT ![q.cfg] = Restored(q, @)]
  /\ Become(r, Idle)
  /\ UNCHANGED <<address, nodeStatus, node, stray>>

\* The last write of a reassign: the old row points at its replacement.
Link(r) ==
  LET q == req[r] IN
  /\ q.pc = "link"
  /\ config' = [config EXCEPT ![q.orig].replacedBy = q.cfg]
  /\ Become(r, Idle)
  /\ UNCHANGED <<address, nodeStatus, node, stray>>

\* The update of removeNode.
RetireNode(r) ==
  /\ req[r].pc = "retire"
  /\ nodeStatus' = [nodeStatus EXCEPT ![req[r].node] = "disabled"]
  /\ Become(r, Idle)
  /\ UNCHANGED <<config, address, node, stray>>

-----------------------------------------------------------------------------
(* The agent and the kernel's WireGuard interface *)

\* addPeer replaces the key's allowed IPs; an allowed IP belongs to one peer of
\* an interface, so the kernel takes it from whichever peer held it.
AddPeer(c) ==
  /\ peers' = peers \cup {c}
  /\ route' = [route EXCEPT ![Endpoint(c)] = c]

\* removePeer drops the key and the allowed IPs it holds; absent keys are fine.
RemovePeer(c) ==
  /\ peers' = peers \ {c}
  /\ route' = [route EXCEPT ![Endpoint(c)] = IF @ = c THEN None ELSE @]

Apply(kind, c) ==
  \/ kind = "add" /\ AddPeer(c)
  \/ kind = "remove" /\ RemovePeer(c)

AgentApplies(r) ==
  /\ req[r].pc = "sent"
  /\ Apply(Kind(req[r].op), req[r].cfg)
  /\ Become(r, [req[r] EXCEPT !.pc = "settled"])
  /\ UNCHANGED <<db, stray>>

\* (mutant) a removing operation swallows the error and goes on.
FailedSilently(q) == [q EXCEPT !.pc = IF q.op \in AddOps THEN "undo" ELSE "settled"]

\* What the caller does with an AgentError: an adding operation goes to its
\* catch block, a removing one throws.
Failed(q) == IF q.op \in AddOps THEN [q EXCEPT !.pc = "undo"] ELSE Idle

\* The agent is unreachable, rejects the token or answers 500: nothing changed.
AgentRefuses(r) ==
  /\ "refuse" \in Faults
  /\ req[r].pc = "sent"
  /\ Become(r, Failed(req[r]))
  /\ UNCHANGED <<db, node, stray>>

\* The call of a request that no longer waits for it may stay under way.
Orphan(r) ==
  IF req[r].pc = "sent"
  THEN stray \cup {[op |-> Kind(req[r].op), cfg |-> req[r].cfg]}
  ELSE stray

\* (mutant) agentFetch passes no signal: an unanswered call is waited for.
TimeoutMissing(r) ==
  /\ {"timeout", "late"} \subseteq Faults
  /\ req[r].pc = "settled" /\ Managed(req[r].cfg)
  /\ Become(r, Failed(req[r]))
  /\ UNCHANGED <<db, node, stray>>

\* The 8 s signal of agentFetch fires, or the connection breaks: the caller sees
\* the same error whether the agent has applied the call, will, or never does.
Timeout(r) ==
  /\ "timeout" \in Faults
  /\ \/ req[r].pc = "sent"
     \/ req[r].pc = "settled" /\ Managed(req[r].cfg) /\ "late" \in Faults
  /\ stray' = IF "late" \in Faults THEN Orphan(r) ELSE stray
  /\ Become(r, Failed(req[r]))
  /\ UNCHANGED <<db, node>>

\* The request dies between two of its steps.
Abandon(r) ==
  /\ "abandon" \in Faults
  /\ req[r].pc # "idle"
  /\ stray' = Orphan(r)
  /\ Become(r, Idle)
  /\ UNCHANGED <<db, node>>

\* A call nobody waits for reaches the agent, or never does.
StrayLands(m) ==
  /\ m \in stray
  /\ Apply(m.op, m.cfg)
  /\ stray' = stray \ {m}
  /\ UNCHANGED <<db, req>>

StrayLost(m) ==
  /\ m \in stray
  /\ stray' = stray \ {m}
  /\ UNCHANGED <<db, node, req>>

\* The node's interface comes up again from a file that lists no peers.
Reboot(n) ==
  /\ "reboot" \in Faults
  /\ peers' = {c \in peers : config[c].node # n}
  /\ route' = [e \in DOMAIN route |-> IF e[1] = n THEN None ELSE route[e]]
  /\ UNCHANGED <<db, req, stray>>

-----------------------------------------------------------------------------
Start(r) ==
  \/ \E op \in ConfigOps, c \in Configs, u \in Users \cup {None} : StartOp(r, op, c, u)
  \/ \E n \in Nodes, u \in Users \cup {None} : StartGenerate(r, n, u)
  \/ \E c \in Configs, u \in Users : StartReassign(r, c, u)
  \/ \E n \in Nodes : StartRemoveNode(r, n)

\* The steps a request takes by itself once it has started.
Advance(r) ==
  \/ Load(r) \/ Alloc(r) \/ Insert(r) \/ InsertFails(r) \/ Write(r)
  \/ Confirm(r) \/ Commit(r) \/ Undo(r) \/ Link(r) \/ RetireNode(r) \/ Timeout(r)

Next ==
  \/ \E r \in Requests : \/ Start(r) \/ Advance(r) \/ Abandon(r)
                         \/ AgentApplies(r) \/ AgentRefuses(r)
  \/ \E c \in Configs : Upload(c)
  \/ \E m \in stray : StrayLands(m) \/ StrayLost(m)
  \/ \E n \in Nodes : Reboot(n)

Spec == Init /\ [][Next]_vars

\* A started request keeps running: its database calls return, and agentFetch
\* gives up after 8 s. Nothing is assumed of the agents or of the people.
FairSpec == Spec /\ \A r \in Requests : WF_vars(Advance(r))

-----------------------------------------------------------------------------
(* Properties *)

\* Every variable keeps its shape.
TypeOK ==
  /\ config \in [Configs -> ConfigRow]
  /\ address \in [Configs -> {"none", "live", "released"}]
  /\ nodeStatus \in [Nodes -> {"active", "disabled"}]
  /\ peers \in SUBSET Configs
  /\ route \in [Nodes \X Pool -> Configs \cup {None}]
  /\ req \in [Requests -> Request]
  /\ stray \in SUBSET AgentCall

\* No two live allocations of a node hold the same address, however the
\* generates that picked it interleave (ipam.ts allocateIp and the partial
\* unique index behind it).
UniqueLiveAddress ==
  \A c, d \in Configs :
    /\ c # d
    /\ address[c] = "live" /\ address[d] = "live"
    /\ config[c].node = config[d].node
    => config[c].ip # config[d].ip

\* A spare has no owner: whatever assigns, unassigns and undone assigns race
\* for a row, one that reads unassigned never names a person (lifecycle.ts
\* unassignConfig and the catch block of assignConfig).
SpareHasNoOwner ==
  \A c \in Configs : config[c].status = "unassigned" => config[c].owner = None

\* A hand-over is complete when it is visible: once a row points at its
\* replacement, its own address is released and the replacement is another key
\* with an allocation of its own on the same node (lifecycle.ts reassignConfig).
HandOverIsFresh ==
  \A c, d \in Configs :
    config[c].replacedBy = d =>
      /\ address[c] = "released"
      /\ c # d
      /\ config[d].node = config[c].node
      /\ address[d] # "none"

\* A tunnel is live only for an active config with an owner and a reserved
\* address: the agent is called before the row says the tunnel is down and
\* after it says the tunnel is up, also when the call is refused or a request
\* dies half-way (lifecycle.ts assignConfig, disableConfig, revokeConfig).
\* Holds while operators work on a config one at a time (Serial) and a call
\* that timed out is lost.
TunnelIsAccounted ==
  \A c \in peers :
    config[c].status = "active" /\ config[c].owner # None /\ address[c] = "live"

\* A key on a node holds its own address: no other key has taken the allowed
\* IP from it, and the address is still reserved for it, although calls land
\* late and addresses go from one config to the next (wireguard.go addPeer,
\* lifecycle.ts revokeConfig). Holds while operators work on a config one at a
\* time and wait for a late call of that config (Serial), which nothing in the
\* code makes them do.
PeerHoldsItsAddress ==
  \A c \in peers : address[c] = "live" /\ route[Endpoint(c)] = c

\* An address is reserved exactly as long as its config is not revoked: kept
\* while disabled, kept by a spare, given back once (lifecycle.ts revokeConfig,
\* ipam.ts releaseIp).
AddressFollowsStatus ==
  \A c \in Configs :
    Managed(c) => (address[c] = "live" <=> config[c].status \in Live)

\* A live config always maps to a named person (SPEC section 2), also after it
\* was switched off and on again (lifecycle.ts disableConfig, enableConfig).
NamedOwner ==
  \A c \in Configs : config[c].status = "active" => config[c].owner # None

\* Revoke is terminal (SPEC section 5): no step brings a revoked row back.
RevokeIsTerminal ==
  [][\A c \in Configs : config[c].status = "revoked" => config'[c].status = "revoked"]_vars

\* A row that points at its replacement stays revoked (SPEC section 8: such a
\* row reads as a hand-over).
ReplacedIsRevoked ==
  \A c \in Configs : config[c].replacedBy # None => config[c].status = "revoked"

\* A node is removed only while it holds no live config (nodes.ts removeNode).
RemovedNodeIsEmpty ==
  [][\A n \in Nodes : nodeStatus'[n] # nodeStatus[n] =>
       \A c \in Configs : config[c].node = n => config[c].status \notin Live]_vars

\* A revoked config has no peer on its node (lifecycle.ts revokeConfig: terminal,
\* agent first). The catch block of assignConfig says unassigned while its call
\* may still land, and a revoke waits for no such call.
RevokedIsDown ==
  \A c \in Configs : config[c].status = "revoked" => c \notin peers

\* Every request comes to an end, although no agent ever has to answer.
RequestsEnd == \A r \in Requests : req[r].pc # "idle" ~> req[r].pc = "idle"

=============================================================================
