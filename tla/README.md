# cloud-vpn in TLA+

A formal model of the control plane of cloud-vpn and of the node agents it drives. The models are
translated from the TypeScript under `src/src/server`, the Go under `src/agent` and the Prisma
schema; `SPEC.md` of the repository is used only for what it promises. `PROJECT.json` maps every
definition to the lines it stands for.

## The system

| Component | State it keeps | Operations | Talks to |
|---|---|---|---|
| Config lifecycle, `server/configs/lifecycle.ts` | `configs` rows | generate, assign, unassign, disable, enable, revoke, reassign | Postgres (one await per query), the agent of the row's node |
| Address allocator, `server/ipam.ts` | `ip_allocations` rows | allocate, release, pool arithmetic | called in the transactions of generate and revoke; enrollment asks `poolContains` |
| External vault, `server/external.ts` | static `configs` rows | upload | the lifecycle runs them without an agent |
| Agent client, `api/client.ts` | none | addPeer, removePeer, listPeers, health; 8 s timeout | HTTPS to the agents |
| Node agent, `agent/*.go` | the kernel's WireGuard peers | add, remove, list, health; add and remove are idempotent | the kernel |
| Nodes, `server/nodes.ts` | `nodes` rows | probe, remove (soft) | Postgres, agent |
| Enrollment, `server/enrollment.ts`, `api/nodes/enroll/route.ts` | `enrollment_tokens`, `nodes` | mint, enroll | Postgres, agent |
| People, `server/users/*` | `users` mirror, a throttled list | sync, suspend, reactivate, create local person | Clerk, Postgres, lifecycle (disable) |
| Self-service, `server/me.ts`, `app/vpn/me` | none | list and retrieve one's own configs; a first visit mirrors the person | Clerk, Postgres |
| Audit, `server/audit.ts` | `audit_log` | append, count | everything |
| Roles, `auth/roles.ts`, `server/staff.ts` | `staff` mirror | the gate in front of every action | Clerk |
| Usage, `server/usage.ts`, `lib/connection.ts` | none | read the nodes' counters | agents |
| Nodes page, `app/vpn/dashboard/nodes`, `features/nodes` | the rendered rows, the Add node dialogs, the removal to be confirmed in the browser | ask for an install command, remove a node | enrollment, nodes |
| Dashboard, `app/vpn/dashboard`, `features/*` | pages, open dialogs, pending items, toasts in the browser | menus and dialogs that call the server actions | all of the above |

What makes it hard:

- **Interleaving.** A server action is a chain of awaits. It checks a row, calls an agent for up to
  8 s and then writes the row *by id, whatever it says by then*. Nothing holds the row in between.
- **Two systems of record.** The database says which tunnels should be up, the kernel of each node
  which are. Adding operations write the database first, removing ones call the agent first, and a
  catch block undoes the former.
- **Unreliable calls.** After a timeout the caller does not know whether the agent has applied the
  call, will apply it, or never got it; its late arrival meets later operations.
- **Partial failure and restarts.** A reassign is four operations, an enrollment two writes, a
  suspension a ban, an update and one agent call per tunnel. The process may stop between any two.
- **Stale views.** A page shows rows as they were when it was rendered, a cached list of people is
  up to 15 s old, a dialog or an Undo toast outlives both, and Clerk changes by itself.
- **Scarce, reused addresses.** An address returned by a revoke goes to another key, and the kernel
  lets one peer of an interface hold an address at a time.

What makes each component correct: *lifecycle* - statuses, owners, addresses and peers agree, and
revoke is final; *allocator* - lowest free client address, none twice, none refused while one is
free; *agent* - a peer is there exactly for the last call that arrived; *removal* - no live config
stays on a removed node; *enrollment* - one node per token; *people* - a suspended person has no
tunnel, or the answer says which ones are left; *audit* - every retrieval is on record when it is
counted; *roles* - each operation only for its roles; *dashboard* and *nodes page* - what is offered can
be done, unless the page could not know better, and what is pending ends.

## Modules

| Module | Models |
|---|---|
| `Lifecycle` | the config operations, upload, address allocation, node removal, the agents and their peers, all failures |
| `ConfigContract` | what `Lifecycle` promises: the table of SPEC section 5 with one atomic step per row of the table |
| `LifecycleContract` | `Lifecycle` mapped to `ConfigContract` |
| `LifecycleProofs` | theorems about `Lifecycle` |
| `Ipam` | the address arithmetic of `ipam.ts`, with JavaScript's signed `&` |
| `IpamProofs` | theorems about `Ipam` |
| `Enrollment` | minting and using enrollment tokens, with restarts |
| `EnrollmentProofs` | theorems about `Enrollment` |
| `Access` | people in Clerk and in the mirror, syncs, first visits, suspension, reactivation, people without a login, beside the operations on one config |
| `AccessProofs` | theorems about `Access` |
| `Dashboard` | one person's browser, the pages and menus, the calls they make, roles, what others change meanwhile |
| `DashboardProofs` | theorems about `Dashboard` |
| `NodesPage` | the nodes page in a browser: its dialogs and menus, the calls they make, and what changes behind it |
| `NodesPageProofs` | theorems about `NodesPage` |
| `MCLifecycle`, `MCIpam`, `MCEnrollment`, `MCAccess`, `MCDashboard`, `MCNodesPage` | symmetry sets, names and small address spaces for TLC |

`Lifecycle` has every operation on a config. `Access` has those on one existing config again, cut at the
same awaits but without addresses, owners' keys and chains of operations, beside what is done to people,
because a suspension overlaps them. `Dashboard` takes both as one step and overlaps the browser with the
rest of the world, as `NodesPage` does with enrollment and removal.

### Lifecycle

`config`, `address` and `nodeStatus` are the tables `configs`, `ip_allocations` and `nodes`. `peers`
and `route` are the kernel: which keys are peers of their node's interface, and which peer an allowed
IP belongs to; adding a peer takes its address from whichever peer held it, as the kernel does. `req`
is one record per server action in progress, with the operation, the place it stands at (`pc`) and
the locals it carries across awaits. `stray` is the set of agent calls whose caller has gone.

An action is what runs between two awaits:

| pc | Action | Code |
|---|---|---|
| idle | `StartOp`, `StartGenerate`, `StartReassign`, `StartRemoveNode` | load the row and check its status (lifecycle.ts:79-253), count a node's live configs (nodes.ts:94) |
| load | `Load` | assign's own load, after a generate |
| alloc, insert | `Alloc`, `Insert`, `InsertFails` | generate's transaction: the read, and the insert under the partial unique index |
| write | `Write` | the update before an addPeer |
| sent | `AgentApplies`, `AgentRefuses`, `Timeout` | the call to the agent |
| settled | `Confirm`, `Commit`, `Timeout` | the answer arrives (the removing operations write now), or does not |
| undo | `Undo` | the catch blocks of assign and enable |
| link, retire | `Link`, `RetireNode` | the last write of reassign and of removeNode |

`Finished` chains the operations of reassign (revoke, generate, assign, link) and of
`generateConfigAction` (generate, assign). `Faults` selects what may go wrong:

| Fault | What happens |
|---|---|
| `refuse` | an agent answers with an error and has changed nothing |
| `timeout` | a caller gives up; its call is lost, unless `late` is there too |
| `late` | a call given up on stays in `stray`, and lands or is lost later; its answer may also come too late |
| `abandon` | a request dies where it stands; a call it had under way stays in `stray` |
| `reboot` | a node's kernel forgets its peers |

`Serial` is an assumption about the *operators*, not about the code, which starts an operation at any
time (`MayStart`): they start none on a config while a request works on it, nor while a call on it that
nobody waits for any more may still land. Properties of the runs with `Serial` say no more than that.
`RevokeRace` and `LateRevoke` show what the code does without it: an overlap, and a call that lands after
a revoke.

Abstractions: a key is identified with its config; `Pool` is the set of client addresses, the same on
every node, and its arithmetic is in `Ipam` (so `Lifecycle` speaks of pools below 128.0.0.0, where
that arithmetic holds); an unusable static file is not uploaded; audit rows and staff rows are not
state that the lifecycle reads back, and a failure to write one after an operation is an abandoned
request; identical calls in flight on one config are one member of `stray`. The order of a reassign's
own load and the load of the revoke it calls does not matter, because it keeps only the node of the
row, which never changes.

### Ipam

One node's pool and the live allocations on it, addresses as numbers of `Width` bits. `ToInt32` is
what JavaScript's `&` returns, so the bounds of a pool in the upper half are negative, while the
addresses read back from the rows (`ipToInt`, with `>>> 0`) never are. `Allocate` is the scan and the
insert under the index, `Release` is `releaseIp`. Powers of two are a recursive function, so that the
module can be proved about.

### Enrollment

`token` and `node` are the tables, `req` the enrollments in progress and the answer of the last one of
each. The steps are the awaits of `enrollNode`: find the token (`Begin`), read it again and check the
input (`Check`), look up the name and the pool (`CheckName`), probe the agent (`Probe`), insert the
node (`Create`), mark the token (`Mark`). Input a node may get wrong, and a probe that fails, are
choices. `Abandon` is a restart of the control plane; `Remove` is removeNode as far as enrollment sees
it. `via` in a node row is history: the token that inserted it.

### Access

`clerk` is what Clerk says of a person, `row` the status in `users`, `config` status and owner of each
config, `req` the calls in progress. One action runs between two awaits:

| op | pc: action | Code |
|---|---|---|
| suspend | idle: `StartSuspend`; clerk: `SetClerkBan`; mark: `Mark`; stop: `Stop`, `Answers`; call and commit as below | suspendUser: load with the active configs, ban (a 404 is not an error), update, one disableConfig per tunnel, audit and answer |
| reactivate | idle: `StartReactivate`; clerk: `SetClerkBan`; mark: `Mark` | reactivateUser |
| assign, enable | idle: `StartAdd`; write: `Write`; call: `AgentApplies`, `AgentRefuses`, `Timeout`; undo: `Undo` | load and check, update, addPeer, catch |
| unassign, disable, revoke | idle: `StartRemove`; call: `AgentApplies`, `AgentRefuses`, `Timeout`; commit: `Commit` | load and check, removePeer, update |
| sync | idle: `StartSync`; match: `Match`; update: `Update`, `EndSync` | syncUsersFromClerk and mirrorPeople: list, findMany and comparison, one update per person that differs, createMany |
| visit | idle: `Visit`; match: `Fetch`; update: `Upsert` | resolveCurrentUser and mirrorPerson |
| create | idle: `StartCreate`; insert: `Insert` | createLocalPerson |

`peers` is the kernel and `stray` the calls whose caller has gone, as in `Lifecycle`. Nothing keeps two
requests from one config here: there is no `Serial`. `ClerkChanges` is an admin in Clerk's own dashboard.
`Faults` selects `refuse`, `timeout` (the call may land at once, later or never), `clerk` (a call to Clerk
fails) and `abandon`. One field is history, kept for a property and read by no guard: `given` of a
suspension, the configs on which a call that switches on was under way, or had left something behind,
when the list was read, or was started since (`Raising`, `StartAdd`). A sync is one page of the list; the
audit writes and the throttle are left out (the latter is in `Dashboard`). Configs are managed ones that
are there from the start; issuing them is the matter of `Lifecycle`.

### Dashboard

`server` is the database, Clerk and the cached list; `claims` the role in the session; `page`, `dialog`,
`busy`, `undo` what the browser shows: the rendered rows, options and people, the dialog open over them,
the rows with a pending transition, the Undo toasts; `calls` is the queue of server actions.

| Actions | Code |
|---|---|
| `Open` | a page is rendered for its role: layout, `ConfigsPage`, `UsersPage`, `UserDetailPage`, `MePage`, each with the list of Clerk users as fresh, cached or unreachable, and mirrored or not; also a reload |
| `Focus` | RefreshOnFocus: the list of people is rendered again under whatever is open |
| `Press`, `OpenConfig`, `Cancel`, `Confirm`, `ConfirmAssign`, `Undo`, `ToastEnds` | ConfigRowActions |
| `OpenPerson`, `ConfirmSuspend`, `Reactivate` | UserRowActions |
| `OpenGenerate`, `Submit` | GenerateConfigDialog with AssigneeField |
| `Retrieve`, `RetrieveOwn` | useConfigFile, ConfigCard |
| `Succeed`, `Fail`, `DeliverFile`, `DeliverOwn` | the server action at the head of the queue, with its role and status checks, its effect, and the refresh of the page that `revalidatePath` sends along |
| `OtherConfig`, `OtherPerson`, `OtherClerk`, `OtherSync`, `Demote` | other staff, Clerk's dashboard, another page that syncs, a role taken away |

Next.js sends the server actions of a page one after the other, hence one queue. Calls of a page that
was left stay in it and may still be served: more behaviours than the browser has. `clean` in a call or
a dialog and `touched` are history: they mark what somebody else, Clerk or an Undo has changed since the
page was rendered, and what the page could not know; no guard reads them. `Settled` is the pending mark
that an answer takes back. A suspension may leave tunnels it could not stop (`kept`) and still refreshes
the page; a call may fail for its agent, a full pool, a node that is gone, or Clerk (`MayFail`; Clerk is
called before anything is written), and `Left` says what it may leave behind: the person it created, and
the spare if only the assigning failed. A person is one label,
different from everybody else's; two of one name are the matter of `Access`. Static configs, the
upload form, the audit and overview pages and what the file dialog shows are left out.

### NodesPage

`node` and `token` are the tables, as far as this page tells rows apart: the status of the node of a
name and whether it carries a live config, the name a token is for. (`nodes.status` may also be
`degraded`, which no code writes.) `page` is what was rendered, with its role; `dialog` the two Add
node dialogs, by the title and in the empty state; `confirming` and `removing` the state of the rows'
menus; `calls` the queue of server actions.

| Actions | Code |
|---|---|
| `OpenDialog`, `CloseDialog`, `Submit` | EnrollNodeDialog |
| `Choose`, `Dismiss`, `Confirm` | NodeRowActions |
| `Reload` | NodesPage, opened or reloaded |
| `Minted`, `Removed`, `Fail` | createEnrollmentTokenAction and removeNodeAction, with createEnrollmentToken and removeNode as one step each, and the page that `revalidatePath` sends along |
| `Register`, `Issue`, `OtherRemoves`, `Demote` | an enrollment, a config issued or the last one revoked, another admin, a role taken away |

What the page no longer has once it is rendered again loses its state (`Parts`, `Refresh`): the dialog
of the empty state with the first row, everything with the admin role. A call whose part is gone is
still served and answers nobody (`from` is `"gone"`). A request that never reaches the server, whose
promise is rejected, is left out: there the page gives way to the framework's error page.

## Runs

All bounds are in the configs. Passing runs:

| Run | Shows | Bounds |
|---|---|---|
| `LifecycleSerial` | If operators work on a config one at a time (`Serial`), with refusals, timeouts, dying requests, their calls landing late, and reboots: a tunnel is up only for an active config with an owner and a reserved address (`TunnelIsAccounted`), the address of a peer is its own (`PeerHoldsItsAddress`) and reserved until the revoke (`AddressFollowsStatus`), a live config has an owner (`NamedOwner`), a row with a replacement is revoked (`ReplacedIsRevoked`), revoke is final (`RevokeIsTerminal`), every step is a step of the lifecycle table (`ContractSpec`), and every request ends (`RequestsEnd`) | 2 rows, 1 address, 2 people, 2 requests; 204,000 states |
| `LifecycleRaces` | With any overlap: no address is live twice (`UniqueLiveAddress`), a spare has no owner (`SpareHasNoOwner`), a hand-over points at a fresh key (`HandOverIsFresh`) | 2 rows, 2 addresses, 2 requests |
| `Ipam` | Only client addresses are handed out (`HandsOutHosts`), the lowest first (`LowestFree`); below the sign bit none is refused while one is free (`LowPoolsFill`) and interfaces are judged rightly (`LowPoolsAccept`) | every base of a 6-bit space, pools of 4 and 8, 6 configs |
| `Enrollment` | One node per token (`OneNodePerToken`), named by the token (`UsedTokenNamesItsNode`), also for the node that got the answer (`WinnerKeepsItsToken`), across overlaps and restarts; a node that was inserted gets its token used unless a restart came between (`RegistrationIsRecorded`) | 2 tokens, 2 names, 2 nodes, 2 requests |
| `Access` | A suspension's answer names every tunnel left on, but those on which somebody else was at work switching on (`SuspensionNamesWhatStaysOn`); the mirror comes to agree with Clerk (`MirrorConverges`) | 2 people, one without a login, 2 admins, 1 config, 2 requests, all faults, `Removals` without revoke; 1.2 million states |
| `Dashboard` | What an admin, or the portal, is offered is refused only if the page could not know better (`RefusedOnlyWhenOvertaken`), a config goes to somebody active who exists (`AssignedToActive`), and once the session is without the admin role its pages give nobody a config and no foreign key (`WithoutRoleOnlySwitches`); no deadlock | 2 people, one without a login, 1 config, `MaxPending` = 2, `Detailed` = one person; 911,000 states |
| `NodesPage` | One page has one removal of a node under way at most, with its item disabled for exactly that long (`OneRemovalAtATime`), and it ends (`RemovalsEnd`); after a reload the same removal can be asked for again | 2 names, 1 token, `MaxPending` = 3; 480,000 states |

Why the bounds are enough: one address and two rows suffice for an address to be returned and reused
while something of its former holder is still under way, and for a reassign to find its replacement. The
races are between two requests: each request touches one row between its check and its write, so a third
adds no new pair. A row is used once, so rows also bound the number of generates; `InsertFails` is what
meets that bound. A pool of four addresses has a single client address, one of eight has five, and six
configs fill both. An enrollment's races are between the two requests that present one token, or one
name. In `Access` a suspension treats each tunnel alone, so one config is enough for it to be listed,
missed, handed on or refused; two admins, one of them with a row, let one of them be suspended by the
other. `Removals` leaves revokes out of that run (not of the proofs, which hold for any `Removals`): they
work like a disable, in the same three steps, but from any status and for good, and they add half as many states
again. `MaxPending` bounds the calls that wait plus the steps others take: two waiting calls meet each
other, or one call meets one step of somebody else, before, between and after it; `Detailed` bounds whose
detail page is opened, and the person with the login has every menu the other has. `NodesPage` has one
more pending call or outside step than that, for a call that waits behind one that is answered while the
world changes; two names let one row's dialog be open while another row appears.

Runs that find a promise of the repository broken (quotes and lines in `PROJECT.json`):

| Run | What happens |
|---|---|
| `RevokeRace` | Assign or enable loads the row, a revoke completes, the first writes `active` over `revoked`. |
| `LateRevoke` | The add-peer call of an assign times out, the row goes back to `unassigned`, a revoke takes it from there, and then the call lands: a revoked config with a live peer. |
| `RemoveNodeRace` | A generate between the count and the update of removeNode: a live config on a removed node. |
| `SuspendRace` | An assign or enable that overlaps a suspension: nothing is reported as failed, and the suspended person has a live tunnel. No fault is needed. |
| `IpamUpper` | In a pool at or above 128.0.0.0 (172.16/12, 192.168/16) the scan offers its first address for ever. |

Met while modelling, and told without a run, most of them by one line of code:

- The add-peer call of `LateRevoke` need not come late: if the agent has applied it by the time the caller
  gives up, the row says `unassigned` and the peer is there, although SPEC section 5 says a spare has no
  node state.
- disableConfig asks for no owner, so a suspension switches off a config of its list that was returned and
  given to somebody else meanwhile (users/index.ts:120, against "every live tunnel they hold").
- Two creations of local people can both look for a name, and then both insert it: no index makes names
  unique, and the second "Ahmed" that users/index.ts:157 refuses is there. A first visit does not look.
- A page without nodes has an Add node dialog in its empty state. If a node enrolls before that dialog
  is submitted, the answer brings a page without it, and the only copy of the install command is gone
  (enroll-node-dialog.tsx:147 promises one). Nothing tells an open page of a node that enrolls, although
  the dialog says it appears when it finishes (enroll-node-dialog.tsx:113).
- The dialog that confirms the removal of a node blocks it by the configs the page was rendered with; what
  was issued since is only found by removeNode, which refuses.
- The Add node form can be submitted twice, and an answer that comes after the dialog was closed greets
  whoever opens it next with the command for the node asked for before.
- An unassign that overlaps another operation can leave an active row without an owner (`NamedOwner`
  fails under `Serial = FALSE`).
- `poolContains` refuses every interface of an upper-half pool (`AcceptsItsOwn`); a `/24` has 253 client
  addresses, not 254 (SPEC section 8).
- Of two generates that pick one address the index rejects one, and nobody retries (ipam.ts:37 says the
  caller does).
- A node that lost its peers gets none back: no code adds the peers of active configs again (SPEC:310
  says a rebuilt node re-provisions from records).
- A removed node keeps its unique name, although the 409 says to remove it first; two enrollments that
  race for one name end in a 500, not a 409.
- unassignConfig's comment says the caller is warned when the key was retrieved; the count only goes
  into the audit row.
- The menu offers ops *Assign to...*, with an empty list of people or not, and *Return to pool*, which
  the server refuses them (row-actions.tsx:86, 89).
- A suspended person without a login who still has a live tunnel is flagged on the Users page with "stop
  them from the row menu" (columns.tsx:95), but that menu offers them only *Reactivate*
  (row-actions.tsx:52); the tunnel has to be stopped on the configs page.
- Somebody mirrored by a first visit reads "Not in Clerk" on pages that use the list cached before it.
- The label of somebody without a name, `@kim`, typed when they are no longer among the options creates
  a new person of that name, because the check for duplicates compares names only.
- The file of a second config generated from one dialog can show the first one's file under its label.

**Fairness.** `Lifecycle!FairSpec` (in `LifecycleSerial`) is weak fairness of `Advance(r)`: a server
action that has started keeps running, database calls return and `AbortSignal.timeout` fires. Agents owe
nothing, nor do people. `Enrollment!FairSpec` is weak fairness of `Step(r)`, where the probe has the same
timeout. `MirrorConverges` carries its premises itself: Clerk stops changing and nobody is suspended or
reactivated any more, and some sync ends again and again, as it does while somebody keeps opening the
dashboard and Clerk answers. `Dashboard` promises nothing that must happen. `NodesPage!Spec` is weak
fairness of `Serve`: the server action at the head of the queue is answered, if only with an error,
because each of its awaits (the session, the database, no agent) returns or throws. People, nodes that
enroll and other admins owe nothing. Symmetry is used only in runs without liveness.

## Proofs

Proved with TLAPS for any sets of rows, nodes, people, addresses, requests and any faults.
`Serial` is the assumption about operators explained above, and "no late calls" (`"late" \notin Faults`)
says that a call its caller has given up on is lost. The code enforces neither; the theorems that assume
them say what they are needed for, and the violation runs that they are needed.

| Theorem | Assumes | Says |
|---|---|---|
| `LifecycleProofs!TypeCorrect` | - | `TypeOK` |
| `LifecycleProofs!RacesAreSafe` | - | `UniqueLiveAddress`, `SpareHasNoOwner` |
| `LifecycleProofs!SerialIsSafe` | `Serial` | `PeerHoldsItsAddress`, `AddressFollowsStatus`, `NamedOwner`, `ReplacedIsRevoked` |
| `LifecycleProofs!RevokedStaysDown` | `Serial`, no late calls | `RevokedIsDown` |
| `LifecycleProofs!RevokeIsFinal` | `Serial` | `RevokeIsTerminal` |
| `LifecycleProofs!TunnelsAreAccounted` | `Serial`, no late calls | `TunnelIsAccounted` |
| `LifecycleProofs!Implements` | `Serial`, no late calls | `Spec => ContractSpec` |
| `LifecycleProofs!HandsOver` | - | `HandOverIsFresh` |
| `IpamProofs!TypeCorrect` | - | `TypeOK` |
| `IpamProofs!OnlyHosts` | - | `HandsOutHosts` |
| `IpamProofs!TakesLowest` | - | `LowestFree` |
| `IpamProofs!FillsLowPools` | - | `LowPoolsFill` |
| `IpamProofs!AcceptsInLowPools` | - | `LowPoolsAccept` |
| `EnrollmentProofs!TypeCorrect` | - | `TypeOK` |
| `EnrollmentProofs!SingleUse` | - | `OneNodePerToken`, `UsedTokenNamesItsNode`, `WinnerKeepsItsToken` |
| `AccessProofs!TypeCorrect` | - | `TypeOK` |
| `AccessProofs!SuspensionIsHonest` | - | `SuspensionNamesWhatStaysOn` |
| `DashboardProofs!TypeCorrect` | - | `TypeOK` |
| `DashboardProofs!RoleRevoked` | - | `WithoutRoleOnlySwitches` |
| `DashboardProofs!OffersAreHonoured` | - | `RefusedOnlyWhenOvertaken` |
| `DashboardProofs!AssignsToActive` | - | `AssignedToActive` |
| `NodesPageProofs!TypeCorrect` | - | `TypeOK` |
| `NodesPageProofs!OneRemoval` | - | `OneRemovalAtATime` |

The arguments:

- *Races.* `UniqueLiveAddress` is not inductive alone: it needs that a live allocation belongs to an
  existing row with a node and an address, so that the index sees it. `SpareHasNoOwner` needs the owner
  an assign will restore (`before`) to be none, which holds because assign loads an unassigned row.
- *Serial.* The inductive invariant says of every request what the row it works on looks like at each
  pc, and of every stray call that no request works on its row. That rests on claims being exclusive:
  two requests, or a request and a stray, never work on one row. `TunnelIsAccounted` and `RevokedIsDown`
  add which pcs may see a peer on the node, which needs the agent's answer to be known: hence no late
  calls.
- *Hand-over.* A row's node never changes and a released address stays released, however operations
  overlap. What has to be carried along is what a reassign knows before it links: the old row is
  released, and the row it generated is another one, on the same node, with an allocation.
- *Refinement.* Under the same invariant each action is one step of `ConfigContract` or changes none
  of status, owner and peers; the writes of the removing operations find the tunnel down, and the
  agent's application of an add finds an active row with an owner.
- *Enrollment.* The invariant `Linked`: no two rows carry one name, every row carries the name of the
  token that inserted it, a used token names a row it inserted, and a request that is about to mark
  its token knows such a row. A token that inserted two rows would have given them one name.

- *Suspension.* The invariant `SuspensionInv` says of every suspension and every config outside its
  `given` (`Accounted`): nobody is switching the config on, no add call for it is left over, its peer is gone
  once the agent has said so to this suspension, and if it is the person's and not off, the suspension still
  has it in the list, is calling its agent, or keeps it as failed. Any other step leaves such a config as it
  is or takes it off, because only an operation that has put it into `given` when it started does more
  (`Calm`, `Bystander`, `Mover`). Every operation is cut at its awaits, so these steps include a disable
  between another admin's write of `active` and its add-peer.
- *Roles.* Types are inductive once the shape of calls and dialogs is added to `TypeOK`: a dialog that
  confirms something about a config has one. A call is only taken with the role it needs at that moment,
  whatever page sent it; what is open to anybody else than admins sets a status and leaves the owner,
  and rendering, which mirrors people, touches no config.

- *Addresses.* That a power of two is positive and divides every later one is an induction; the
  libraries' induction theorems take an operator and cannot be instantiated here, so it goes through the
  least element of the set of counterexamples (`NatLessThanWellFounded`). From it: a pool is an aligned
  block of at least four words inside the address space, and lies in one half of it. Below the sign bit
  `&` changes nothing, so candidates are exactly the free client addresses. Above it every candidate is
  negative and none is ever skipped: the first client address is picked whenever anything is, hence
  `HandsOutHosts` and `LowestFree` hold there too, while the other two properties do not (`IpamUpper`).
- *Offers.* `RefusedOnlyWhenOvertaken` and `AssignedToActive` speak of the call at the head of the queue;
  the invariant `DashInv` says the same of whatever can become that call. Unless marked as overtaken
  (`clean`, `touched`), each waiting call is one the server would still take, and what waits behind a call
  about the same row is marked (`QueueSound`); a dialog is about a row that lets its call through
  (`DialogSound`); the page shows what is not `touched` as it is (`PageSound`); and a row with a call of its
  own under way is touched, or disabled in every menu and in no dialog (`Held`). Each step of somebody else
  marks what it changes; each answer renders the page again and takes back the pending mark of its own
  row only.
- *Removals.* The invariant adds to `OneRemovalAtATime` that what is to be confirmed is not pending and
  that pending calls belong to rows the page has. A page that loses its rows strips its calls of the part
  they answer to, and the pending marks with it.

The proofs assume `LifecycleAssumption`, `IpamAssumption`, `EnrollmentAssumption`, `AccessAssumption`,
`DashboardAssumption` and `NodesPageAssumption` (null is no id, people are no configs, addresses are
numbers, a pool has at least four addresses, local people are not in Clerk), which TLC evaluates in every
run. Every safety invariant and action property of the passing runs is proved. Model-checked only: the
liveness properties (`RequestsEnd`, `RegistrationIsRecorded`, `MirrorConverges`, `RemovalsEnd`), which
are outside what TLAPS proves.

## Not modelled

- Cryptography, rendering of client files, QR codes, parsing of pasted files, request schemas, the socket
  pool of the agent client: functions of their input without state.
- Usage and connection state: a read for display that nothing decides on.
- The audit table: it is appended to, and its one reader writes the count into another row of it.
- The audit and overview pages, the upload form, the landing page, the design system, the file
  dialog's content: no state beyond what React keeps for a field.
- Deployment scripts and the installer beyond the interface file it writes.

## Plan

1. **Done:** `Lifecycle` with its contract, `Ipam`, `Enrollment`, `Access`, `Dashboard`, `NodesPage`, and
   the proofs above: every safety invariant and action property the passing runs check.
2. Static configs through the lifecycle: what SPEC section 6 says of reassign against `reassignConfig`,
   which refuses a row without a node.
3. Theorems: what holds of overlapping operations without `Serial` beyond `RacesAreSafe`, and that
   `ConfigContract` itself keeps an owner with every live config.
