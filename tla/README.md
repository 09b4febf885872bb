# A TLA+ verification of NFViS

NFViS is an NFV platform: one daemon, `nfvisd`, owns a declarative configuration
(kept in SQLite) and drives a data plane (VPP), a hypervisor (libvirt) and Docker so
that they match it. A CLI and a web console talk to it over REST. This directory models
the parts of that daemon where steps, failures and time interact, checks the models with
TLC, and proves the central results with TLAPS.

- [1. The system](#1-the-system)
- [2. Modules and how they correspond to the code](#2-modules-and-how-they-correspond-to-the-code)
- [3. What the runs check](#3-what-the-runs-check)
- [4. What is proved](#4-what-is-proved)
- [5. Where the code departs from its documents](#5-where-the-code-departs-from-its-documents)
- [6. Other behaviour a reader of the code should know](#6-other-behaviour-a-reader-of-the-code-should-know)
- [7. Not modelled](#7-not-modelled)

## 1. The system

### Inventory

| Component (source) | State it keeps | Operations | Hard behaviour | Correct when |
|---|---|---|---|---|
| Transaction engine (`internal/config`) | tables revisions, lock, pending confirmation, audit; in memory the candidate, its holder, dirty flag, timer | Edit, UpdateCandidate, MergeCandidate, Release, Discard, Commit, ConfirmCommit, Rollback n, sweep, timer, start | crash between durable effects, timer against late confirm, idle lock, failing statements | one editor; commit confirmed is settled or rolled back, never both; history kept; audit rows paired |
| Commit orchestrator (`internal/orchestrator/apply.go`) | none between commits but alarms | Apply = plan, run, compensate | one operation of many fails, then its compensation fails; order of references | substrate equals configuration or an alarm says otherwise; no dangling reference |
| Network providers (`orchestrator/network`: l2, l3, bond, nat, acl, services, vhost_user, memif, lldp) | registries name -> VPP index, pending table deletions | Apply/Delete per object, reset | registry against VPP after a failed call, a VPP restart, a daemon restart | the declared objects are in force and nothing else is; retry converges |
| Recovery (`network/recovery.go`, `cmd/nfvisd`) | recovery alarms | replay of the committed configuration on every (re)connection, patrol | overlaps a commit: no lock is shared with Apply | add-only replay never resurrects what a commit has just deleted |
| VPP manager, start-up configuration, DPDK binding | connection state, staged file, driver of a card, record of bindings | connect, reconnect, restart, bind, unbind | minutes-long restarts, half-done rebinding, damaged record | a card is never taken from VPP; a pending restart is shown |
| Compute and containers (`orchestrator/compute`, `container`) | libvirt domains, disks; Docker containers | Define, Delete, Start, Stop, Restart | several calls per operation, crash of a guest | domain follows configuration; delete leaves nothing; alarms tell the truth |
| Image store (`internal/images`) | index.json, files, `.part` files | Download, Import, Delete, Lookup, reconcile at start | two downloads of one name, broken and resumed downloads, reference counted before a commit adds one | a ready image has its verified file; a disk keeps its image |
| Resource ledger (`internal/model/resources.go`) | none: computed from a configuration | Allocate, AllocationFor | shares of unchanged machines shift; a running machine keeps its pins | shares are disjoint and within pools; overlaps have a reason |
| Statements (`internal/schema`, `internal/api/cliexec.go`, `setstmt*.go`, `cli_aliases_*.go`, `model/validate.go`) | the candidate as a JSON tree | set, delete, display set, validate | hundreds of special forms; long sequences | what is shown can be replayed; a delete only removes; a statement touches what it names |
| API and CLI sessions (`internal/api`) | CLI sessions | requests as sequences of engine calls | requests of one user share a holder name; errors half-way | edits are neither lost nor mixed; locks come back |
| AAA (`internal/aaa`) | tokens, lockouts | Login, Logout, VerifyToken | expiry, lockout counting | guesses are limited in rate |
| Alarms, events (`network/alarm.go`, `internal/events`) | alarm list, ring of events, subscribers | Raise, Resolve, Sync, Clear; Publish, Subscribe, Since | several producers, slow subscriber, reconnection | a client that missed nothing knows the active alarms |
| System services (`internal/system`), metrics, diagnostics, adapters, clients | archives, files | host tools, read-only views | several files per operation | - |

### How the parts interact

A client edits the *candidate* through the API; `Engine.Commit` validates it, calls
`Applier.Apply(old, new)`, and stores the new configuration as a revision. The applier
calls the providers one by one; each keeps a registry of what it created in VPP. When
the connection to VPP comes (back) up, the daemon resets the registries and replays
`Engine.Committed()` through the providers. Operations that could not converge become
alarms; alarms and engine events go to the event bus and from there to clients.

```
 CLI / console --> Sessions (Access: tokens) --> engine calls --> ConfigEngine (refines ConfirmedCommit)
      |                                                               | Apply
      | set/delete: Statements = Tree, Parser, Aliases, ...           v
      |                                            CommitApply  (one plan, all kinds, external providers)
      |                                              | the same plan over real providers:
      |             Routing (L3, NAT)   Switching (L2, bonds, ACL, QoS, SPAN)   Workloads (+ Images)   Resources
      |                     ^ recovery        ^ recovery                           ^ recovery, inspection
      |                     +------- DataPlane (VPP process, cards, reconnection) -+
      +<-- Events (alarm store, bus)  <-- alarms of all of them
```

## 2. Modules and how they correspond to the code

| Module | Models | Composes / used by |
|---|---|---|
| `ConfirmedCommit` | abstract: what "commit confirmed" promises | refined by `ConfigEngine` |
| `ConfigEngine` | `config/engine.go` over `store_sqlite.go` | `ConfigEngineProofs` |
| `CommitApply` | `orchestrator/apply.go` with external providers | `CommitApplyProofs` |
| `Routing` | `l3.go`, `nat.go`, `recovery.go`, `provider.go`, the adapters; recovery and patrol of `main.go` | `RoutingProofs` |
| `Switching` | `l2.go`, `bond.go`, `acl.go`, `services.go`, `lldp.go`, `vhost_user.go`, `memif.go`, the adapters | `SwitchingProofs` |
| `DataPlane` | `vpp.go`, `startup*.go`, `dpdkbind.go`, `bindings.go`; the controllers of `main.go` | `DataPlaneProofs` |
| `Images` | `images/images.go`, `images/download.go` | `Workloads`, `WorkloadsProofs` |
| `Workloads` | `compute/provider.go`, `container/docker.go`, inspection, alarms | extends `Images`; `WorkloadsProofs` |
| `Resources` | `model/resources.go`, the share a commit writes into a domain | `ResourcesProofs` |
| `Access`, `Sessions`, `Events` | `aaa/service.go`; the handlers and CLI as engine calls; alarm store, bus, event stream | composed by `Api` |
| `Api` | the daemon's API as a whole | `ApiProofs` |
| `Tree`, `ConfigTypes`, `Grammar`, `Parser`, `NetAliases`, `Aliases`, `DisplaySet`, `Validation` | pure operators on configurations as trees | `Statements` |
| `Statements` | set and delete statements in any order | |
| `ConfigEngineProofs`, `CommitApplyProofs`, `RoutingProofs`, `SwitchingProofs`, `DataPlaneProofs`, `WorkloadsProofs`, `ResourcesProofs`, `ApiProofs` | theorems, each about the module it extends; `WorkloadsProofs` is about `Images` too, `ApiProofs` about `Access`, `Sessions` and `Events` as `Api` composes them | section 4 |
| `MC...` | instances for TLC | the `.cfg` files |

A definition whose name starts with `Slip` is the definition that follows it with a
plausible mistake in it (a forgotten reset, a bound off by one, a swapped argument). No
action uses it. Put in the place of the original it makes TLC report the property it was
written for; this shows that the property can tell the code from a wrong one.

### ConfigEngine

The engine serialises every operation with one mutex, so an operation is atomic for other
callers, but not for a crash and not for the store: `Commit` has up to six durable effects.
The variable `mu` is the mutex together with the point its owner has reached:

```
free --Sweep--> [clear ->] sweepLock --> ready --operation--> free
                                           |
                                           +-CommitStart-> apply -> append -> prune -> [confirm ->] finish -> free
```

`SweepConfirmed` and `SweepLock` are the two halves of `sweepLocked`, with which every
operation starts. `DoConfirmedRollback` and `ClearAfterRollback` are the two durable halves
of `doConfirmedRollback`, reached from the sweep, from the timer or from the restart.
`Crash` is possible at every point; `Restart` is `NewEngine`. The tables are `revs`,
`oldest`, `latest`, `lock` and `pending`; the memory is `candidate`, `holder`, `dirty` and
`timer`; `audit` holds the intent and result rows of a high-risk commit; time is a lock that
is `idle` and a request that is `expired`; an error of a SQLite statement is `StoreFails`,
for the statements named in `FaultOps`.

A configuration is a management-port setting and a value for each substrate object; whether
it is valid is membership in `Valid`. That a commit may be refused for an image is a free
choice in `CommitRefused`. `Applied` is what a successful `Apply` does in total; a failing
one has compensated completely (the other modules look inside). `AcquireLock`,
`RefreshLock` and `GetLock` do not fail; a commit does not start beyond revision `MaxRev`.

### CommitApply

One `Apply` at a time (the engine's mutex). `Plan` is the set of operations of a commit,
`Rank` their order: the sections of the code, additions first; within one kind Go iterates
over a map, so `Ready` leaves the order open. `Run`, `RunVrfDeferred`, `RunIfaceDeferred` and
`RunFails` are the outcomes of one operation; `Undo` and `UndoFails` those of one
compensation. The providers are external here: a call takes effect, fails without effect,
or fails half-way (`Partial`). `alarms` holds the active `COMMIT_COMPENSATION_FAILED` alarms
by operation, `deferred` the `COMMIT_VRF_DELETE_DEFERRED` alarms, `leaked` (history) the
objects a failing operation left half-done, which only the reply of that commit mentions. A provider
refuses what names an object it has looked for in vain (`CanPut`), but not every reference is looked
for: `Unasked` are those of machines and containers to their vNICs (`DefineVM` and `ApplyContainer`
derive the socket from the name) and of NAT to its tables.

### Routing and Switching

In both, a provider call is an operator that returns the *set of its outcomes*
`[vpp, reg, ok, fault]`: what it leaves in VPP and in the provider's registries, whether it
returned an error, and whether that took a failing VPP call; there is one outcome for the
success and one for each VPP call in it that can fail. A provider call is one step, but for those of
its halves that others get between (below for `Routing`). `RunOp` takes one outcome of the next
operation of the plan, `UndoOp` one of its inverse; `VppRestart` empties VPP and leaves the
registries, `DaemonRestart` empties the registries and leaves VPP.

`Routing` has the tables, their interfaces and addresses, the NAT plug-in, pools and
features; the registrations of L3 interfaces and of vNICs; deferred deletions and their
retry. The recovery (`Reconnect`, `RecoveryBegin`, `RecoveryStep` ..., `RecoveryEnd`) and the
patrol run beside commits and share no lock with them, as in the code. What one provider call does is
one step, except where a step of another in between matters: `DeleteVRF` reads the registered
interfaces in one step and uses them in the next; a deletion registers itself as pending in one step
and the applier raises the alarm in another (`TellDeletion`, and `TellResidue` for a failed undo); a
retry copies the pending deletions (`RetryBegin`), looks at each table (`RetryTable`), takes its
registration away (`RetryClear`), and then resolves the alarms, one by one (`RetryResolve`). `Before` is the order in which
operations run, `Due` the ones whose turn it is. What the code does not promise when the two
overlap is remembered in `trusted` and `overlap`: `trusted` ends when a commit runs beside a
recovery or a patrol, or a patrol resolves an alarm about what a compensation left of a declared
VRF, and begins again with a recovery that had VPP to itself. Since that recovery, `undone` tells
that a compensation had a VRF to undo or failed, `replayed` that no commit has begun.

`Switching` has interfaces with the *indices* VPP gives out, and gives out again: bridge
domains, sub-interfaces, bonds, ACLs, mirrors, policers, LLDP and gateways. Commits and
recoveries take turns there; a cross connect is a switch of two members, a memif vNIC is like
a vhost-user one, an ACL is bound in one direction. `Due` are the operations of the first kind in
`Order` that has any left; those of one kind come in any order. An index is all a provider
remembers of an interface (`attached`, `subifs`, `bvi`, `bond`, `bound`), so an operation may find
another interface under it; `TakenOut` is what it takes out of a bridge domain that is not its own,
`Former` what of that it is about. Two history variables carry the exceptions: `displaced`
the ports that are out of their domain until their switch is applied again (a bond made anew, a port
taken over from another switch), `scarred` that an operation failed, was cut short, or met another's
interface.

### DataPlane

Cards (`driver`), VPP and what it holds (`vpp`), `startup.conf` (`conf`), the record of
bindings on disk and in memory (`record`), the manager (`mgr`), the requests in progress
(`req`), the recovery (`recovery`). A restart request is `Precheck`, `WriteConf`,
`Systemctl`, `MarkApplied`, `WaitHealthy`; a bind is the check, `Release`, `Attach` with its
undo, and `Note`, which writes the record. The driver of a card is read first; the kernel takes
a card back only when it has no driver. A card may be bound by its address: then nothing is
recorded (`history.unnamed`), because the record goes by names. `Systemctl` and `Start` are
external.

### Images and Workloads

In `Images` a file is an inode with blocks; what a handle writes goes to the inode it opened,
whatever name that inode has by then, so that two downloads of one name behave as on the host.
`Workloads` adds domains, disks (an overlay names its image), containers, the commit of
`apply.go` for them, the recovery and the 15-second inspection, alarms, requests on machines,
guests that crash, and the deletion of an image in its real steps: references counted,
file removed, entry removed.

### Resources

Three accounts of cores: what the ledger grants (`AllocationFor`, computed from the
configuration), what each domain is defined with, and what a running domain is pinned to.
`CommitStart` runs the ledger (`CheckResources`) as the engine's validation does.

### Access, Sessions, Events, Api

A request is the list of engine calls its handler makes (`prog`), with what it defers
(`closing`: `endOneShot`). Calls are atomic, requests interleave. `Sessions` sees the engine
through its lock, candidate and committed configuration; `ConfigEngine` is the same engine
seen from the inside. `wish` (history) is what the accepted requests of a holder add up to.
`Events` models the alarm store's emission inside its mutex, the ring of events, the bounded
buffers, and `handleEvents` with its gap between replay and subscription (`Since` is what it
replays), read by a client that keeps a set of active alarms; the alarms one operation changes are
emitted in any order (`Orders`), the code iterating over a map. `Api` composes the three: tokens gate requests, a commit
publishes an event inside the engine's mutex, a restart forgets all three together.

### Statements

A configuration is a tree: a function from paths to values, elements of arrays being named
by their identity field. `Grammar` is the schema the generic parser walks, `Parser` is
`applyTokens`, `NetAliases` and `Aliases` are the special forms that are tried before it,
`ConfigTypes` and `Normal` the round trip through the Go structs that every statement ends
with, `DisplaySet` is the generation of statements from a configuration and
`verifySetStatements`, `Validation` the rules of `Validate`. Statements are given as the words
the schema matcher accepts; abbreviation is not modelled. A refused statement leaves the
candidate unchanged, so only accepted ones are steps.

## 3. What the runs check

Bounds are constants and appear in guards, never as state constraints; `MaxEvents` counts
the stimuli from outside (commits, requests, faults, restarts) together.

| Run | Instance | Shows |
|---|---|---|
| `engine_safety` | 2 sessions (one local, one over the network), 2 management settings x 1 object with 2 values, keep 3 revisions, up to revision 4, 1 store fault of any kind but a failing clear of the pending request, 2 crashes, clock steps | lock, candidate, pruning, audit and substrate invariants; the refinement of `ConfirmedCommit` |
| `engine_live` | as above, keep 2, no store faults, monotonic clock, `FairSpec` | an overdue commit is rolled back, and cannot be confirmed any more |
| `apply_safety` | 10 objects, 6 configurations, 3 commits, 2 provider faults | no silent residue, no dangling reference, success converges |
| `routing_safety` | 3 VRFs, 2 ports and a vNIC, NAT; 4 configurations that move ports, drop a switch, drop or move NAT; 2 events beside recovery and patrol | VRFs, NAT and deferred deletions |
| `switching_safety` | 2 switches, 3 ports, a bond, a vNIC, VLAN 0 and 1, an ACL, a mirror, a policer; 5 configurations, one of which makes the bond of a VLAN switch anew while another switch gains a gateway; 27 indices; 4 events | membership, filters, policers, convergence of a recovery |
| `dataplane` | 3 cards (one for management), 2 clients, 3 sections; 3 events | pending restart, cards, restarts, reconnection |
| `images` | 1 VM image, 1 container image, 2 downloads, 2 blocks; 4 events | a ready image is verified |
| `workloads` | 1 VM with an optional second disk, 1 container, 4 configurations; 4 events | workloads follow the configuration, disks keep their image, alarms settle |
| `workloads_undo` | the same instance | a disagreement, section 5 |
| `api` | 1 user in the console and on the CLI, 2 requests at a time, 2 items, 1 alarm, 1 event client, buffer 1, history 2, threshold 2; 5 events | edits, locks, commits, lockout, view of the alarms |
| `resources` | 3 machines, 5 isolated cores (2 on a node), 8 configurations, two of them refused; 4 events | shares, overlaps |
| `statements` | 18 small languages, each with a base configuration and its own set and delete statements, every reachable configuration of each | replay, deletion, confinement |

Why these bounds are enough to be interesting. Engine: revisions 1 to 4 with 3 kept make
pruning delete a revision while a confirmation is pending; two crashes allow one in a rollback
and one in the retry of it. `apply_safety`: a failing operation with a failing compensation, a
commit that meets the residue, and one that repairs it. `routing_safety`: a commit and a failing
call or restart beside two unbounded recoveries, with every pair of configurations; three events
with the configurations that matter for deletions (`DeletionCfg` of `MCRouting`) were explored
by hand, as that takes longer than a run that is repeated should.
`switching_safety`: a failed commit, a restart and the commit after it, with indices used
again. `dataplane`: two overlapping restarts, or a bind crossed by a crash. `workloads`: a
commit that fails, a crash of the guest, a recovery with the old configuration and a deletion of
an image. `api`: two one-shot requests that overlap, a session of the CLI, and a timeout.
`resources`: a machine added before, after and on the node of others, then a restart. The
languages of `statements` are closed under their statements, so there is no bound on how many
are entered.

`CHECK_DEADLOCK FALSE` stands where the bound on events, or a fixed set of statements that all
may be refused, really leaves nothing to do.

### The properties

- `CandidateHoldsLock`, `CleanCandidateIsCommitted`, `PendingBaseRetained`, `HistoryRetained`,
  `AppliedBeforeStored`, `IntentPaired`: an edit in memory is backed by the row of its holder; a
  candidate that is not dirty is the committed configuration, also after an automatic rollback
  under an open edit; what a pending confirmation falls back to is never pruned; the last `Keep`
  revisions are there; the substrate is driven first; a high-risk commit has its result row.
- `ImplementsConfirmedCommit`: seen from outside, a commit is settled at once or awaits its
  confirmation, then either settles or falls back to exactly the configuration it replaced.
  `LateConfirmRefused` (action property), `ExpiredIsRolledBack` (liveness).
- `ResidueKnown`, `RefsLive`, `SuccessConverges` (`CommitApply`): between commits an object held
  otherwise than configured is alarmed or was reported; at no moment does an object refer to one
  that is gone without an alarm about it, or, where the provider does not ask for what it refers to
  (`Unasked`), about what is gone; a successful commit converges whatever earlier ones left.
- `Routing`: `Converged` (between commits the VRFs are in place or a recovery has told otherwise:
  until the next commit, whatever the recovery met; then through any sequence of commits, refused
  and compensated ones too, as long as no VRF had to be undone, where a vNIC that is an interface of
  a VRF is connected to that VRF's own switch, `AllHomed`), `NatServed` (after an undisturbed recovery
  NAT is served, or the alarm about NAT is active), `LeftoversKnown` (a table nobody declares is known
  after a recovery),
  `DeletionSpares` (an interface that a committed VRF declares goes back to the default table only
  while that VRF itself is changed or deleted, or an alarm tells of it; ports whatever the
  compensations did, vNICs as long as none had a VRF to undo or failed), `DeferralEnds` (a registered
  deletion whose table is gone has its alarm resolved, again and again; that an alarm has a
  registration at all is not so, section 5, `DeferralRegistered`). `DeletionSpares` said
  more at first, that a deletion takes no interface out of another VRF; with three events TLC
  showed that an interface which a failed change left in another table goes with the VRF it is
  *registered* with.
- `Switching`: `Bridged` (an interface is in the domain of its switch and in no other, but for
  `displaced` ports and the BVI of a gateway no longer declared), `Filtered`, `Policed` (the declared
  ACL or policer and no other), `RecoveryConverges` (after a recovery that reports no failure
  everything declared is in force).
- `DataPlane`: `PendingHonest` (while no restart is pending, VPP's file is that of the
  committed section), `CardsKept` (VPP never loses a card it has taken, unless an unbind found no
  session with VPP to ask), `CardsRecorded` (a card of DPDK is in the record on disk, or the
  request that binds it is under way; cards bound by address excepted), `RestartRecovered` (a VPP
  that started anew gets its recovery; liveness). `RestartComesUp` (a request never takes VPP down
  for hugepages missing when it was made) is proved in section 4 and needs no run.
- `ReadyVerified` (`Images`): an image shown as ready is complete and has the content its digest
  promises.
- `Workloads`: `Converged`; `MainBacked` (the image a declared machine's disk is an overlay of is
  there: no deletion takes it away, unless it had passed its reference check before the commit, and
  no commit names it again when it is gone, unless `checkImages` lets it); `AlarmsSettle` (liveness).
- `Api`: `EditsSurvive`, `LockHandedBack`, `CommitsOwn` (a commit takes into effect exactly its
  own session's changes), `LockoutBounds` (among `Threshold + 1` wrong passwords in a row some two
  are a lock period apart), `ViewTrue`.
- `Resources`: `LedgerExclusive`; `SharingExplained` (two running machines on a common core are
  explained by a shifted share, a failed operation or a redefinition while running);
  `SharesKeptBehind` (a share shifts only through the pools or a machine whose name sorts before).
- `Statements`: `Replayable` (a valid configuration is shown as statements that make it again),
  `DeletesRemove` (an accepted delete adds nothing but an empty element it names), `Confined`
  (an accepted statement changes nothing it does not name).

Several are stated with exceptions, each a named history variable or definition with its reason
in the module: `trusted`, `overlap` and `undone` (Routing: recovery overlapped a commit; a VRF was undone), `scarred` and
`displaced` (Switching), `mixed` (Sessions: overlapping requests of one user), `loose` (Images:
overlapping operations on one name), `raced` and `scarred` (Workloads), `unsure` and `stale`
(Resources), `Inexpressible` (Statements). Each was introduced for a counterexample TLC had found; what the code does there is in sections 5 and 6.

What such an exception covers is in the model and can be seen in its states, but the property says
nothing of it. `PROJECT.json` notes it at each hazard: a substrate that keeps the new configuration
when the store failed, or that an automatic rollback does not drive (`AppliedBeforeStored` is only
about the order; `Settle` of `ConfirmedCommit` leaves open when and on whose request a pending commit
is settled, so that a refused one may do it); the clock set back, which `engine_live` excludes; a recovery
beside a commit (`trusted`), a registry updated before a call that fails (`scarred`), an unbind
without a session (`blind`), a crash between a binding and its record (`cut`), overlapping downloads
(`loose`), a deletion of an image beside a commit (`raced`), a failed operation on a machine
(`scarred` of `Workloads`), a share that has shifted (`unsure`), events lost to a full buffer (`gap`,
`lost`).

### Fairness

`ConfigEngine!FairSpec`: an operation that holds the mutex finishes (no call in the engine waits
for another caller, and systemd's watchdog ends a daemon that hangs), the Go runtime runs a
timer that is due, and the daemon is started again (`Restart=` in the unit). Nothing is assumed
of clients: `SweepConfirmed`, which starts every call, is not fair, nor are time and crashes.
`Routing`: the manager reconnects, a recovery under way goes on, the patrol's ticker fires.
`DataPlane`: the manager's loop and the recovery go on. `Workloads`: a commit goes on, and the
inspection's ticker fires. Requests, faults, restarts and guests are never fair.

## 4. What is proved

Eight modules of theorems, each for all values of the constants that satisfy the assumptions
of the module it extends: any sessions, objects, tables, cards, images, requests, clients, any
bound on commits and faults. The bounds of section 3 are values of such constants, so a theorem
covers every run of its module.

| Module | Theorem | Statement | Assumes |
|---|---|---|---|
| `ConfigEngineProofs` | `TypeCorrect`, `InductiveInvariant` | `Spec => []TypeOK`, `[]IInv` | |
| | `CandidateLocked`, `CleanCandidate`, `IntentHasResult`, `HistoryKept`, `AppliedFirst` | the five safety invariants | |
| | `PendingInvariant`, `BaseRetained` | `Spec => []PendingInv`, `[]PendingBaseRetained` | `ClearReliable` |
| | `Refinement` | `Spec => ImplementsConfirmedCommit` | `ClearReliable` |
| | `LateConfirm` | `Spec => LateConfirmRefused` | `ClearReliable`, `AppendReliable` |
| `CommitApplyProofs` | `TypeCorrect`, `InductiveInvariant` | `Spec => []TypeOK`, `[]IInv` | |
| | `ResidueIsKnown`, `ReferencesLive` | `[]ResidueKnown`, `[]RefsLive` | |
| | `Converges` | `Spec => SuccessConverges` | |
| `RoutingProofs` | `TypeCorrect`, `InductiveInvariant` | `Spec => []TypeOK`, `[]IInv` | |
| | `NatIsServed`, `LeftoversAreKnown` | `[]NatServed`, `[]LeftoversKnown` | |
| | `DeferralsAreKept` | `Spec => DeferralsKept` | |
| | `VrfInvariant`, `VrfsConverge` | `[](IInv /\ VInv)`, `[]Converged` | |
| | `DeletionsSpare` | `Spec => DeletionSpares` | |
| `DataPlaneProofs` | `TypeCorrect`, `InductiveInvariant` | `Spec => []TypeOK`, `[]IInv` | |
| | `PendingIsHonest`, `CardsAreKept`, `CardsAreRecorded` | `[]PendingHonest`, `[]CardsKept`, `[]CardsRecorded` | |
| | `RestartIsUp` | `Spec => RestartComesUp` | |
| `SwitchingProofs` | `InductiveInvariant` | `Spec => []SwitchingInv` | |
| | `SwitchesAreBridged`, `PortsAreFiltered`, `PortsArePoliced` | `[]Bridged`, `[]Filtered`, `[]Policed` | |
| | `RecoveryInvariant` | `Spec => [](Recovering /\ Tidy /\ Roomy)` | |
| | `RecoveriesConverge` | `Spec => RecoveryConverges` | |
| `ResourcesProofs` | `TypeCorrect`, `InductiveInvariant` | `Spec => []TypeOK`, `[]ResourcesInvariant` | |
| | `LedgerIsExclusive`, `SharingIsExplained` | `[]LedgerExclusive`, `[]SharingExplained` | |
| | `SharesAreKeptBehind` | `Spec => SharesKeptBehind` | |
| `WorkloadsProofs` | `TypeCorrect`, `InductiveInvariant` | `ImagesSpec => []ImagesTypeOK`, `[]IInv` | |
| | `ReadyIsVerified` | `ImagesSpec => []ReadyVerified` | |
| | `WorkloadsTypeCorrect`, `WorkloadsInvariant` | `Spec => []TypeOK`, `[]WorkloadsInv` | |
| | `WorkloadsConverge`, `DisksAreBacked` | `[]Converged`, `[]MainBacked` | |
| `ApiProofs` | `TypeCorrect`, `InductiveInvariant` | `Spec => []` types and invariants of `Access` and `Sessions` | |
| | `LockoutHolds`, `EditsAreKept`, `LockIsHandedBack` | `[]LockoutBounds`, `[]EditsSurvive`, `[]LockHandedBack` | |
| | `CommitIsOwn` | `Spec => CommitsOwn` | |
| | `EventsTypeCorrect`, `EventsInductive` | `Spec => []EventsTypeOK`, `[]EventsInv` | |
| | `ViewIsTrue` | `Spec => []ViewTrue` | |

Each proof is laid out alike: lemmas on the operators, one lemma per part of the invariant or
per group of actions with one step per action, and a temporal step at the end.

### Assumptions on the constants

Most only give the constants their types (`AccessAssumption`, `SessionsAssumption`,
`EventsAssumption`, `DataPlaneAssumption`, `ImagesAssumption`, most of `EngineAssumption`):
counts are natural numbers, sets that are enumerated are finite, `None` is not a value,
VM and container images are different files. Those that say something of the code:

- `EngineAssumption`: at least two revisions are kept (`Keep >= 2`; `storeKeepRevisions` is
  51).
- `ApplyAssumption`, `ReferenceAssumption`: which kinds of objects refer to which, read off the
  fields of the configuration; a route belongs to a VRF; what a configuration holds refers to
  what it holds too, as `Validate` demands.
- `RoutingAssumption`: in one configuration no interface belongs to two VRFs, which is
  `Validate`'s rule that a port has one role (`validate.go:27`); a vNIC that is an interface of a
  VRF is one of the declared machines' (`validate.go:511`).
- `IndexAssumption`, `KindsAssumption` (Switching): VPP has an index for every interface the
  configurations can name, and a name is of one kind (`validate.go` checks the names of ports,
  bonds and switches against each other). `RoomAssumption`: there are indices enough for the interfaces
  that failing calls and restarts leave behind besides, which are at most one for each switch and
  one more for each event (`MaxEvents` of them); an index of VPP has 32 bits. `ConfigsAssumption`: what `Validate` demands, that a port is
  of one switch and that bonds, vNICs, ACLs and policers which are referred to are declared.
- `ResourcesAssumption`, `ConfigsAssumption`, `Config0Assumption`: the names of the machines can be
  put in order without repetition, cores are natural numbers and the sets of them finite, and the
  engine starts with a configuration it has validated.
- `WorkloadsAssumption`: at the start nothing is declared; what is declared names an image
  (`validate.go:858`, `validate.go:948`). VMs and containers are disjoint sets because an operation,
  an alarm and a domain or container are of one kind: the two may share a name without meeting.
- `ClearReliable` is not an assumption of the module but a hypothesis of three theorems: that
  `DELETE FROM confirmed_pending` does not fail, because the engine ignores that error. When it
  does fail, a request stays in the store with its timer stopped, and a later rollback may undo a
  settled commit. `LateConfirm` also needs `AppendReliable`: a rollback whose revision cannot be
  stored leaves the request, which can then be confirmed after its deadline.

TLC evaluates every assumption in the runs of the module.

### The arguments

**ConfigEngine.** The safety properties are not inductive by themselves: that a commit
stores what the substrate took depends on what the commit's locals still agree with.
`CommitInv` says what a commit in progress may rely on at each point (its candidate is the
configuration it validated; until `append` the committed configuration is the one it
started from, and afterwards revision `latest - 1` is). Together with the type, lock and
audit invariants it is `IInv`. For the refinement, `Fallback` maps the engine to
`ConfirmedCommit`: between storing a revision and recording the request, the configuration to
fall back to is still a local of `Commit`. `PendingInv` is needed for it: nothing is pending
while a commit prunes, and a half-done rollback has stored the base again.

**CommitApply.** Whether a residue is known depends on where the commit stands. `PlanInv`: what
has run comes before what has not, in the order of the sections of the plan. `RunInv`: what has
run is as the new configuration wants it (or its deletion is deferred). `UndoInv`: an object that
is not as committed is still on the list to undo, or an alarm or a reply tells of it.
`SettingInv`: an object that is there has its old or its new setting, nothing third, unless it is
known. `RefsLive` follows in every state from these, from the order of kinds, and from the fact
that a reference goes from a later kind to an earlier one; mirroring sessions are excepted, for
them the order of the code does not have it (section 5). Undoing a deletion needs what the object
refers to, and its own undo may have failed: then the provider refuses the object, and it has an alarm
itself, or, for an `Unasked` reference, puts it there and only what is gone has one.

**Routing.** `AloneInv`: as long as nothing disturbed it (`overlap` is false), a recovery runs
beside no commit and has read what is committed; without it nothing a recovery did says anything
of the committed configuration. `ShapeInv`: after NAT a recovery only looks again for vNICs and for
leftovers, so it takes nothing away from NAT. `NatInv`: NAT starts from empty registries,
and once set up it serves every interface its switches have until the end of the recovery, or
the operation is among the failed ones, which raise the alarm. `LeftoverInv` is the same for what the
end of a recovery reports. `TellInv` says what may happen between a registration and its alarm,
`RetryingInv` what a retry holds between its steps, `DeferralsKept` that no step but that of a retry
which has yet to resolve the alarm takes a registration from behind it.

`VInv` is about the VRFs, and has seven parts. `TrustInv` ties the history variables to each other;
`CommitInv` says what a commit has read and what its plan still holds; `PlacedInv` that a VRF is in
place from its operation on, or is still to come, or an alarm tells of it. It stays in place because no
other operation has business with its interfaces (`PlacedKept`): what each operation changes is
bounded once (`Effects`), and the plan takes vNICs first, then VRFs, then deletions, then the vNICs that
go. The difficult case is a deletion, which takes out what is *registered*. A port is registered with
one VRF only (`OnePort`). A vNIC is registered twice, by its VRF and by its switch, so it is with one
VRF only while every vNIC is homed and nothing was undone (`DomainInv`); what a deletion has read before
it goes on is still registered with its VRF (`CommitInv`, `HeldApart`). `RestoredInv` is `PlacedInv` of
a recovery, which starts from empty registries, and `SoleInv` what is left for ports when compensations
have run: a VRF that is not in place has an alarm, and its ports are in no other.

**Switching.** `Sound` is indexed by the operations that are still to come: the data plane is
right for the configuration a commit or recovery works towards, but for what those operations are about
(`Named`, `Registered`, `Policies`, `Filters`, `Bridges`). At the start of a commit that is the
plan and the rest is as before (`BeginSound`); each operation makes right what it is about and
disturbs nothing else (`OpSound`, from one lemma per provider operation); with none left everything
is right (`EndSound`). A restart of VPP makes everything wrong that a replay will apply again
(`RestartSound`), and a recovery begins with empty registries, so while it waits the invariant
speaks of those (`Known`). `Registered` is why the registries are needed: a deletion detaches exactly
what is registered, so every member of a domain has to be. `Named` is about the indices: no two
interfaces have one name, and a name found under an index is the interface meant. `scarred` is needed
where a remembered index has been given to another interface meanwhile; `displaced` grows with
exactly the ports an operation takes out of the domain of another switch.

`SwitchingInv` says nothing once an operation failed, and `RecoveryConverges` is about what comes
after that, so it has an invariant of its own which assumes nothing of what a recovery finds.
`Recovering`: the registries are empty when a recovery begins, and what has been applied since is
`Back`, unless an operation failed and is on the list that becomes the alarms. The bonds are the
hard part: one that VPP knows by name is deleted and made anew, what is registered is what was made
since, and the pruning takes away every bond that is not declared and every interface without a
name (`BondsBack`, `Pruned`). This needs two things to hold whatever fails, in commits too: a
remembered gateway or bond is one that VPP has under that index (`Held`), and physical ports, and
bonds with VLAN sub-interfaces, have an interface of their own (`Firm`). That there is always an
index left to make an interface (`Roomy`) is no matter of course either: a call that fails after
the creation of a gateway or a bond leaves an interface that nothing remembers, and the next attempt
makes another. `Tidy` counts these leftovers: every other interface has a name of its own
(`Lone`), an operation leaves at most one behind and only when a call fails (`Costs`, one lemma per
provider operation), a daemon that restarts forgets at most one gateway for each switch
(`Forgotten`), and a restart of VPP clears them all. `RoomAssumption` makes room for that many.

**Resources.** What the ledger grants is defined by going through the machines in the order of
their names, and proved by induction over them. An induction theorem takes a predicate, which the
provers cannot instantiate, so it is stated with sets: a non-empty set of naturals has a
least member (`LeastMember`, from the well-foundedness of inclusion on finite sets), hence what
holds at 0 and is handed on holds up to `N` (`Induct`). `LedgerInv` is what holds after `n` machines:
shares of those served are disjoint, isolated, on their node and of the size asked for, and pages used and
left add up to the pool. `SharesAreKeptBehind` compares two ledgers step by step.
`Accounted` relates the domains to the ledger: a machine nothing went wrong with is defined by the
configuration that was applied to it last, and runs as defined unless it was defined while running.

**DataPlane.** The history variables say which requests met, `ShapeInv` what a request in
progress is, `GuardInv` what it still knows of its check (an unbind asked the VPP of its
generation). `RestartInv`: restarts that do not overlap find the file as they wrote it.
`MarkedInv`: between restarts the file is the applied section. `RecordInv` and `NamedInv`: memory
and disk agree on the bindings, and a card that is missing there was bound by its address.
`CardInv`: requests that do not overlap on a card find its driver as they left it.

**Images.** `JobInv`: a download that nothing overlaps continues where its `.part` ends, and has
hashed exactly what the `.part` holds. `InodeInv`: no inode is under two names, and two handles
to one inode are of the same image; what a stale handle writes therefore damages no other
image. `ReadyInv`: what is shown as ready, what a restart would show as ready, and what is
about to be registered is in the store.

**Workloads.** The plan touches each object at most once, and what it does not touch is the same
in both configurations (`PlanTouches`, from what `SetToSeq` lists), so a position in the plan tells
which configuration an object follows. `ProgressInv` says it: what is done and not undone follows
the new configuration, everything else the committed one, `scarred` apart; a recovery beside a
commit keeps it, because what it restores is untouched by the plan or else `scarred`. For the disks,
`ValidInv` (machines name images of machines), `DoomInv` (an image whose deletion passed the
reference check is named by no machine, or a commit came after the check) and `BackInv` (a disk whose
image is gone is of an image its machine does not name). The store is a part of the state, so
`WorkloadsInv` contains the `IInv` of `Images`, and its lemmas on the steps of the store
are used as they are.

**Access and Sessions.** `GuessInv` relates the counter of failures to the history of guesses:
it counts those after the last lock, and they all came when that lock had ended. Then any
`Threshold + 1` guesses in a row have two on both sides of a lock. `RequestInv`: a request under
way is a program of a handler, and two of one holder have mixed. `LockInv`: who has the candidate
has the lock. `HolderInv`: what a request read of the candidate before it writes back is still
there. `HandInv`: a clean candidate that belongs to no session is still held by a request
that will hand it back (`endOneShot`), or is none.

**Events.** `HistoryInv`: the ring is the last events without a hole. `QueueInv`: the queue
of a client has every event after the last one it read, up to its gap. `ToldInv` is the heart: of
what a client may yet read, be it in its queue or in the history it gets when it connects again, the
*last* event about an alarm says what the table says of it, and an alarm about which there is no
event is in its view as it is in the table. For a client that has read everything this is `ViewTrue`.

### What the attempts found

Proofs that failed for a good reason changed the models. The exceptions of `ReadyVerified`
(`loose`) missed a deletion whose entry could not be saved and a restart between the halves of
a deletion; TLC shows both with the four events the run of `Images` has. `Attach` of `DataPlane`
took a card that another request had given a driver meanwhile, which the kernel refuses.
`Converged` and `DeletionSpares` of `Routing` held in their run and were false with more events or
other configurations, for four reasons, all of the code. The patrol resolves the alarm about a residue
when its VRF is declared again, in place or not (`provider.go:386`). A vNIC of one switch that is an
interface of another switch's VRF is registered with both, since applying a VRF takes it from one of
the two registries only (`l3.go:262`), and the deletion of either takes it out. When the
compensation of a vNIC's move fails, the registry goes on naming the new switch while later commits
put the vNIC back where it was. And NAT whose outside interface is in the inside VRF passes
`Validate` and is refused by `ApplyNAT`, so that a compensation runs, and leaves a moved port in the
default table, without any call to VPP having failed. The two properties now say which of these they
except (`trusted`, `undone`, `AllHomed`), and nothing else; they used to except every commit after
a failed call. A deletion of a VRF that has read its interfaces goes on when VPP goes down, and fails;
before, the model made it wait. `MainBacked` of `Workloads` was true in its run and false with a second image: a machine moves
from one image to another and keeps its disk, the first image is deleted, which its reference check
allows, and while it is being downloaded again (`checkImages` accepts that) a commit moves the machine
back; its disk is then an overlay of a file that is not there. The property now excepts exactly
these images (`Orphaning`), and no longer those of objects an operation failed on, nor the `loose`
ones: it holds for them too.

In `Switching` the exception for displaced ports hid that a deletion goes by indices which VPP has
given out again: it was so broad that any switch might lose any port to it. It now names exactly
what an operation may take, and what is left is a disagreement of section 5 (`OthersSpared`).
Two definitions were wrong as well: the registry of ACL bindings knew all that VPP had, not
only what its switch had bound, and `Create` could give two new interfaces one index. In `Resources`
a machine that is there from the start was defined with its whole share, whatever its number of
vCPUs, a pool was looked up by the first entry of its size, and it was not said that the first
configuration is one the engine accepts.

### Only model-checked

- All liveness: `ExpiredIsRolledBack`, `DeferralEnds`, `RestartRecovered`, `AlarmsSettle`. Fairness
  and `ENABLED` are out of the prover's reach.
- The `Statements` group: what the recursive definitions (`Walk`, `Emit`) compute for every
  input is induction over trees, and the modules have `RECURSIVE` operators, which the provers
  cannot use.

## 5. Where the code departs from its documents

`workloads_undo` is a run whose only property is what the code says of itself: *"when any step
fails, the operations done are compensated in reverse order and the substrate is back in the state
before the change"* (`apply.go:15`). A commit that deletes a VM removes its disks; when a later
operation fails, the undo defines the VM anew and clones a fresh disk. Nothing failed in the undo,
no alarm is raised, the guest's data is gone.

The others are stated as properties of the modules as well. They are violated; putting one into
the configuration named (with the changes in brackets) makes TLC show how.

| Property (add to) | The document says | The code |
|---|---|---|
| `IdleLockReleased` (`ConfigEngine_live`) | an idle candidate lock is released automatically (skeleton design, line 140) | after a restart `Engine.holder` is empty and the sweep deletes the row of holder `''` (`engine.go:690`) |
| `SubstrateFollowsCommitted` (`ConfigEngine_safety`) | rolls back to the configuration before the change (specification, line 150) | the automatic rollback stores a revision and does not call the applier (`engine.go:741`) |
| `ExpiredIsRolledBack` (`ConfigEngine_live` [`ClockSteps = TRUE`]) | "time.AfterFunc guarantees it fires in time" (`engine.go:717`) | if the wall clock is set back the one-shot timer comes before the deadline and is not armed again |
| `MgmtChangeRevertible` (`ConfigEngine_safety`) | a management change can be rolled back during the confirmation period (specification, line 159) | not after a crash between storing the revision and the request (`engine.go:536`) |
| `RoutesRestored` (`CommitApply_safety`) | `apply.go:15`, as above | undoing a VRF change applies the old definition, which removes no route (`apply.go:358`) |
| `SpanRefsLive` (`CommitApply_safety` [the `Span...` objects of `MCCommitApply`]) | references are deleted after what they refer from (`apply.go:267`) | a bond goes before the mirroring session that uses it (`apply.go:545`) |
| `CompensationRestores` (`Routing_safety`) | `apply.go:15` | a port moved between two VRFs is in neither after the undo, which a NAT refusal brings about with no failed call |
| `DeferralRegistered` (`Routing_safety`) | the alarm about a deferred deletion ends by itself when the table is cleaned up (`orchestrator/alarm.go:80`) | a patrol or recovery between the registration (`l3.go:491`) and the alarm (`apply.go:192`) still has the old configuration, takes the VRF for declared and removes the registration; the alarm raised then is resolved by no retry |
| `OneDomain` (`Routing_safety` [`Cfg <- GuestCfg`, `Init0 <- Guest`]) | an interface belongs to one table only at a time, the registration is the only basis of deletions (`l3.go:236`) | a vNIC is registered with its switch and with the VRF it is an interface of; applying takes it from one registry only (`l3.go:262`) |
| `ResidueResolved` (`Routing_safety` [`Iface <- SubIface`, `Sub = {sub1}`, `Vnic = {}`, `Cfg <- ResidueCfg`, `Init0 <- Pooled`, `MaxEvents = 3`]) | the table is gone or declared again, the residue no longer holds (`provider.go:390`) | declared again is not in place: the alarm ends although the compensation left the VRF incomplete (`provider.go:386`) |
| `ReplayIdempotent` (`Routing_safety` [`Iface <- SubIface`, `Sub = {sub1}`, `Vnic = {}`, `Cfg <- SubCfg`, `Init0 <- Vlan`]) | replaying is idempotent and safe (`main.go`) | after a restart of the daemon alone, an L3 switch on a VLAN sub-interface can no longer be applied |
| `MovedPortsBridged` (`Switching_safety`) | converges the switch to its bridge domain (`l2.go:174`) | a port that moves to a switch applied earlier in the commit is detached again by the one it leaves (`l2.go:206`) |
| `OthersSpared` (`Switching_safety`) | detaches members that no longer belong to the bridge domain (`l2.go:175`), reclaims the VLAN sub-interfaces this switch created (`l2.go:275`) | both go by remembered indices (`l2.go:205`, `l2.go:253`, `l2.go:287`); after a bond was made anew VPP may have given one to an interface of another switch, which is then detached or refused |
| `RetryResumes` (`Images_safety`) | the part is kept, running the command again resumes (`download.go`) | a download that broke after its last byte asks for an empty range, is answered 416 and fails for ever (`download.go:223`) |
| `ReleaseSparesEdits` (`Api_safety`) | a dirty candidate is not released (`configuration.go:44`) | the check and the release are two engine calls, and an edit fits between them (`configuration.go:50`) |
| `PinsExclusive` (`Resources_safety`) | pinned cores are exclusive (FR-CMP-002; `resources.go:12`) | a commit skips unchanged machines although the ledger has moved their share (`apply.go:443`) |

## 6. Other behaviour a reader of the code should know

Found while modelling; each is what the modules do, and the reason for an exception in a property
or an abstraction.

- *Engine.* The error of `ClearConfirmed` is ignored (`engine.go:785`). A commit by somebody who is
  not the holder confirms a pending commit before it is refused. `Options.OnEvent` is never set, so
  automatic rollbacks and lock timeouts raise neither event nor alarm.
- *CommitApply.* A machine whose vNIC is gone is defined again all the same (`compute/provider.go:86`):
  when a commit deletes both and the undo of the vNIC's deletion fails, the machine refers to a vNIC
  that is not there, and the alarm is about the vNIC only. The same goes for containers and for NAT.
- *Routing.* Recovery and commit share no lock (`main.go:520`, `l3.go:296`). Changing the NAT domain
  forgets a pool and keeps its registry entry; interfaces taken out of a VRF that stays declared are
  not unbound; NAT is planned only when the `nat` section itself changed.
- *Switching.* A deletion of a bridge domain that VPP refuses leaves its members detached without an
  alarm; the BVI of a gateway no longer declared stays. When a bond changes its mode its VLAN
  sub-interface goes with it, and the next change of its switch fails when it detaches the old index.
- *DataPlane.* `Bindings.load` marks the record as loaded before it reads it. Overlapping or failed
  restarts make `pending_restart` wrong until the next one. The guard of an unbind is skipped while
  there is no session with VPP. The record of an unbind may be removed after a bind of the same card.
- *Images.* Two downloads of one name share the `.part`, and each hashes its own stream. A deletion
  cut short between file and entry leaves a "ready" image without a file. Downloading a ready image
  again makes it unready while machines use it.
- *Workloads.* References of an image are counted for main disks only. `VM_CRASHED` of a machine that
  is deleted is never resolved. A change of a running container is ignored (`docker.go:128`). A failed
  operation on a new machine leaves its domain and disk. A recovery that read the configuration before
  a commit re-creates a machine the commit deleted.
- *Sessions.* `commit and-quit` leaves configuration mode even when the commit failed, and never
  releases the lock. A REST write without auto-commit that fails leaves a clean lock until the idle
  timeout. A logout discards the edits of every session of that user. A token keeps its class until it
  expires.
- *Resources.* A main core 0 reads as not declared. Between the operations of one commit a machine
  added may share cores with one not yet deleted.
- *Statements.* `delete interfaces <if> disable` disables the interface. Deletes of an absent L3
  address, ACL, route distance, port member or vNIC switch create the element. The syslog host's
  parameters, `serial console` and `vcpu count n pin b` are set by their deletes. `sriov ... vf` is
  always refused by `set` (`vf` against `vf_id`). `set virtual-switches x l3-interface` without a type
  makes a VRF no statement can delete. A user with only a password disappears on replay; so do shells
  left by deletes other than those of `management` and `nat`, and an L3 interface without address.
  Configurations that `display set` cannot show are listed in `Inexpressible`.

## 7. Not modelled

`PROJECT.json` lists every component with its status. Left out on purpose: rendering and parsing of
command output, one-to-one adapters to VPP messages beyond what the providers rely on, reads of
sysfs, metrics, the terminal client. Left out within modelled components: snapshots, console and
cloud-init of machines; the merge of a PUT body; redaction; sub-interfaces, name syntax, completion
and annotations in statements; the backup and software services, which call host tools one after
another and keep no state of their own (zeroize, as it bears on machines and images, is in
`Workloads`). Passwords, digests and tokens are values that can only be compared.
