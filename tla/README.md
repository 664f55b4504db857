# Super-Proxy: TLA+ verification project

Super-Proxy runs a pool of OpenVPN tunnels to public VPN nodes, puts each tunnel
into an *egress slot* with its own Linux policy-routing table, and lets Xray
balance client connections over the slots. A scheduler keeps the slots filled and
healthy; an agent API lets an operator switch a slot to a chosen node by hand.
This project models that machinery in TLA+, model-checks it with TLC on small
instances and proves the central safety properties with TLAPS for instances of
every size.

## 1. Inventory

| Component | State it keeps | Operations | Talks to |
|---|---|---|---|
| Scheduler worker (`internal/scheduler/scheduler.go`) | `ActiveSlots`, `DrainingSlots`, `StandbyNodes`, `ManualOverride` under `Mu`; `refillCh` | `monitorLoop`: cleanup of draining slots, health check and draining of active slots, promotion of standbys, `SyncActiveSlots`, capacity fill, qualification of one candidate | tunnels, routing, Xray, database |
| Manual switch (`internal/agentapi/handlers_write.go`, `operations.go`) | one goroutine and one operation record per switch | request, admission, connect, verify, Xray 4a, route 4b, commit 4c, rollbacks | shares every map of the scheduler; takes `Mu` only for short sections |
| Slot leases (`slot_controller.go`) | `Generation`, `Owner` per slot, own mutex | acquire, validate, release | manual switch |
| Node status machine (`fsm.go`, `models/node.go`) | `nodes.status`, `last_error`, cached credentials | `CanTransition`, `TransitionNode`, `FailNode` | everyone who moves a node |
| /24 diversity (`diversity.go`) | none | `CheckPrefixDiversityLocked` | request, both qualifications, both commits |
| OpenVPN tunnels (`internal/openvpn/manager.go`) | a process, an interface, `State`, `doneChan`, a waiter goroutine, a temporary file with credentials, a share of a bypass route | `StartTunnel` with its five exits, exit, `cleanup`, `Stop` | scheduler, manual switch, kernel |
| Routing (`internal/routing`) | tables 100 + slot, 200 + slot, 100 + virtual slot; bypass routes with reference counts and a gateway cache | setup, drain, clear; acquire, release | kernel |
| Xray supervisor (`internal/xray/supervisor.go`) | process, `state`, `activeOutbounds` and the runtime rules of the process | start, monitor, restart, stop; activate, drain, synchronise with read-back | Xray API, scheduler, manual switch |
| Discovery (`internal/discovery`) | refresh coordinator, rows, credentials in memory | fetch, vet, store, request a fill | database, reputation, scheduler |
| Reputation (`internal/reputation`) | aggregate cache, per-provider cache, evidence rows, backoff of each provider | `EvaluateIP` with one goroutine per provider, merge, failure policy | providers, database; called by vetting, worker and switch |
| Database (`internal/database`) | rows across processes | migration, recovery of runtime states, `database clean` | every start of the manager |
| API, configuration, metrics, command line | sessions, files | request/response, parsing, wiring | |

**What is hard here.** The worker and any number of manual switches share the
slot maps, the kernel tables and Xray's set of slots. The switch holds `Mu` only
for its validation and its commit; between the two lie a reputation query, an
OpenVPN start, a health check and a speed test, in which the worker runs whole
cycles. Tunnel processes die at any moment and are noticed in two steps
(`State = FAILED`, then `doneChan` closed). Xray and the kernel can refuse each
single change, so every multi-step operation has a rollback, whose steps can also
fail. Node rows are changed by copies read much earlier, by the worker, by a
refresh that fetches, vets and stores minutes apart, and by the process that
crashed before this one. A tunnel's caller, its waiter and `Stop` all clean up after
it. Answers of reputation providers pass through two caches and the database. The hazards in
`PROJECT.json` give the line where each of these bites.

**What makes the components correct.** A tunnel has one owner; a slot's table
leads to the slot's tunnel; Xray sends new connections only into slots that have a
tunnel and never into a draining one; a switch leaves the old tunnel alone until
its cutover and rolls back to the tunnel that is really there; override, lease
and switch cover the same interval; no two nodes in use share a /24; capacities
hold; dead and draining tunnels go away, empty slots are refilled, switches end. What
a tunnel holds on the host is released exactly once, on every path. A candidate was
accepted by the last refresh, a row claims nothing a dead process did, and a verdict
is never fresher or kinder than the answers it rests on.

## 2. Modules

| Module | Models | Checked by | Proofs |
|---|---|---|---|
| `NodeFSM` | `allowedTransitions`, `CanTransition` | with the modules that extend it | |
| `EgressSlots` | scheduler worker, manual switch, leases, tunnels, slot tables, Xray's set, rows | `MCEgressSlots` | `EgressSlotsProofs`, `EgressOwnershipProofs` |
| `ActiveSet` | what the Xray supervisor promises its callers | refined by `XrayRouting` | |
| `XrayRouting` | its candidate-commit transactions | `MCXrayRouting` | `XrayRoutingProofs` |
| `XraySupervisor` | life of the Xray process, published endpoint | `MCXraySupervisor` | `XraySupervisorProofs` |
| `TunnelHost` | what a tunnel owns on the host: process, credentials file, bypass route; shutdown | `MCTunnelHost` | `TunnelHostProofs` |
| `PolicyTables` | numbers of the slot, draining and candidate tables | `MCPolicyTables` | `PolicyTablesProofs` |
| `ProviderRules` | the decision of each of the six reputation providers, as operators | with `Reputation` | with `ReputationProofs` |
| `Reputation` | `EvaluateIP`: caches, durable evidence, merge, policy, backoff; admission | `MCReputation` | `ReputationProofs` |
| `NodeIntake` | discovery refresh beside the worker, credentials in memory, crash, migration, recovery, `database clean` | `MCNodeIntake` | `NodeIntakeProofs` |

**How they fit together.** `EgressSlots` is the core. Each of the others opens a step
that the core takes as one: `XrayRouting` the call of the supervisor (with `ActiveSet`
as the contract between the two), `TunnelHost` the start and the stop of a tunnel,
`PolicyTables` the choice of a table, `NodeIntake` the changes of the rows
(`Discover`, `CleanStaleNode`) and what happens to them across processes, `Reputation` the
admission verdict. They are checked apart: their product would be out of reach, and
what they share is narrow enough to be named. Left for later: a joint refinement of the
rows of `EgressSlots` and `NodeIntake`.

## 3. `EgressSlots` and the code

**State.** Every variable is annotated with the field it stands for. `holder` is
the generation of the lease that owns a slot (0: `Owner == ""`); `xact` is
`Supervisor.activeOutbounds`; `quarantine` are FAILED rows whose `last_error`
carries discovery's blacklist evidence; `tun[t].stat` and `op[s].stat` are the
in-memory copies of `node.Status` that transitions are validated against, which
is why they are kept apart from `status`, the database row.

**Lock.** `Scheduler.Mu` is held by the worker exactly in the program points
`Locked`; a critical section of a switch is one action guarded by `MuFree`.
What a switch does outside `Mu` (Xray 4a, route 4b, tunnel start, verification)
is separate actions without that guard, so the worker's steps, locked or not,
come in between.

**Worker.** `Tick` / `Refill` start a cycle; `Cleanup*` is
`cleanupDrainingSlots`; `HealthPass`, `DrainRefused`, `Retire`, `DrainMark`,
`DrainRouted`, `DrainRollback` are the first half of `reconcileActiveSlots` with
`transitionToDrainingLocked`; `Fill*` is the promotion loop, `Sync` the
`SyncActiveSlots` call; `Capacity*`, `Progress` are `fillToActiveCapacity`;
`Select` to `Commit` are `maintainStandbyPool`.

**Switch.** `Request` is `handleSlotAction`; `OpAdmit` to `OpUnlock` are
`executeManualSwitch`, one action per unlocked section; every error path ends in
`OpEnd` (lease) and `OpUnlock` (override).

**Abstractions.**
- `Tunnel.Stop` is one step: it blocks until the process is reaped. The kernel
  drops routes through a vanished interface from both tables (`Unrouted`).
- The rollback of a switch (restore the table, exclude the slot, stop the
  candidate, fail the node, release the lease) is one step; each of its calls may
  still fail.
- Start-up polling of OpenVPN, health layers, speed test and scoring are their
  outcome. Order by score and region filter are a nondeterministic choice among
  selectable candidates. `"skip"` stands for a row whose recorded exit of an
  earlier connection makes the selector pass it over.
- `SetupSlotRouting` and `ClearSlotRouting` flush a table and add a default route.
  Each is one step, with the outcome their failing commands leave: a flush that fails
  (`"flush"`) keeps the old route, which then refuses the new one; an `add` that fails
  (`"route"`, or a vanished interface) leaves the table empty. `ClearSlotRouting` looks
  at neither error (`Cleared`), `SetupSlotRouting` only at that of the `add`
  (`RouteFailures`). Not modelled is the moment between a flush and an `add` that both
  work (`route.go:43-46`, `75-79`): for it the table of a slot in use is empty.
- The drain timeout (30 s, ticks of 10 s) is `drainAge`; the timeout branch is
  also enabled earlier, because a long qualification delays the ticks while the
  clock runs.
- Tunnel handles bound the tunnels alive at one time; running out of them is a
  failed start.
- `Discover` applies one node's verdict of a batch in one step; `NodeIntake` has the
  batch with its gaps.
- The fields of `SlotController` that mirror the slot (`ActiveTunnel`, `State`,
  ...) are written and never read by a decision, and are left out; so are
  operation progress records, counters and logging.
- Shutdown is in `TunnelHost`, candidate and virtual tables are in `PolicyTables`.

### `XrayRouting`, `ActiveSet` and the code

`EgressSlots` treats a call of the Xray supervisor as one step that takes effect or
fails (`xact`). `ActiveSet` states that promise, with the early returns of
`ActivateSlot` and `DrainingSlot`; `XrayRouting` models the code behind it and
`KeepsPromise` says that it implements `ActiveSet` (mapping `set <- activeOutbounds`,
and no call while none is in progress).

`mem` is `activeOutbounds`; `rules[i]` is the set of slots the rule of ingress `i`
(SOCKS, VLESS) selects in the running Xray, empty for `block`. `Supervisor.mu` is
held while `pc # "idle"`; that is why a successor process is launched between calls
only. `AdRules` is `applyCandidateRoutingLocked` up to `api adrules`, `ReadBack`
the verification with the commit that follows under the same lock; `Goal` is the
candidate, or the old set during the rollback (`pc` in `rollback`, `recheck`).
`unsafe` marks the state the code logs as `CRITICAL SAFETY STATE`; `kept` remembers
whether the last adrules left an ingress its old rule and reported success.

The failures: `refuse` (adrules fails without effect), `lost` (it fails although
Xray took the rules), `silent` (it succeeds although an ingress keeps its rule),
`query` (lsrules or bi fails), `crash`. The rules of one adrules call change in one
step. The `bi` query asks for a balancer that the configuration always contains with
the right selectors, so its content is part of `Matches`, its failure of `query`.

### `XraySupervisor` and the code

`spc`, `mpc`, `watcher`, `stpc`, `rpc` are the program counters of `Start`,
`monitorLoop`, the context watcher, `Stop` and `Restart`; each critical section of
`Supervisor.mu`, and each unlocked call between two of them, is one action.
`proc[p]` is the process of one `exec.Cmd`: `booting` (running, not listening),
`ready`, `dead` (not yet waited for), `reaped` (`Wait` returned, its `processDone`
closed). `mcmd`, `stcmd`, `rcmd` are the copies of `s.cmd` the goroutines keep.
`endpoint` says whether a VLESS endpoint is registered (profile.go); the address is
left out, and VLESS is taken as enabled.

`waitReady` connects to ports, so it succeeds when any Xray listens there, and fails
when none will, or by the failure `unready`. A death that happens while it still
polls is such a failure. `stubborn` is a process that ignores SIGTERM; SIGKILL
always works. A panic (`mpc = "panic"`) ends the program. `Stop` and `Restart` are
called at most once each and only after `Start` has returned; the supervisor's
context has no parent in the manager, so only `Stop` cancels it. At this commit the
manager calls `Start` and `Stop`; `Restart` is called by tests only, which is why
the safety properties speak of the time before it is called (`NoRestart`).

### `TunnelHost` and the code

One tunnel has up to three goroutines: the caller of `StartTunnel` and later its owner
(`pc`), the waiter that owns `cmd.Wait` (`waiter`), and `Stop` (`stop`).
`cleaned` is `cleanupOnce`: whichever comes first wipes the credentials file (`conf`)
and gives up the reference (`ReleaseEndpoint`). `EndpointManager.mu` covers a whole
acquire or release, so each is one action, the `ip` commands and their failures
included: `Ensure...` finds the gateway (`cached` for 60 s: `CacheExpire` may come
late), looks at the route that is there, adds or replaces it and reads it back.
`route` starts with whatever other programs left. A process may ignore both signals
(no fairness of `ProcessExit`): `Stop` gives up waiting after its two timers and
cleans up all the same. `Shutdown` cancels the context; `monitorLoop` takes it up at
its next `select`, then stops the tunnels in its maps under `Mu` (`sweep`); a switch
that is still working on a candidate of its own is not waited for. IPv6 takes the
same steps on its own table and is not told apart.

### `PolicyTables` and the code

`table` holds the default route of every table somebody relies on: the slots' and the
draining tunnels' and the kernel's own 253 to 255. The numbers are the code's. A
write to any other table concerns only the candidate and is not recorded. `next` is
`standbySlotCount`, which `maintainStandbyPool` increments on every turn, with or
without a candidate, and `executeManualSwitch` for its candidate.

### `ProviderRules`, `Reputation` and the code

A provider's report is reduced to what its decision reads (`ReportType`: a score,
traits, an abuse flag, whether the address is known at all); `Rule` gives the verdict
of each `CheckIP` with the code's thresholds. `Reputation` follows one address.
A call's goroutines are `ask[c][p]`: look in the provider cache (`FromCache`), in the
database (`FromDurable`, `Miss`), then ask (`Query`, `Answer`, `QueryFails`); each
merges under the mutex in one action. `Finish` applies the failure policy and stores
the aggregate until the earliest expiry of its evidence. Time is a bounded counter in
units of a query's time limit and stands still while a step that needs none is
pending. `LegacyRow`s lack the decision, as rows written before it was stored; the
history part `said` of a piece of evidence is what the provider had really said.
Left out: what does not decide (country, ASN, wording), the backoff's length (it may
end at any time), prefix and ASN statistics.

### `NodeIntake` and the code

A row is `status`, `fails` and `evid`: whether its reputation columns speak of the
endpoint, of an observed exit or of a blacklisted endpoint. The refresh runs through
`Trigger`, `Fetch`, one `Vet` per node, `ReadSecrets` (outside the transaction) and
`Store`; between any two of them the worker (`Select` to `Qualify`, `GiveUp`), the
pool (`PoolMove`, `PoolDrop`), the manual switches (`Request` to `OpMove`), the
staleness sweep and the expiry of credentials go on.

Everybody who moves a row does so from a copy of it read earlier: `wst`, `wfc` are the
worker's, `pool[n]`, `pfc[n]` those of its tunnels, `op[h].st`, `op[h].fc` those of a
switch. Transitions are checked against the copy's status, and `FAILED` writes the
copy's fail count plus one over the row's (`fsm.go:148`). `Recheck` is the audit write
of `REPUTATION_CHECKED` before a connection. A switch (`op[h]`) ignores refused
transitions (`TryTransition`), writes the endpoint's verdict into a row that may be
STANDBY at the time, and keeps its handle while its tunnel serves and drains; leases,
slots and routes are `EgressSlots`' business, and `InUse` is the part of them a row sees.
A failing write of a single row (`CONNECTING`, `scheduler.go:705-708`, or the audit
write before it) is not modelled: the candidate is given up there with its row as it was.

`Crash` loses all but the rows. `Start`, `MigrateCopy`, `MigrateMergeFails`,
`MigrateDelete`, `Recover` are `InitDatabase` and the recovery, a statement each, and
may be cut off after each. `CleanRotate`, `CleanDone`, `CleanRestore` are
`database clean`, which runs with the manager down; a second rotation while a backup
exists uses another name in the code and is left out.
`last`, `own`, `failed` and `unmerged` are history.

## 4. Runs

All `EgressSlots` instances use two nodes and two or three interchangeable tunnel
handles (no symmetry in the liveness run): enough for a slot's tunnel, its
draining predecessor or a standby, and, with three, a candidate. `Faults` selects the
failures the environment may inject; a run enables those that matter to its question.

| Run | Instance | Shows |
|---|---|---|
| `slots_faults` | 1 slot, 1 switch, all fault kinds but `"flush"` | `SoleOwner`, `NoMisroute`, `NewConnectionsAvoidDraining`, `NonDestructiveSwitch`, `ExcludedBeforeRemoved`, `StandbyBound` under failure of any step |
| `slots_two` | 2 slots, a switch on each, rows changed by discovery and staleness, a quarantined node, failing flushes | `LeaseExclusive`, `NoBlackhole`, `DistinctNodesDiverse`, `RollbackTargetFresh`: two check-then-commit sequences and the worker's race |
| `slots_live` | 1 slot, 1 switch beside the worker, dying processes, a tick within the drain timeout, both nodes in one /24, fairness | `DeadTunnelLeaves`, `DrainingEnds`, `EmptySlotRefilled`, `SwitchEnds`, `LiveSlotBalanced` |
| `xray_faults` | 3 slots, 2 ingresses, 3 failures of every kind, fairness | `FailClosed`, `SurvivorsUninterrupted`, `KeepsPromise`, `RuntimeConverges` |
| `sup_stop` | `Start`, recovery, `Stop` and `Restart`; 6 processes, 3 failures of every kind, fairness | `NothingRunsAfterStop`, `OneXray`, `EndpointWithdrawn`, `StopEnds` |
| `tunnels` | 2 tunnels to one server, a change of the uplink, every failure, shutdown at any point, fairness | `RefCountExact`, `RunningBypassed`, `CredentialsWiped`, `ShutdownReleases`, `ShutdownEnds` |
| `reputation` | successive calls on one address, 2 providers, both policies, 5 units of time, a restart, failing queries and statements, legacy rows | `VerdictFresh`, `AdmittedByAll`, `EvidenceHonest`, `VerdictIsWorst` |
| `intake` | 1 node with a row under the old id, 2 refreshes, 2 candidates of the worker, 2 manual switches one after the other, 2 starts, every failure | `NoInheritedClaims`, `CandidatesVetted`, `FailedNodesRest`, `HistoryKept` |
| `drain_overwrite` | violation | `NoOrphan`, finding 1 |
| `sup_panic` | violation | `WaitedOnce`, finding 2 |
| `table_collision` | violation | `CandidatesIsolated`, finding 3 |
| `tunnel_death_leaks` | violation | `FailsClosed`, finding 4 |

Deadlock checking is off where the system may really stop: a stopped supervisor, a
failed `Start` and a panicked program are final; so are a manager that has shut down
and a database whose manager has used up its starts.

**Bounds.** `MaxGen` (switches per slot), `MaxChurn` (row changes from outside),
`DrainTicks`, `MaxStandby`, `MaxAttempts` are small numbers that keep the
interesting case: a row changed between a read and a write, a tunnel that stays draining
for a tick because conntrack is busy or unknown (`DrainTicks` is 1 in every run), a drain
that ends by timeout and one that ends early, a full pool. Two slots
are what a cross-slot conflict needs. Every run has `MaxGen = 1`, one switch per slot: a
second switch on the same slot, with the lease of the first released, is met by the
theorems only, which hold for any number. `"flush"` is injected in `slots_two` and not
in `slots_faults`: with `"xray"` it would be the case that `NewConnectionsAvoidDraining`
excepts (a rollback to the empty slot that neither clears the table nor takes the slot
from Xray); the theorems cover every set of faults. For Xray, three slots give a set that loses one
slot and keeps a balancer; three failures are a failed candidate, a failed rollback
and a crash; `MaxProc` exceeds the crashes and restarts, so a launch never fails for
want of a process. For a host, two tunnels to one server are what a shared reference
needs, and one change of the uplink makes the cached gateway stale. For reputation, two
providers let answers arrive in both orders and one fail while the other answers; TTLs
of 2 and a clock of 5 let an answer expire and be cached a second time; one caller
with a restart meets every cache in every state another caller could leave it in
between two of its steps except a change in the middle of a call, which the theorems
(any number of callers) cover. For the rows, two starts are a crash and a recovery, two refreshes a list that changes its
mind. Rows of different nodes meet nowhere but in the choice of a candidate and of a
list, which are free, so the instance has one node; two nodes, or two switches at a
time, exceed what can be checked in a few minutes and are covered by the theorems.
The proofs of section 5 remove the bounds for
the properties they cover.

**Fairness.** `FairSpec` assumes weak fairness of the worker (its ticker fires and
every call it makes has a timeout) and of each waiter goroutine (`cmd.Wait`
returns once the process has died), and strong fairness of each switch: it competes
for `Mu` with a worker that takes it again and again, and Go's `sync.Mutex` goes
into starvation mode, which hands the lock to a waiter after 1 ms. Requests,
process deaths, discovery and staleness have no fairness.
`XrayRouting!FairSpec` assumes that a call in progress goes on (every command it runs
ends), and strong fairness of `Launch` and of the worker's synchronisation, which
compete for `Supervisor.mu` with other calls: `sync.RWMutex` does not starve a writer.
`XraySupervisor!FairSpec` assumes weak fairness of every goroutine, whose waits all
have timeouts or wait for a process that is dead, and that a launched Xray which
does not fail gets to listen. Calls, crashes and failures have no fairness.
`TunnelHost!FairSpec` assumes weak fairness of the starter, the waiter and `Stop` of
each tunnel (their waits have timers), of the shutdown pass and of `main`; no process
need ever exit, and no switch need come.

## 5. Proofs

`EgressSlotsProofs` proves, from `EgressAssumption` alone (any sets of slots,
tunnels and nodes with finitely many nodes, any faults, any bounds):

| Theorem | Property | Argument |
|---|---|---|
| `TypeCorrect` | `TypeOK` | `TypeInv = TypeOK /\ LocalsTyped`; the second part says which local variables are set at which program point, without which e.g. `Append(standby, cand.tun)` need not be a sequence of tunnels |
| `LeaseSafe` | `LeaseExclusive` | `LockInv`, below |
| `RollbackSafe` | `RollbackTargetFresh` | `LockInv`, below |
| `ExclusionFirst` | `ExcludedBeforeRemoved` | from `TypeInv /\ LockInv`: of all steps only `Retire` and `DrainRouted` empty a slot |
| `PoolBounded` | `StandbyBound` | `PoolInv`: between `Select` and `Commit` there is room for one more |

`LockInv` conjoins `LeaseExclusive`, `RollbackTargetFresh`, `DrainGuarded` and
`SwitchConnected`. None is inductive alone: that the remembered tunnel is still in
the slot needs that the worker leaves an overridden slot alone, which holds in
`DrainRouted` (it tests nothing) only because the slot it is draining was not
overridden when it took the lock and no `Request` can come in while it holds it
(`DrainGuarded`); that in turn needs that override and switch coincide
(`LeaseExclusive`). `WorkerRespects` states the worker's side once: it changes no
slot a switch holds and takes a tunnel only out of a slot Xray no longer uses.

`EgressOwnershipProofs` extends it, from the same assumption:

| Theorem | Property | Argument |
|---|---|---|
| `OwnershipSafe` | `SoleOwner` | `OwnInv`: slots, draining map, pool, worker and switches hold different tunnels (`SlotsApart`, `PoolApart`, `CandApart`), all of them started (`OwnedAlive`) |
| `DiversitySafe` | `DistinctNodesDiverse` | `DiverseInv` with `LocalsInv` (a tunnel in hand is to the node in hand) and `TunnelSteps` (nobody changes the node of a tunnel that has an owner): every commit repeats the check under its own lock |
| `RoutesSafe` | `NoMisroute` | `RouteInv`: a slot's table holds no other tunnel than `Target`, which is the candidate between steps 4b and 4c and the slot's or the draining tunnel otherwise |
| `BlackholeFree` | `NoBlackhole` | `Balanced`, about one step: how a slot can be in Xray's set afterwards |
| `DrainingAvoided` | `NewConnectionsAvoidDraining` | `Balanced` with `RouteInv` and `OwnInv` of the next state |
| `SwitchNonDestructive` | `NonDestructiveSwitch` | `LockInv`, `OwnInv`, and `StateInv`: a live tunnel of a slot is marked ACTIVE unless the worker is draining it, so the health pass has no reason to touch it |
| `OrphansExplained` | complement of finding 1 | `Tracked`: whatever gives a tunnel up stops it or hands it over, except the overwriting in the draining map; `IdleCand`: the worker holds none between qualifications |
| `RoutesLostByFaults` | complement of finding 4 | `AllUp` and `ClosedInv`: without a death and a failing `ip route` (add or flush), a slot that has a tunnel or is in Xray's set has a route, or is being given one |

`OwnInv` is what the rest hangs on. Most failure paths call `Stop` on the tunnel in
hand, and a `Stop` frees the process and every route through it; it is harmless to
the others only because they hold other tunnels. `OwnInv` needs `LockInv` (the tunnel
a commit moves to the draining map is still the slot's) and `TodoInv`: the slots
that the cleanup and the health pass listed still hold what they were listed for,
because `Mu` is held all along. The two complements delimit the findings: no other
step than the overwriting loses a tunnel, and outside a switch no table of a slot in use
is left empty while processes live and `ip route` works. What that does not exclude is
the moment between the flush and the `add` of a `SetupSlotRouting` (section 3): a switch
whose slot has a tunnel (`route.go:43-46`) and its rollbacks go through it.

What a table holds after a failed command enters the proofs through two lemmas,
`ClearedRoutes` and `FailedRoutes`: the other slots' tables are untouched, and the
slot's own has lost its route, is unreachable or is as it was. `BlackholeFree` and
`DrainingAvoided` need one thing more in the only case where Xray may keep a slot that
a failed switch leaves empty: that the table was cleared, hence the exception for
`"xray"` together with `"flush"`.

`XrayRoutingProofs` (from `RoutingAssumption`: finitely many slots, any ingresses):

| Theorem | Property | Argument |
|---|---|---|
| `TypeCorrect` | `TypeOK` | inductive as it stands |
| `FailsClosed` | `FailClosed` | `InCallSafe` says what the rules may hold at each point of a call: within `mem` before the candidate is applied, within the candidate (or the old set) at the read-back. `DirectExact`: a read-back of at most one slot is exact, which covers a rule Xray kept silently |
| `CallsAtomic` | `KeepsPromise` | step by step: only the returning actions move the abstract state; it needs that a call that had nothing to do never reaches a failing step (`Purposeful`) |
| `SurvivorsKept` | `SurvivorsUninterrupted` | `GoalKeeps`: a slot in the old and in the new set is in the goal of every adrules, the rollback's too; read-back and bookkeeping write no rule |

`XraySupervisorProofs` (any number of processes and failures, until `Restart` is
called, see section 6):

| Theorem | Property | Argument |
|---|---|---|
| `TypeCorrect` | `TypeOK` | inductive as it stands |
| `NeverTwoXrays` | `OneXray` | `LiveIsCurrent`: only `s.cmd` can be alive, and nothing is between a reaped process and the next launch |
| `StopIsFinal` | `NothingRunsAfterStop` | `StopFinal`, with `LiveIsCurrent`: `Stop` holds the current command, which no launch replaces once `stopped` is set, and it is dead when `Stop` joins the goroutines |
| `EndpointGoes` | `EndpointWithdrawn` | `Withdrawn`: when `Stop` has returned the monitor, which alone publishes the endpoint again, has ended |
| `PanicNeedsFailure` | complement of finding 2 | `WaitInv`: while no validation or exec fails, the monitor comes back to `cmd.Wait` only with a command launched since, or polls until `Stop` |

`TunnelHostProofs` (from `TunnelHostAssumption`: finitely many tunnels, any servers,
uplinks and faults):

| Theorem | Property | Argument |
|---|---|---|
| `TypeCorrect` | `TypeOK` | needs the next one: a count below zero would not be typed |
| `RefCountsExact` | `RefCountExact` | `Shape` says how far the starter, the waiter and `Stop` of one tunnel may be apart; with it the first to clean up does so for a tunnel that holds its address, and the count moves with the set of holders (`HolderAdded`, `Released`) |
| `RunningTunnelsBypassed` | `RunningBypassed` | `Bypassed`, for every holder and not only the running: a release removes the route only when the exact count says nobody holds it |
| `CredentialsAlwaysWiped` | `CredentialsWiped` | with `Shape` |

`ReputationProofs` (from `ReputationAssumption`: any subset of the six providers, any
reports, TTLs and callers):

| Theorem | Property | Argument |
|---|---|---|
| `TypeCorrect` | `TypeOK` | part of the invariant below |
| `VerdictsFresh` | `VerdictFresh` | every cached answer carries an expiry no later than its observation plus the TTL, and the aggregate's expiry is the least of them (`ExpiresFirst`) |
| `AdmissionUnanimous` | `AdmittedByAll` | the counters of a call agree with its evidence, also when it came from the aggregate |
| `EvidenceIsHonest` | `EvidenceHonest` | `LegacyRestored`: what a row of ProxyCheck.io lost follows from its status and score; all other legacy rows are refused |
| `VerdictIsTheWorst` | `VerdictIsWorst` | `MergeSums`: the accumulator is the worst of the answers merged so far, an invariant that does not mention their order; `RuleSound` gives what all six rules have in common |

`NodeIntakeProofs` (from `NodeIntakeAssumption`: any nodes, old databases and bounds):

| Theorem | Property | Argument |
|---|---|---|
| `TypeCorrect` | `TypeOK` | with `Goroutines`: the worker has a node exactly when it is not idle |
| `NoClaimInherited` | `NoInheritedClaims` | inductive with `Goroutines` |
| `CandidatesAreVetted` | `CandidatesVetted` | `UsableAccepted`: what was read before the transaction is what it stores |
| `FailedNodesAreLeftAlone` | `FailedNodesRest` | `Evicted`: a node that failed since a list last had it has no credentials in memory; every transition to FAILED evicts, only `Fetch` caches, and `StartTunnel` needs them |
| `HistoryIsKept` | `HistoryKept` | `Files`: where a node's history is at each point of a migration and of the command; a row whose merging update failed is the exception |

`PolicyTablesProofs` proves `IsolatedWhileFewIds`: with at most 50 slots,
`CandidatesIsolated` holds while fewer than 100 virtual ids have been drawn. It is the
complement of finding 3: the counter's growth is the only cause.

Only model-checked: the liveness properties `DeadTunnelLeaves`, `DrainingEnds`,
`EmptySlotRefilled`, `SwitchEnds`, `LiveSlotBalanced`, `RuntimeConverges`, `StopEnds`,
`ShutdownReleases` and `ShutdownEnds`. They rest on fairness, and fairness on ENABLED,
which are out of the prover's reach. Every invariant and every action property of a
passing run is also a theorem.

## 6. Findings

Each with a run that shows it:

1. `drain_overwrite` - `transitionToDrainingLocked` (`scheduler.go:540`) overwrites
   an earlier draining tunnel of the slot; nobody stops it any more.
2. `sup_panic` - a validation or launch failure in a recovery (`supervisor.go:433`,
   `445`) goes back to `cmd.Wait` with the reaped command; its channel is closed a
   second time, which panics.
3. `table_collision` - virtual ids only grow (`scheduler.go:629`); from id 100 on a
   candidate's table is that of a draining slot, from 153 to 155 one of the kernel's.
4. `tunnel_death_leaks` - the only IPv4 route of a slot's table is the one into its
   TUN device (`route.go:46`); between a tunnel's death and the worker's next round
   the table is empty and marked packets fall through to the main table, where
   `PRODUCTION_DEBUG_REPORT.md:142` promises an `unreachable` route.

Smaller ones met while modelling, which the properties are stated around:

- `prefixConflict` (`diversity.go:48`) never compares a node with itself; a switch to
  a node that is warm in the pool leaves the same /24 in use twice, which README.md:140
  excludes (`DistinctNodesDiverse` speaks of different nodes).
- A standby found dead is stopped without touching its row (`scheduler.go:369`); the
  row stays STANDBY and counts as running capacity (`region_selector.go:57`).
- A readiness failure in a recovery (`supervisor.go:455`) leaves the state RESTARTING;
  the loop takes its own state for a manual restart and polls until `Stop`.
- A soft BAD (AbuseIPDB 26 to 90, IPQS 75 to 89) carries a score penalty that
  `mergeProviderResult` (`engine.go:389`) drops.
- A conservative UNKNOWN with at least one answer is cached in memory like a
  verdict, so a provider that recovers is not asked again until the aggregate expires;
  `engine.go:259` keeps UNKNOWNs out of the durable evidence for that very reason.
- Country, ASN and network type of a merged result are the last writer's; GreyNoise's
  category becomes a network type when restored from the database, and IPQS's is lost.
- The backoff's shift (`providers.go:113`, `supervisor.go:412`) overflows after 63
  failures in a row; the first then ends the backoff at once.
- The exit's evidence is persisted while the row is still HEALTH_CHECK
  (`scheduler.go:747`); a refresh stored before STANDBY replaces it by the endpoint's,
  and the row becomes live with evidence of the wrong address.
- A manual switch to a STANDBY node (`handlers_write.go:103`) writes its endpoint's
  verdict over the evidence of the exit that the warm tunnel has observed
  (`handlers_write.go:145`); a refresh (`persistence.go`) takes care to keep it. So no
  property says that a live row keeps the evidence of its exit.
- Fail counts are overwritten by a copy's plus one (`fsm.go:148`): a failure counted
  between the copy's reading and its own failure is lost while the manager is up.
- The worker's copy is written over a row that discovery has just rejected
  (`CandidatesVetted` excepts the worker's own candidate).
- `MigrateNodeIdentities` ignores an error of the merging update and deletes the old
  row all the same (`database.go:198-200`), where its comment (`database.go:148-149`)
  has it "preserving historical metrics, fail counts, and reputation"
  (`MigrateMergeFails`; `HistoryKept` excepts such a row).
- `EnsureEndpointBypassRoute` leaves an uncounted, correct route when only its
  read-back fails (`endpoint.go:139`).
- `cleanupDrainingSlots` (`scheduler.go:574`) clears the table of an empty slot
  without looking at `ManualOverride`, also between 4b and 4c of a switch; the slot is
  committed without a route until the next health check notices.
- A switch does not check the status again after its second read of the row
  (`operations.go:115`) and ignores the refusals of the status machine; it can
  report ACTIVE for a node that is not. What its tunnel later does to the row is
  checked against the copy, which a refused transition leaves behind the facts.
- `DrainingSlot` (`supervisor.go:889`) trusts `activeOutbounds`: after an activation
  whose rollback failed as well it succeeds without a read-back while Xray still uses
  the slot; the next `SyncActiveSlots` repairs it (`unsafe` in `FailClosed`).
- For two or more slots the read-back (`supervisor.go:748`) accepts any balancing
  rule, whichever balancer it uses (`kept` in `FailClosed`).
- A recovery past its last look at `stopped` overwrites STOPPED with RUNNING
  (`supervisor.go:459`); the process is gone, only the state is wrong.
- `Restart` clears the endpoint before it takes the lock (`supervisor.go:1104`), so a
  recovery can register it again; and the monitor, which closes `doneChan` before it
  looks at the state (`supervisor.go:378`), can take a finished restart for a crash
  and launch a second Xray (`NoRestart` in the supervisor's properties).

## 7. Not modelled

- Client configuration export (`client_export.go`), read handlers, authentication,
  rate limiting and TLS of the agent API: request/response and rendering without
  shared protocol state.
- VPN Gate parsing (`vpngate_ovpn.go` and the CSV columns), configuration, Xray's JSON
  (`template.go` but for the rules): text processing.
- Prefix and ASN statistics (`prefix.go`, `prefix_provider.go`, `asn.go`) and the
  score: sums that order candidates; the models choose among candidates freely.
- Firewall and leak guards (`iptables.go`, `leakguard.go`, `diagnose.go`) and
  `TeardownSlotRouting`: sequences of shell commands without state of their own.
- `dco.go`, metrics, the command line, stripping of old secrets
  (`MigrateStripRawOVPN`, one idempotent statement), hourly cleanup of operation
  records.
- Induction over data and liveness are out of the prover's reach (section 5).
