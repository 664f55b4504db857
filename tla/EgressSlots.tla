----------------------------- MODULE EgressSlots -----------------------------
(***************************************************************************)
(* The egress slots of Super-Proxy: the scheduler worker that checks,      *)
(* drains, refills and qualifies OpenVPN tunnels, the manual-switch        *)
(* operations of the agent API that run beside it, the tunnel processes    *)
(* both of them start, the policy-routing tables they write and the set of *)
(* slots Xray sends new connections to.                                    *)
(*                                                                         *)
(* Scheduler.Mu is not a variable: the worker holds it exactly while wpc   *)
(* is in Locked, and every critical section of an operation is one action  *)
(* guarded by MuFree.  Tunnel.Stop blocks until the process is reaped and  *)
(* is one step.                                                            *)
(***************************************************************************)
EXTENDS Integers, Sequences, FiniteSets, NodeFSM

CONSTANTS
    Slot,         \* logical slots, 0 .. MaxActive - 1
    Tunnel,       \* tunnel handles: bounds the tunnels alive at one time
    Node,         \* VPN nodes known to the database
    Prefix,       \* IPv4 /24 prefixes
    Endpoint,     \* [Node -> Prefix]: the prefix of the node's own address
    None,         \* no tunnel, no node, no prefix, an empty routing table
    Unreachable,  \* the fail-closed default route ClearSlotRouting installs
    MaxStandby,   \* capacity of the warm standby pool
    MaxAttempts,  \* maxAttemptsPerRun of fillToActiveCapacity
    DrainTicks,   \* ticks of the worker within drainingTimeout
    MaxGen,       \* bound: manual switches per slot
    MaxChurn,     \* bound: discovery and staleness changes to node rows
    InitQuarantine, \* nodes whose endpoint discovery has already rejected
    Faults        \* kinds of transient failure the environment may inject

\* "skip": a row may hold the exit of an earlier connection, which makes the
\* selector pass it over; "flush": "ip route flush" fails and the table keeps its
\* route; the others are failures of the step they name.
FaultKind == {"xray", "route", "flush", "verify", "start", "admission", "exit", "skip"}

ASSUME EgressAssumption ==
    /\ Slot \subseteq Nat /\ IsFiniteSet(Node)
    /\ Endpoint \in [Node -> Prefix]
    /\ None \notin Tunnel \cup Node \cup Prefix
    /\ Unreachable \notin Tunnel \cup {None}
    /\ MaxStandby \in Nat /\ MaxAttempts \in Nat /\ DrainTicks \in Nat
    /\ MaxGen \in Nat /\ MaxChurn \in Nat
    /\ InitQuarantine \subseteq Node
    /\ Faults \subseteq FaultKind

VARIABLES
    active,     \* Scheduler.ActiveSlots
    draining,   \* Scheduler.DrainingSlots
    drainAge,   \* ticks since Tunnel.DrainingStartedAt, per draining slot
    standby,    \* Scheduler.StandbyNodes
    override,   \* Scheduler.ManualOverride
    gen,        \* SlotController.Generation
    holder,     \* generation of the lease that owns the slot, 0 when Owner is ""
    tun,        \* the Tunnel objects
    slotTable,  \* default route of table 100 + slot
    drainTable, \* default route of table 200 + slot
    xact,       \* Supervisor.activeOutbounds: the slots Xray balances over
    status,     \* nodes.status in the database
    secrets,    \* nodes whose OpenVPN credentials are cached in memory
    quarantine, \* FAILED rows carrying discovery's blacklist evidence
    wpc, wtodo, \* where the scheduler worker is, and the slots it has yet to visit
    run,        \* the locals of fillToActiveCapacity
    cand,       \* the locals of maintainStandbyPool
    refill,     \* Scheduler.refillCh holds a request
    op,         \* the manual switch of each slot
    churn       \* discovery and staleness changes so far

slotVars  == <<active, draining, drainAge, standby>>
leaseVars == <<override, gen, holder>>
kernVars  == <<slotTable, drainTable>>
dbVars    == <<status, secrets, quarantine>>
workVars  == <<wpc, wtodo, run, cand>>
vars == <<slotVars, leaseVars, tun, kernVars, xact, dbVars, workVars, refill, op, churn>>
------------------------------------------------------------------------------
(* Types and initial values *)

SlotState == {"ACTIVE", "DRAINING", "FAILED"}
ProcState == {"free", "up", "exited", "failed", "done"}

TunnelRec == [node: Node \cup {None}, exit: Prefix \cup {None},
              state: SlotState, proc: ProcState, stat: NodeStatus]
FreeTunnel == [node |-> None, exit |-> None, state |-> "FAILED",
               proc |-> "free", stat |-> "NEW"]

OpPc == {"idle", "admission", "prepare", "connect", "verify", "activate",
         "route", "commit", "finish", "unlock"}
OpRec == [pc: OpPc, node: Node \cup {None}, tun: Tunnel \cup {None},
          cur: Tunnel \cup {None}, lease: Nat, stat: NodeStatus]
IdleOp == [pc |-> "idle", node |-> None, tun |-> None, cur |-> None,
           lease |-> 0, stat |-> "NEW"]

WorkerPc == {"idle", "cleanup", "health", "drain", "fill", "sync", "capacity",
             "progress", "select", "admit", "connect", "verify", "bench", "commit"}
RunRec == [tail: BOOLEAN, attempt: Nat, cands: Nat, warm: Nat, drain: Slot \cup {None}]
NoRun == [tail |-> FALSE, attempt |-> 0, cands |-> 0, warm |-> 0, drain |-> None]
CandRec == [node: Node \cup {None}, tun: Tunnel \cup {None}, stat: NodeStatus, quar: BOOLEAN]
NoCand == [node |-> None, tun |-> None, stat |-> "NEW", quar |-> FALSE]

\* Every variable has its type; a draining tunnel's age stays within the drain
\* timeout (cleanupDrainingSlots never keeps one past it).
TypeOK ==
    /\ active \in [Slot -> Tunnel \cup {None}]
    /\ draining \in [Slot -> Tunnel \cup {None}]
    /\ drainAge \in [Slot -> 0 .. DrainTicks]
    /\ standby \in Seq(Tunnel)
    /\ override \in [Slot -> BOOLEAN]
    /\ gen \in [Slot -> Nat]
    /\ holder \in [Slot -> Nat]
    /\ tun \in [Tunnel -> TunnelRec]
    /\ slotTable \in [Slot -> Tunnel \cup {None, Unreachable}]
    /\ drainTable \in [Slot -> Tunnel \cup {None}]
    /\ xact \subseteq Slot
    /\ status \in [Node -> NodeStatus]
    /\ secrets \subseteq Node
    /\ quarantine \subseteq Node
    /\ wpc \in WorkerPc
    /\ wtodo \subseteq Slot
    /\ run \in RunRec
    /\ cand \in CandRec
    /\ refill \in BOOLEAN
    /\ op \in [Slot -> OpRec]
    /\ churn \in Nat

Init ==
    /\ active = [s \in Slot |-> None]
    /\ draining = [s \in Slot |-> None]
    /\ drainAge = [s \in Slot |-> 0]
    /\ standby = <<>>
    /\ override = [s \in Slot |-> FALSE]
    /\ gen = [s \in Slot |-> 0]
    /\ holder = [s \in Slot |-> 0]
    /\ tun = [t \in Tunnel |-> FreeTunnel]
    /\ slotTable = [s \in Slot |-> None]
    /\ drainTable = [s \in Slot |-> None]
    /\ xact = {}
    /\ status = [n \in Node |-> IF n \in InitQuarantine THEN "FAILED"
                                                        ELSE "REPUTATION_CHECKED"]
    /\ secrets = Node
    /\ quarantine = InitQuarantine
    /\ wpc = "idle"
    /\ wtodo = {}
    /\ run = NoRun
    /\ cand = NoCand
    /\ refill = FALSE
    /\ op = [s \in Slot |-> IdleOp]
    /\ churn = 0
------------------------------------------------------------------------------
(* Helpers *)

Locked == {"cleanup", "health", "drain", "fill", "sync"}
MuFree == wpc \notin Locked

Occupied(f) == {s \in Slot : f[s] # None}
Up(t) == tun[t].proc = "up"

\* Routes through interface t disappear from a table when the device does.
Unrouted(table, t) == [s \in Slot |-> IF table[s] = t THEN None ELSE table[s]]

\* nodePrefixes: the endpoint's /24 and the observed exit's.
NodePrefixes(n, exit) == {Endpoint[n], exit} \ {None}

\* prefixConflict never compares a node with itself.
PrefixConflict(n, exit, t) ==
    /\ tun[t].node # n
    /\ NodePrefixes(n, exit) \cap NodePrefixes(tun[t].node, tun[t].exit) # {}

\* CheckPrefixDiversityLocked: no active (outside the excluded slots) or
\* standby tunnel of another node shares a /24 with the candidate.
CheckPrefixDiversity(n, exit, excluded) ==
    /\ \A s \in Occupied(active) \ excluded : ~PrefixConflict(n, exit, active[s])
    /\ \A i \in DOMAIN standby : ~PrefixConflict(n, exit, standby[i])

\* TransitionNode on a row whose in-memory copy has status from.
TransitionNode(n, from, to) ==
    /\ status' = IF CanTransition(from, to) THEN [status EXCEPT ![n] = to] ELSE status
    /\ secrets' = IF CanTransition(from, to) /\ to = "FAILED" THEN secrets \ {n} ELSE secrets
    /\ UNCHANGED quarantine

\* FailNode overwrites last_error, and with it discovery's evidence.
FailNode(n, from) ==
    /\ status' = IF CanTransition(from, "FAILED") THEN [status EXCEPT ![n] = "FAILED"] ELSE status
    /\ secrets' = IF CanTransition(from, "FAILED") THEN secrets \ {n} ELSE secrets
    /\ quarantine' = quarantine \ {n}

\* Tunnel.Stop and the kernel's reaction, on top of given tables.
Stop(t, st, dt) ==
    /\ tun' = [tun EXCEPT ![t] = FreeTunnel]
    /\ slotTable' = Unrouted(st, t)
    /\ drainTable' = Unrouted(dt, t)

\* StartTunnel: the credentials must still be cached; the handle is fresh.
StartTunnel(t, n, stat) ==
    /\ n \in secrets
    /\ tun[t].proc = "free"
    /\ tun' = [tun EXCEPT ![t] = [node |-> n, exit |-> None, state |-> "ACTIVE",
                                  proc |-> "up", stat |-> stat]]
StartMayFail(n) ==
    "start" \in Faults \/ n \notin secrets \/ \A t \in Tunnel : tun[t].proc # "free"

\* ActivateSlot and DrainingSlot return at once when there is nothing to do.
ActivateSlot(s) == xact' = xact \cup {s}
ActivateMayFail(s) == "xray" \in Faults /\ s \notin xact
DrainingSlot(s) == xact' = xact \ {s}
DrainingMayFail(s) == "xray" \in Faults /\ s \in xact

\* "ip route add default dev" needs the interface.
RouteMayFail(t) == "route" \in Faults \/ ~Up(t)

\* What a table is when routing s through t has failed: flushed and left empty,
\* or unflushed, so that the route it still has refuses the new one.
RouteFailures(table, s, t) ==
    (IF RouteMayFail(t) THEN {[table EXCEPT ![s] = None]} ELSE {})
    \cup (IF "flush" \in Faults /\ table[s] # None THEN {table} ELSE {})

\* ClearSlotRouting fails closed, but no error of its commands is looked at.
Cleared(table, s) ==
    {[table EXCEPT ![s] = Unreachable]}
    \cup (IF "route" \in Faults THEN {[table EXCEPT ![s] = None]} ELSE {})
    \cup (IF "flush" \in Faults /\ table[s] # None THEN {table} ELSE {})
------------------------------------------------------------------------------
(* Tunnel processes *)

\* The OpenVPN process dies: its interface and the routes through it go.
TunnelExit(t) ==
    /\ "exit" \in Faults
    /\ Up(t)
    /\ tun' = [tun EXCEPT ![t].proc = "exited"]
    /\ slotTable' = Unrouted(slotTable, t)
    /\ drainTable' = Unrouted(drainTable, t)
    /\ UNCHANGED <<slotVars, leaseVars, xact, dbVars, workVars, refill, op, churn>>

\* The waiter goroutine marks the tunnel FAILED, then closes doneChan.
WaiterFail(t) ==
    /\ tun[t].proc = "exited"
    /\ tun' = [tun EXCEPT ![t].proc = "failed", ![t].state = "FAILED"]
    /\ UNCHANGED <<slotVars, leaseVars, kernVars, xact, dbVars, workVars, refill, op, churn>>

WaiterDone(t) ==
    /\ tun[t].proc = "failed"
    /\ tun' = [tun EXCEPT ![t].proc = "done"]
    /\ UNCHANGED <<slotVars, leaseVars, kernVars, xact, dbVars, workVars, refill, op, churn>>
------------------------------------------------------------------------------
(* The scheduler worker: monitorLoop *)

\* One pass of fillToActiveCapacity's loop begins with reconcileActiveSlots.
BeginReconcile(attempt) ==
    /\ wpc' = "health"
    /\ wtodo' = Occupied(active)
    /\ run' = [NoRun EXCEPT !.attempt = attempt]

Tick ==
    /\ wpc = "idle"
    /\ wpc' = "cleanup"
    /\ wtodo' = Occupied(draining)
    /\ UNCHANGED <<slotVars, leaseVars, tun, kernVars, xact, dbVars, run, cand, refill, op, churn>>

Refill ==
    /\ wpc = "idle"
    /\ refill
    /\ refill' = FALSE
    /\ BeginReconcile(0)
    /\ UNCHANGED <<slotVars, leaseVars, tun, kernVars, xact, dbVars, cand, op, churn>>

\* cleanStaleNodes: any row unseen for a day, live or not.
CleanStaleNode(n) ==
    /\ wpc = "idle"
    /\ churn < MaxChurn
    /\ status[n] # "STALE"
    /\ status' = [status EXCEPT ![n] = "STALE"]
    /\ churn' = churn + 1
    /\ UNCHANGED <<slotVars, leaseVars, tun, kernVars, xact, secrets, quarantine, workVars, refill, op>>

\* Mutant: the draining timeout is never looked at.
CleanupKeepUntimed(s) ==
    /\ wpc = "cleanup" /\ s \in wtodo
    /\ drainAge' = [drainAge EXCEPT ![s] = @ + 1]
    /\ wtodo' = wtodo \ {s}
    /\ UNCHANGED <<active, draining, standby, leaseVars, tun, kernVars, xact, dbVars,
                   wpc, run, cand, refill, op, churn>>

\* Mutant: while conntrack fails the tunnel is kept, timeout or not.
CleanupKeepUnknown(s) ==
    /\ wpc = "cleanup" /\ s \in wtodo
    /\ wtodo' = wtodo \ {s}
    /\ UNCHANGED <<slotVars, leaseVars, tun, kernVars, xact, dbVars,
                   wpc, run, cand, refill, op, churn>>

\* cleanupDrainingSlots: connections remain or are unknown, keep draining.
CleanupKeep(s) ==
    /\ wpc = "cleanup" /\ s \in wtodo
    /\ drainAge[s] < DrainTicks
    /\ drainAge' = [drainAge EXCEPT ![s] = @ + 1]
    /\ wtodo' = wtodo \ {s}
    /\ UNCHANGED <<active, draining, standby, leaseVars, tun, kernVars, xact, dbVars,
                   wpc, run, cand, refill, op, churn>>

\* Timed out (a slow qualification may delay the ticks, so at any age) or no
\* connection left; only the timeout clears an empty slot's table.  The draining
\* table loses its route with the tunnel if not before.
CleanupStop(s, timeout) ==
    LET t == draining[s] IN
    /\ wpc = "cleanup" /\ s \in wtodo
    /\ \E st \in IF timeout /\ active[s] = None THEN Cleared(slotTable, s) ELSE {slotTable} :
         Stop(t, st, [drainTable EXCEPT ![s] = None])
    /\ TransitionNode(tun[t].node, tun[t].stat, "FAILED")
    /\ draining' = [draining EXCEPT ![s] = None]
    /\ drainAge' = [drainAge EXCEPT ![s] = 0]
    /\ wtodo' = wtodo \ {s}
    /\ UNCHANGED <<active, standby, leaseVars, xact, wpc, run, cand, refill, op, churn>>

CleanupDone ==
    /\ wpc = "cleanup" /\ wtodo = {}
    /\ BeginReconcile(0)
    /\ UNCHANGED <<slotVars, leaseVars, tun, kernVars, xact, dbVars, cand, refill, op, churn>>
------------------------------------------------------------------------------
(* reconcileActiveSlots: health of the active slots *)

\* A slot under manual override is skipped; a live one that verifies is kept.
HealthPass(s) ==
    /\ wpc = "health" /\ s \in wtodo
    /\ \/ override[s]
       \/ tun[active[s]].state = "ACTIVE" /\ Up(active[s]) /\ slotTable[s] = active[s]
    /\ wtodo' = wtodo \ {s}
    /\ UNCHANGED <<slotVars, leaseVars, tun, kernVars, xact, dbVars,
                   wpc, run, cand, refill, op, churn>>

\* Mutant: ManualOverride is not respected.
UnhealthyAnySlot(s) ==
    /\ wpc = "health" /\ s \in wtodo
    /\ \/ "verify" \in Faults
       \/ tun[active[s]].state # "ACTIVE"
       \/ ~Up(active[s])
       \/ slotTable[s] # active[s]

\* The tunnel is not ACTIVE, or VerifyTunnel failed.
Unhealthy(s) ==
    /\ wpc = "health" /\ s \in wtodo
    /\ ~override[s]
    /\ \/ "verify" \in Faults
       \/ tun[active[s]].state # "ACTIVE"
       \/ ~Up(active[s])
       \/ slotTable[s] # active[s]

\* transitionToDrainingLocked, Xray refuses to exclude the slot: nothing changes.
DrainRefused(s) ==
    /\ Unhealthy(s)
    /\ DrainingMayFail(s)
    /\ wtodo' = wtodo \ {s}
    /\ UNCHANGED <<slotVars, leaseVars, tun, kernVars, xact, dbVars,
                   wpc, run, cand, refill, op, churn>>

\* Mutant: doneChan is not consulted.
ExitedByState(t) == tun[t].state # "ACTIVE"

Exited(t) == tun[t].state # "ACTIVE" \/ tun[t].proc = "done"

\* Mutant: an exited tunnel is retired before Xray excludes the slot.
RetireFirst(s) ==
    LET t == active[s] IN
    /\ Unhealthy(s)
    /\ Exited(t)
    /\ Stop(t, [slotTable EXCEPT ![s] = Unreachable], drainTable)
    /\ active' = [active EXCEPT ![s] = None]
    /\ FailNode(tun[t].node, tun[t].stat)
    /\ wtodo' = wtodo \ {s}
    /\ UNCHANGED <<draining, drainAge, standby, leaseVars, xact, wpc, run, cand, refill, op, churn>>

\* The process has exited: retire the tunnel without draining it.
Retire(s) ==
    LET t == active[s] IN
    /\ Unhealthy(s)
    /\ Exited(t)
    /\ DrainingSlot(s)
    /\ \E st \in Cleared(slotTable, s) : Stop(t, st, drainTable)
    /\ active' = [active EXCEPT ![s] = None]
    /\ FailNode(tun[t].node, tun[t].stat)
    /\ wtodo' = wtodo \ {s}
    /\ UNCHANGED <<draining, drainAge, standby, leaseVars, wpc, run, cand, refill, op, churn>>

\* Mutant: Xray keeps the slot until the next synchronisation.
DrainMarkBalanced(s) ==
    LET t == active[s] IN
    /\ Unhealthy(s)
    /\ ~Exited(t)
    /\ tun' = [tun EXCEPT ![t].state = "DRAINING"]
    /\ wpc' = "drain"
    /\ wtodo' = wtodo \ {s}
    /\ run' = [run EXCEPT !.drain = s]
    /\ UNCHANGED <<slotVars, leaseVars, kernVars, xact, dbVars, cand, refill, op, churn>>

\* Otherwise mark it DRAINING and go on to its draining table.
DrainMark(s) ==
    LET t == active[s] IN
    /\ Unhealthy(s)
    /\ ~Exited(t)
    /\ DrainingSlot(s)
    /\ tun' = [tun EXCEPT ![t].state = "DRAINING"]
    /\ wpc' = "drain"
    /\ wtodo' = wtodo \ {s}
    /\ run' = [run EXCEPT !.drain = s]
    /\ UNCHANGED <<slotVars, leaseVars, kernVars, dbVars, cand, refill, op, churn>>

\* SetupDrainingRouting flushes table 200 + slot and re-points it.
DrainRouted ==
    LET s == run.drain
        t == active[s] IN
    /\ wpc = "drain"
    /\ Up(t)
    /\ drainTable' = [drainTable EXCEPT ![s] = t]
    /\ TransitionNode(tun[t].node, tun[t].stat, "DRAINING")
    /\ tun' = [tun EXCEPT ![t].stat = Moved(@, "DRAINING")]
    /\ active' = [active EXCEPT ![s] = None]
    /\ draining' = [draining EXCEPT ![s] = t]
    /\ drainAge' = [drainAge EXCEPT ![s] = 0]
    /\ wpc' = "health"
    /\ run' = [run EXCEPT !.drain = None]
    /\ UNCHANGED <<standby, leaseVars, slotTable, xact, wtodo, cand, refill, op, churn>>

\* It failed: the slot goes back to Xray (if Xray lets it) and stays ACTIVE.
DrainRollback ==
    LET s == run.drain
        t == active[s] IN
    /\ wpc = "drain"
    /\ drainTable' \in RouteFailures(drainTable, s, t)
    /\ \/ ActivateSlot(s)
       \/ ActivateMayFail(s) /\ UNCHANGED xact
    /\ tun' = [tun EXCEPT ![t].state = "ACTIVE"]
    /\ wpc' = "health"
    /\ run' = [run EXCEPT !.drain = None]
    /\ UNCHANGED <<slotVars, leaseVars, slotTable, dbVars, wtodo, cand, refill, op, churn>>

\* Mutant: the fill loop stops one slot early.
HealthDoneShort ==
    /\ wpc = "health" /\ wtodo = {}
    /\ wpc' = "fill"
    /\ wtodo' = {s \in Slot : s + 1 \in Slot}
    /\ UNCHANGED <<slotVars, leaseVars, tun, kernVars, xact, dbVars, run, cand, refill, op, churn>>

HealthDone ==
    /\ wpc = "health" /\ wtodo = {}
    /\ wpc' = "fill"
    /\ wtodo' = Slot
    /\ UNCHANGED <<slotVars, leaseVars, tun, kernVars, xact, dbVars, run, cand, refill, op, churn>>
------------------------------------------------------------------------------
(* reconcileActiveSlots: promotion of standby tunnels, lowest slot first *)

NextToFill(s) ==
    /\ wpc = "fill" /\ s \in wtodo
    /\ \A r \in wtodo : s <= r

FillSkip(s) ==
    /\ NextToFill(s)
    /\ override[s] \/ active[s] # None \/ standby = <<>>
    /\ wtodo' = wtodo \ {s}
    /\ UNCHANGED <<slotVars, leaseVars, tun, kernVars, xact, dbVars,
                   wpc, run, cand, refill, op, churn>>

\* Mutant: the promoted tunnel is not taken out of the pool.
PromotingKept(s) ==
    /\ NextToFill(s)
    /\ ~override[s] /\ active[s] = None /\ standby # <<>>
    /\ wtodo' = wtodo \ {s}
    /\ UNCHANGED standby

\* Mutant: a slot under a manual switch is filled too.
PromotingAnySlot(s) ==
    /\ NextToFill(s)
    /\ active[s] = None /\ standby # <<>>
    /\ standby' = Tail(standby)
    /\ wtodo' = wtodo \ {s}

\* The head of the pool is popped whatever becomes of it.
Promoting(s) ==
    /\ NextToFill(s)
    /\ ~override[s] /\ active[s] = None /\ standby # <<>>
    /\ standby' = Tail(standby)
    /\ wtodo' = wtodo \ {s}

\* The tunnel is dead, its route cannot be added, or Xray refuses the slot: it
\* is stopped and its row is left as it was.
FillDrop(s) ==
    LET t == Head(standby) IN
    /\ Promoting(s)
    /\ \/ tun[t].state # "ACTIVE" /\ Stop(t, slotTable, drainTable)
       \/ /\ tun[t].state = "ACTIVE"
          /\ \E st \in RouteFailures(slotTable, s, t) : Stop(t, st, drainTable)
       \/ /\ tun[t].state = "ACTIVE" /\ Up(t) /\ ActivateMayFail(s)
          /\ \E st \in Cleared([slotTable EXCEPT ![s] = t], s) : Stop(t, st, drainTable)
    /\ UNCHANGED <<active, draining, drainAge, leaseVars, xact, dbVars,
                   wpc, run, cand, refill, op, churn>>

FillPromote(s) ==
    LET t == Head(standby) IN
    /\ Promoting(s)
    /\ tun[t].state = "ACTIVE" /\ Up(t)
    /\ slotTable' = [slotTable EXCEPT ![s] = t]
    /\ ActivateSlot(s)
    /\ TransitionNode(tun[t].node, tun[t].stat, "ACTIVE")
    /\ tun' = [tun EXCEPT ![t].stat = Moved(@, "ACTIVE")]
    /\ active' = [active EXCEPT ![s] = t]
    /\ UNCHANGED <<draining, drainAge, leaseVars, drainTable, wpc, run, cand, refill, op, churn>>

FillDone ==
    /\ wpc = "fill" /\ wtodo = {}
    /\ wpc' = "sync"
    /\ UNCHANGED <<slotVars, leaseVars, tun, kernVars, xact, dbVars,
                   wtodo, run, cand, refill, op, churn>>

\* SyncActiveSlots over the slots whose tunnel is ACTIVE and not done.
LiveSlots == {s \in Occupied(active) : ~Exited(active[s])}

\* Mutant: the synchronisation only removes slots.
SyncRemoving ==
    /\ wpc = "sync"
    /\ xact' = xact \cap LiveSlots
    /\ wpc' = "capacity"
    /\ UNCHANGED <<slotVars, leaseVars, tun, kernVars, dbVars,
                   wtodo, run, cand, refill, op, churn>>

Sync ==
    /\ wpc = "sync"
    /\ \/ xact' = LiveSlots
       \/ "xray" \in Faults /\ UNCHANGED xact
    /\ wpc' = "capacity"
    /\ UNCHANGED <<slotVars, leaseVars, tun, kernVars, dbVars,
                   wtodo, run, cand, refill, op, churn>>
------------------------------------------------------------------------------
(* fillToActiveCapacity and maintainStandbyPool *)

CandidateSelectStatuses == {"QUALIFIED", "HEALTHY", "REPUTATION_CHECKED"}
CleanRows == {n \in secrets : status[n] \in CandidateSelectStatuses}
QuarantinedRows == {n \in quarantine \cap secrets : status[n] = "FAILED"}
SelectableCount == Cardinality(CleanRows) + Cardinality(QuarantinedRows)

\* The candidates pickDiverseCandidate may return.
Candidates == {n \in CleanRows : CheckPrefixDiversity(n, None, {})}

\* The maintainStandbyPool call that follows fillToActiveCapacity.
BeginTail ==
    /\ wpc' = "select"
    /\ run' = [NoRun EXCEPT !.tail = TRUE]

CapacityReached ==
    /\ wpc = "capacity"
    /\ Occupied(active) = Slot \/ SelectableCount = 0
    /\ BeginTail
    /\ UNCHANGED <<slotVars, leaseVars, tun, kernVars, xact, dbVars, wtodo, cand, refill, op, churn>>

CapacityShort ==
    /\ wpc = "capacity"
    /\ Occupied(active) # Slot /\ SelectableCount # 0
    /\ wpc' = "select"
    /\ run' = [run EXCEPT !.cands = SelectableCount, !.warm = Len(standby)]
    /\ UNCHANGED <<slotVars, leaseVars, tun, kernVars, xact, dbVars, wtodo, cand, refill, op, churn>>

\* Another pass only if the attempt used up a candidate or warmed a tunnel.
Progress ==
    /\ wpc = "progress"
    /\ IF /\ SelectableCount < run.cands \/ Len(standby) > run.warm
          /\ run.attempt + 1 < MaxAttempts
       THEN BeginReconcile(run.attempt + 1)
       ELSE BeginTail /\ UNCHANGED wtodo
    /\ UNCHANGED <<slotVars, leaseVars, tun, kernVars, xact, dbVars, cand, refill, op, churn>>

\* maintainStandbyPool returns to its caller.
Leave ==
    /\ wpc' = IF run.tail THEN "idle" ELSE "progress"
    /\ run' = IF run.tail THEN NoRun ELSE run
    /\ cand' = NoCand

\* Mutant: off by one.
PoolOverfull == Len(standby) > MaxStandby

PoolFull == Len(standby) >= MaxStandby

SelectNone ==
    /\ wpc = "select"
    /\ \/ PoolFull
       \/ QuarantinedRows = {} /\ (Candidates = {} \/ "skip" \in Faults)
    /\ Leave
    /\ UNCHANGED <<slotVars, leaseVars, tun, kernVars, xact, dbVars, wtodo, refill, op, churn>>

\* A clean candidate; failing that, an endpoint discovery has rejected.
Select(n) ==
    /\ wpc = "select"
    /\ ~PoolFull
    /\ \/ n \in Candidates
       \/ n \in QuarantinedRows /\ (Candidates = {} \/ "skip" \in Faults)
    /\ cand' = [NoCand EXCEPT !.node = n, !.stat = status[n], !.quar = (n \in QuarantinedRows)]
    /\ wpc' = "admit"
    /\ UNCHANGED <<slotVars, leaseVars, tun, kernVars, xact, dbVars, wtodo, run, refill, op, churn>>

\* A switch committed meanwhile: the second /24 check defers the candidate.
AdmitDefer ==
    /\ wpc = "admit"
    /\ ~cand.quar
    /\ ~CheckPrefixDiversity(cand.node, None, {}) \/ "skip" \in Faults
    /\ Leave
    /\ UNCHANGED <<slotVars, leaseVars, tun, kernVars, xact, dbVars, wtodo, refill, op, churn>>

\* Endpoint reputation or pre-connect scoring rejects it.
AdmitReject ==
    /\ wpc = "admit"
    /\ ~cand.quar /\ CheckPrefixDiversity(cand.node, None, {})
    /\ "admission" \in Faults
    /\ FailNode(cand.node, cand.stat)
    /\ Leave
    /\ UNCHANGED <<slotVars, leaseVars, tun, kernVars, xact, wtodo, refill, op, churn>>

\* A passed endpoint loses its blacklist evidence (PersistAdmissionResult).
Admit ==
    /\ wpc = "admit"
    /\ cand.quar \/ CheckPrefixDiversity(cand.node, None, {})
    /\ status' = [status EXCEPT ![cand.node] = Moved(cand.stat, "CONNECTING")]
    /\ quarantine' = IF cand.quar THEN quarantine ELSE quarantine \ {cand.node}
    /\ cand' = [cand EXCEPT !.stat = Moved(@, "CONNECTING")]
    /\ wpc' = "connect"
    /\ UNCHANGED <<slotVars, leaseVars, tun, kernVars, xact, secrets, wtodo, run, refill, op, churn>>

ConnectFail ==
    /\ wpc = "connect"
    /\ StartMayFail(cand.node)
    /\ FailNode(cand.node, cand.stat)
    /\ Leave
    /\ UNCHANGED <<slotVars, leaseVars, tun, kernVars, xact, wtodo, refill, op, churn>>

Connect(t) ==
    /\ wpc = "connect"
    /\ StartTunnel(t, cand.node, Moved(cand.stat, "HEALTH_CHECK"))
    /\ TransitionNode(cand.node, cand.stat, "HEALTH_CHECK")
    /\ cand' = [cand EXCEPT !.tun = t, !.stat = Moved(@, "HEALTH_CHECK")]
    /\ wpc' = "verify"
    /\ UNCHANGED <<slotVars, leaseVars, kernVars, xact, wtodo, run, refill, op, churn>>

\* Health, exit admission or exit /24 diversity fails: stop and fail the node.
QualifyFail ==
    /\ Stop(cand.tun, slotTable, drainTable)
    /\ FailNode(cand.node, cand.stat)
    /\ Leave
    /\ UNCHANGED <<slotVars, leaseVars, xact, wtodo, refill, op, churn>>

VerifyFail ==
    /\ wpc = "verify"
    /\ \/ {"verify", "admission"} \cap Faults # {}
       \/ ~Up(cand.tun)
       \/ \E p \in Prefix : ~CheckPrefixDiversity(cand.node, p, {})
    /\ QualifyFail

\* The observed exit passes admission, which also clears endpoint evidence.
Verify(p) ==
    /\ wpc = "verify"
    /\ Up(cand.tun)
    /\ CheckPrefixDiversity(cand.node, p, {})
    /\ status' = IF CanTransition(cand.stat, "SPEED_TEST")
                 THEN [status EXCEPT ![cand.node] = "SPEED_TEST"] ELSE status
    /\ quarantine' = quarantine \ {cand.node}
    /\ tun' = [tun EXCEPT ![cand.tun].exit = p, ![cand.tun].stat = Moved(@, "SPEED_TEST")]
    /\ cand' = [cand EXCEPT !.stat = Moved(@, "SPEED_TEST")]
    /\ wpc' = "bench"
    /\ UNCHANGED <<slotVars, leaseVars, kernVars, xact, secrets, wtodo, run, refill, op, churn>>

\* Speed test or measured scoring.
BenchFail ==
    /\ wpc = "bench"
    /\ "verify" \in Faults \/ ~Up(cand.tun)
    /\ QualifyFail

\* QUALIFIED, then STANDBY.
Standby(st) == Moved(Moved(st, "QUALIFIED"), "STANDBY")

Bench ==
    /\ wpc = "bench"
    /\ Up(cand.tun)
    /\ status' = IF Standby(cand.stat) = "STANDBY"
                 THEN [status EXCEPT ![cand.node] = "STANDBY"] ELSE status
    /\ tun' = [tun EXCEPT ![cand.tun].stat = Standby(@)]
    /\ cand' = [cand EXCEPT !.stat = Standby(@)]
    /\ wpc' = "commit"
    /\ UNCHANGED <<slotVars, leaseVars, kernVars, xact, secrets, quarantine,
                   wtodo, run, refill, op, churn>>

CommitReject ==
    /\ wpc = "commit"
    /\ ~CheckPrefixDiversity(cand.node, tun[cand.tun].exit, {})
    /\ QualifyFail

\* State is set to ACTIVE even if the waiter has just set it to FAILED.
Commit ==
    /\ wpc = "commit"
    /\ CheckPrefixDiversity(cand.node, tun[cand.tun].exit, {})
    /\ tun' = [tun EXCEPT ![cand.tun].state = "ACTIVE"]
    /\ standby' = Append(standby, cand.tun)
    /\ Leave
    /\ UNCHANGED <<active, draining, drainAge, leaseVars, kernVars, xact, dbVars,
                   wtodo, refill, op, churn>>
------------------------------------------------------------------------------
(* Discovery: UpsertVettedNodes for one node of a batch, then RequestCapacityFill *)

LiveStatuses == {"ACTIVE", "STANDBY", "DRAINING"}
Readmissible == {"NEW", "DISCOVERED", "REPUTATION_CHECKED", "STALE", "FAILED", "COOLDOWN", "DEAD"}
Rejectable == {"NEW", "DISCOVERED", "REPUTATION_CHECKED", "HEALTHY", "QUALIFIED",
               "STALE", "FAILED", "COOLDOWN"}

Verdict == {"accepted", "rejected", "blacklisted"}

\* A plain rejection (VetNodes) drops the credentials, a blacklisted endpoint keeps
\* them for the quarantined probe.  A row that is live by its status keeps the
\* evidence of its observed exit.
Discover(n, verdict) ==
    /\ churn < MaxChurn
    /\ secrets' = IF verdict = "rejected" THEN secrets \ {n} ELSE secrets \cup {n}
    /\ status' = CASE verdict = "accepted" /\ status[n] \in Readmissible ->
                       [status EXCEPT ![n] = "REPUTATION_CHECKED"]
                   [] verdict # "accepted" /\ status[n] \in Rejectable ->
                       [status EXCEPT ![n] = "FAILED"]
                   [] OTHER -> status
    /\ quarantine' = CASE status[n] \in LiveStatuses -> quarantine
                       [] verdict = "blacklisted" -> quarantine \cup {n}
                       [] OTHER -> quarantine \ {n}
    /\ refill' = TRUE
    /\ churn' = churn + 1
    /\ UNCHANGED <<slotVars, leaseVars, tun, kernVars, xact, workVars, op>>
------------------------------------------------------------------------------
(* Manual switch: handleSlotAction, then executeManualSwitch *)

ManualStatuses == {"REPUTATION_CHECKED", "STANDBY", "QUALIFIED"}

ValidateLease(s) == gen[s] = op[s].lease /\ holder[s] = op[s].lease

\* Mutant: a switch never gives its lease back.
LeaseKept(s) == UNCHANGED holder

\* SlotLease.Release: a stale lease is ignored.
ReleaseLease(s) ==
    holder' = IF ValidateLease(s) THEN [holder EXCEPT ![s] = 0] ELSE holder

\* Every exit of an operation: the lease first, then (Unlock) the override.
OpEnd(s) ==
    /\ ReleaseLease(s)
    /\ op' = [op EXCEPT ![s] = [IdleOp EXCEPT !.pc = "unlock"]]
    /\ UNCHANGED <<override, gen>>

\* All validation and the reservation happen under Mu.
Request(s, n) ==
    /\ MuFree
    /\ op[s].pc = "idle" /\ gen[s] < MaxGen
    /\ ~override[s]
    /\ status[n] \in ManualStatuses
    /\ \A r \in Occupied(active) : tun[active[r]].node # n
    /\ n \in secrets
    /\ CheckPrefixDiversity(n, None, {s})
    /\ holder[s] = 0
    /\ gen' = [gen EXCEPT ![s] = @ + 1]
    /\ holder' = [holder EXCEPT ![s] = gen[s] + 1]
    /\ override' = [override EXCEPT ![s] = TRUE]
    /\ op' = [op EXCEPT ![s] = [IdleOp EXCEPT !.pc = "admission", !.node = n,
                                              !.lease = gen[s] + 1, !.stat = status[n]]]
    /\ UNCHANGED <<slotVars, tun, kernVars, xact, dbVars, workVars, refill, churn>>

OpReject(s) ==
    /\ op[s].pc = "admission"
    /\ "admission" \in Faults
    /\ FailNode(op[s].node, op[s].stat)
    /\ OpEnd(s)
    /\ UNCHANGED <<slotVars, tun, kernVars, xact, workVars, refill, churn>>

OpAdmit(s) ==
    /\ op[s].pc = "admission"
    /\ op' = [op EXCEPT ![s].pc = "prepare"]
    /\ quarantine' = quarantine \ {op[s].node}
    /\ UNCHANGED <<slotVars, leaseVars, tun, kernVars, xact, status, secrets, workVars, refill, churn>>

\* The row is read again (its status is not checked again) and the slot's
\* current tunnel is remembered for the rollbacks.
OpPrepare(s) ==
    /\ MuFree
    /\ op[s].pc = "prepare"
    /\ IF /\ active[s] # None => tun[active[s]].node # op[s].node
          /\ ValidateLease(s)
       THEN /\ op' = [op EXCEPT ![s].pc = "connect", ![s].cur = active[s],
                                ![s].stat = status[op[s].node]]
            /\ UNCHANGED leaseVars
       ELSE OpEnd(s)
    /\ UNCHANGED <<slotVars, tun, kernVars, xact, dbVars, workVars, refill, churn>>

OpConnectFail(s) ==
    /\ op[s].pc = "connect"
    /\ StartMayFail(op[s].node)
    /\ FailNode(op[s].node, op[s].stat)
    /\ OpEnd(s)
    /\ UNCHANGED <<slotVars, tun, kernVars, xact, workVars, refill, churn>>

OpConnect(s, t) ==
    /\ op[s].pc = "connect"
    /\ StartTunnel(t, op[s].node, op[s].stat)
    /\ op' = [op EXCEPT ![s].pc = "verify", ![s].tun = t]
    /\ UNCHANGED <<slotVars, leaseVars, kernVars, xact, dbVars, workVars, refill, churn>>

\* Destroy the candidate, fail its node and end; st is the slot tables by then.
OpAbort(s, st, dt) ==
    /\ Stop(op[s].tun, st, dt)
    /\ FailNode(op[s].node, op[s].stat)
    /\ OpEnd(s)

\* Mutant: a candidate whose process died is waited for.
OpVerifyFailLive(s) ==
    /\ op[s].pc = "verify"
    /\ Up(op[s].tun)
    /\ MuFree /\ \E p \in Prefix : ~CheckPrefixDiversity(op[s].node, p, {s})
    /\ OpAbort(s, slotTable, drainTable)
    /\ UNCHANGED <<slotVars, xact, workVars, refill, churn>>

OpVerifyFail(s) ==
    /\ op[s].pc = "verify"
    /\ \/ {"verify", "admission", "route"} \cap Faults # {}
       \/ ~Up(op[s].tun)
       \/ MuFree /\ \E p \in Prefix : ~CheckPrefixDiversity(op[s].node, p, {s})
    /\ OpAbort(s, slotTable, drainTable)
    /\ UNCHANGED <<slotVars, xact, workVars, refill, churn>>

\* QUALIFIED is refused for a copy read as STANDBY (or CONNECTING, ...).  A
\* lease preempted meanwhile would stop the candidate without failing its node.
OpVerify(s, p) ==
    /\ MuFree
    /\ op[s].pc = "verify"
    /\ Up(op[s].tun)
    /\ CheckPrefixDiversity(op[s].node, p, {s})
    /\ status' = IF CanTransition(op[s].stat, "QUALIFIED")
                 THEN [status EXCEPT ![op[s].node] = "QUALIFIED"] ELSE status
    /\ quarantine' = quarantine \ {op[s].node}
    /\ IF ValidateLease(s)
       THEN /\ tun' = [tun EXCEPT ![op[s].tun].exit = p,
                                  ![op[s].tun].stat = Moved(@, "QUALIFIED")]
            /\ op' = [op EXCEPT ![s].pc = "activate", ![s].stat = Moved(@, "QUALIFIED")]
            /\ UNCHANGED <<leaseVars, kernVars>>
       ELSE /\ Stop(op[s].tun, slotTable, drainTable)
            /\ OpEnd(s)
    /\ UNCHANGED <<slotVars, xact, secrets, workVars, refill, churn>>

\* 4a. Xray, outside Mu.
OpActivateFail(s) ==
    /\ op[s].pc = "activate"
    /\ ActivateMayFail(s)
    /\ OpAbort(s, slotTable, drainTable)
    /\ UNCHANGED <<slotVars, xact, workVars, refill, churn>>

OpActivate(s) ==
    /\ op[s].pc = "activate"
    /\ ActivateSlot(s)
    /\ op' = [op EXCEPT ![s].pc = "route"]
    /\ UNCHANGED <<slotVars, leaseVars, tun, kernVars, dbVars, workVars, refill, churn>>

\* Mutant: an emptied slot stays with Xray.
OpRollbackBalanced(s) ==
    /\ OpAbort(s, [slotTable EXCEPT ![s] = IF op[s].cur = None THEN Unreachable ELSE op[s].cur],
               drainTable)
    /\ UNCHANGED xact

\* Undo 4a and 4b: back to the remembered tunnel, or fail closed.
OpRollback(s) ==
    IF op[s].cur # None
    THEN /\ \/ Up(op[s].cur) /\ OpAbort(s, [slotTable EXCEPT ![s] = op[s].cur], drainTable)
            \/ \E st \in RouteFailures(slotTable, s, op[s].cur) : OpAbort(s, st, drainTable)
         /\ UNCHANGED xact
    ELSE /\ \E st \in Cleared(slotTable, s) : OpAbort(s, st, drainTable)
         /\ \/ DrainingSlot(s)
            \/ DrainingMayFail(s) /\ UNCHANGED xact

\* 4b. The slot's table.
OpRouteFail(s) ==
    /\ op[s].pc = "route"
    /\ RouteFailures(slotTable, s, op[s].tun) # {}
    /\ OpRollback(s)
    /\ UNCHANGED <<slotVars, workVars, refill, churn>>

OpRoute(s) ==
    /\ op[s].pc = "route"
    /\ Up(op[s].tun)
    /\ slotTable' = [slotTable EXCEPT ![s] = op[s].tun]
    /\ op' = [op EXCEPT ![s].pc = "commit"]
    /\ UNCHANGED <<slotVars, leaseVars, tun, drainTable, xact, dbVars, workVars, refill, churn>>

\* Mutant: the final /24 check fails the node and forgets the rollback.
OpCommitRejectBare(s) ==
    /\ MuFree
    /\ op[s].pc = "commit"
    /\ ~CheckPrefixDiversity(op[s].node, tun[op[s].tun].exit, {s})
    /\ FailNode(op[s].node, op[s].stat)
    /\ OpEnd(s)
    /\ UNCHANGED <<slotVars, tun, kernVars, xact, workVars, refill, churn>>

\* 4c. The commit, under Mu.
OpCommitReject(s) ==
    /\ MuFree
    /\ op[s].pc = "commit"
    /\ ~CheckPrefixDiversity(op[s].node, tun[op[s].tun].exit, {s})
    /\ OpRollback(s)
    /\ UNCHANGED <<slotVars, workVars, refill, churn>>

\* Mutant: the /24 check is not repeated under the lock of the commit.
CommittingUnchecked(s) == MuFree /\ op[s].pc = "commit"

Committing(s) ==
    /\ MuFree
    /\ op[s].pc = "commit"
    /\ CheckPrefixDiversity(op[s].node, tun[op[s].tun].exit, {s})

\* An empty slot takes the tunnel; a replaced one is moved to its draining table.
OpCommit(s) ==
    LET old == active[s] IN
    /\ Committing(s)
    /\ active' = [active EXCEPT ![s] = op[s].tun]
    /\ op' = [op EXCEPT ![s].pc = "finish"]
    /\ IF old = None
       THEN UNCHANGED <<draining, drainAge, tun, drainTable, dbVars>>
       ELSE /\ draining[s] = None /\ Up(old)
            /\ drainTable' = [drainTable EXCEPT ![s] = old]
            /\ tun' = [tun EXCEPT ![old].state = "DRAINING", ![old].stat = Moved(@, "DRAINING")]
            /\ draining' = [draining EXCEPT ![s] = old]
            /\ drainAge' = [drainAge EXCEPT ![s] = 0]
            /\ TransitionNode(tun[old].node, tun[old].stat, "DRAINING")
    /\ UNCHANGED <<standby, leaseVars, slotTable, xact, workVars, refill, churn>>

\* DrainReplacedTunnelLocked fails: the old tunnel keeps the slot.
OpDrainFail(s) ==
    LET old == active[s] IN
    /\ Committing(s)
    /\ old # None
    /\ \E dt \in IF draining[s] = None THEN RouteFailures(drainTable, s, old) ELSE {drainTable} :
         \/ Up(old) /\ OpAbort(s, [slotTable EXCEPT ![s] = old], dt)
         \/ \E st \in RouteFailures(slotTable, s, old) : OpAbort(s, st, dt)
    /\ UNCHANGED <<slotVars, xact, workVars, refill, churn>>

OpFinish(s) ==
    /\ op[s].pc = "finish"
    /\ TransitionNode(op[s].node, op[s].stat, "ACTIVE")
    /\ tun' = [tun EXCEPT ![op[s].tun].stat = Moved(@, "ACTIVE")]
    /\ OpEnd(s)
    /\ UNCHANGED <<slotVars, kernVars, xact, workVars, refill, churn>>

\* releaseSlot.
OpUnlock(s) ==
    /\ MuFree
    /\ op[s].pc = "unlock"
    /\ override' = [override EXCEPT ![s] = FALSE]
    /\ op' = [op EXCEPT ![s] = IdleOp]
    /\ UNCHANGED <<slotVars, gen, holder, tun, kernVars, xact, dbVars, workVars, refill, churn>>
------------------------------------------------------------------------------
(* Specification *)

Waiter(t) == WaiterFail(t) \/ WaiterDone(t)

Worker ==
    \/ Tick \/ Refill \/ CleanupDone
    \/ \E s \in Slot : CleanupKeep(s)
    \/ \E s \in Slot, timeout \in BOOLEAN : CleanupStop(s, timeout)
    \/ \E s \in Slot : HealthPass(s)
    \/ \E s \in Slot : DrainRefused(s)
    \/ \E s \in Slot : Retire(s)
    \/ \E s \in Slot : DrainMark(s)
    \/ DrainRouted \/ DrainRollback \/ HealthDone
    \/ \E s \in Slot : FillSkip(s)
    \/ \E s \in Slot : FillDrop(s)
    \/ \E s \in Slot : FillPromote(s)
    \/ FillDone \/ Sync \/ CapacityReached \/ CapacityShort \/ Progress
    \/ SelectNone
    \/ \E n \in Node : Select(n)
    \/ AdmitDefer \/ AdmitReject \/ Admit
    \/ ConnectFail
    \/ \E t \in Tunnel : Connect(t)
    \/ VerifyFail
    \/ \E p \in Prefix : Verify(p)
    \/ BenchFail \/ Bench \/ CommitReject \/ Commit

Operation(s) ==
    \/ OpReject(s) \/ OpAdmit(s) \/ OpPrepare(s) \/ OpConnectFail(s)
    \/ \E t \in Tunnel : OpConnect(s, t)
    \/ OpVerifyFail(s)
    \/ \E p \in Prefix : OpVerify(s, p)
    \/ OpActivateFail(s) \/ OpActivate(s) \/ OpRouteFail(s) \/ OpRoute(s)
    \/ OpCommitReject(s) \/ OpCommit(s) \/ OpDrainFail(s) \/ OpFinish(s) \/ OpUnlock(s)

Next ==
    \/ Worker
    \/ \E s \in Slot : Operation(s)
    \/ \E s \in Slot, n \in Node : Request(s, n)
    \/ \E t \in Tunnel : TunnelExit(t)
    \/ \E t \in Tunnel : Waiter(t)
    \/ \E n \in Node : CleanStaleNode(n)
    \/ \E n \in Node, v \in Verdict : Discover(n, v)

Spec == Init /\ [][Next]_vars

\* The worker's ticker and a tunnel's waiter always run again.  An operation
\* that waits for Mu gets it although the worker keeps taking it: sync.Mutex
\* hands the lock to a waiter that has starved, which is strong fairness.
FairSpec ==
    /\ Spec
    /\ WF_vars(Worker)
    /\ \A t \in Tunnel : WF_vars(Waiter(t))
    /\ \A s \in Slot : SF_vars(Operation(s))
------------------------------------------------------------------------------
(* Safety *)

\* The places that own a tunnel and may stop it.
Owners(t) ==
    {<<"active", s>> : s \in {s \in Slot : active[s] = t}}
    \cup {<<"draining", s>> : s \in {s \in Slot : draining[s] = t}}
    \cup {<<"standby", i>> : i \in {i \in DOMAIN standby : standby[i] = t}}
    \cup {<<"op", s>> : s \in {s \in Slot : op[s].tun = t /\ op[s].pc # "finish"}}
    \cup {<<"worker", 0>> : x \in {x \in {cand.tun} : x = t}}

\* A tunnel has at most one owner, and what is owned has not been stopped: no
\* slot, standby position, switch or qualification keeps using a tunnel another
\* one tears down (Tunnel.Stop on every failure and cleanup path).
SoleOwner ==
    \A t \in Tunnel :
        /\ \A x, y \in Owners(t) : x = y
        /\ Owners(t) # {} => tun[t].proc # "free"

\* The tunnels clients are or may next be sent to.
Pool == {active[s] : s \in Occupied(active)} \cup {standby[i] : i \in DOMAIN standby}
SharePrefix(t, u) ==
    NodePrefixes(tun[t].node, tun[t].exit) \cap NodePrefixes(tun[u].node, tun[u].exit) # {}

\* The /24 policy between different nodes survives the gap between a check and
\* the commit it is for: two qualifications (the worker's and a switch's, or two
\* switches') that each passed CheckPrefixDiversity never both commit.
DistinctNodesDiverse ==
    \A t, u \in Pool : tun[t].node # tun[u].node => ~SharePrefix(t, u)

Working == OpPc \ {"idle", "unlock"}

\* ManualOverride and the generation lease guard the same interval: an override
\* is set exactly while a switch runs, a running switch always holds the slot's
\* current lease, and no lease outlives its switch (handleSlotAction,
\* executeManualSwitch, ReleaseLease).
LeaseExclusive ==
    \A s \in Slot :
        /\ override[s] <=> op[s].pc # "idle"
        /\ op[s].pc \in Working => ValidateLease(s)
        /\ op[s].pc \notin Working => holder[s] = 0

\* The tunnel a switch read before its long unlocked qualification, and rolls
\* back to, is still the slot's tunnel whenever it is used (currentActive in
\* executeManualSwitch).
RollbackTargetFresh ==
    \A s \in Slot :
        op[s].pc \in {"connect", "verify", "activate", "route", "commit"} =>
            active[s] = op[s].cur

\* The standby count is read long before the append that relies on it
\* (maintainStandbyPool): the pool still never exceeds MaxStandby.
StandbyBound == Len(standby) <= MaxStandby

\* Outside a switch, a slot's table leads to the slot's own tunnel, to the one it
\* is draining, or nowhere: never to a standby, a candidate or a tunnel of
\* another slot.
NoMisroute ==
    \A s \in Slot :
        ~override[s] => slotTable[s] \in {None, Unreachable, active[s], draining[s]}

\* A slot Xray balances over never leads to its draining tunnel, except between
\* steps 4a and 4b of a switch (DrainingSlot: new connections avoid the slot), and
\* unless both Xray's refusals and failing flushes are among the faults: then a
\* rollback to the empty slot may leave both as they were.
NewConnectionsAvoidDraining ==
    \A s \in xact :
        ~({"xray", "flush"} \subseteq Faults) /\ op[s].pc # "route" =>
            draining[s] = None \/ slotTable[s] # draining[s]

\* While Xray accepts changes, it never balances over a slot without a tunnel,
\* except during the cutover of a switch into an empty slot.
NoBlackhole ==
    \A s \in xact :
        "xray" \notin Faults => active[s] # None \/ op[s].pc \in {"route", "commit"}
------------------------------------------------------------------------------
(* Action properties *)

\* GUARANTEE of executeManualSwitch: until the cutover (4b) nothing takes the old
\* tunnel out of its slot, stops it, marks it, drops its route or takes the slot
\* from Xray, as long as its process lives.
NonDestructiveSwitch ==
    [][\A s \in Slot :
        LET t == active[s] IN
        /\ op[s].pc \in Working \ {"route", "commit", "finish"}
        /\ t # None /\ Up(t) /\ tun'[t].proc # "exited"
        => /\ active'[s] = t
           /\ tun'[t] = tun[t]
           /\ slotTable[s] = t => slotTable'[s] = t
           /\ s \in xact => s \in xact']_vars

\* A slot loses its tunnel only once Xray has stopped using the slot
\* (transitionToDrainingLocked: "Immediately request Xray to exclude slot").
ExcludedBeforeRemoved ==
    [][\A s \in Slot : active[s] # None /\ active'[s] = None => s \notin xact']_vars
------------------------------------------------------------------------------
(* Liveness *)

\* A switch always ends and unlocks its slot.
SwitchEnds == \A s \in Slot : op[s].pc # "idle" ~> op[s].pc = "idle"

\* A tunnel whose process died leaves its slot, or a live one takes its place: no
\* rollback resurrects it for good (reconcileActiveSlots).
DeadTunnelLeaves ==
    \A s \in Slot :
        active[s] # None /\ ~Up(active[s]) ~> active[s] = None \/ Up(active[s])

\* A slot does not drain for ever: a tunnel kept while conntrack is busy or unknown
\* goes with the timeout at the latest (cleanupDrainingSlots).
DrainingEnds ==
    \A s \in Slot : draining[s] # None ~> draining[s] = None

\* An empty slot takes a warm tunnel, or the pool runs dry.
EmptySlotRefilled ==
    \A s \in Slot : active[s] = None /\ standby # <<>> ~> active[s] # None \/ standby = <<>>

\* A slot with a live tunnel is balanced over by Xray, even when a switch's
\* ActivateSlot raced SyncActiveSlots.
LiveSlotBalanced ==
    \A s \in Slot :
        active[s] # None /\ Up(active[s]) ~> s \in xact \/ active[s] = None \/ ~Up(active[s])
------------------------------------------------------------------------------
(* What the repository states and the code does not keep *)

\* cleanupDrainingSlots removes draining tunnels: none is dropped unstopped.
NoOrphan == \A t \in Tunnel : tun[t].proc # "free" => Owners(t) # {}

\* PRODUCTION_DEBUG_REPORT.md: when its tunnel is killed, a slot Xray balances
\* over still has a default route, `unreachable` if no other (a switch in its
\* cutover aside).  An empty table lets the slot's marked packets fall through
\* to the main table (SetupSlotRouting).
FailsClosed == \A s \in xact : ~override[s] => slotTable[s] # None
==============================================================================
