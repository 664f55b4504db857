-------------------------- MODULE EgressSlotsProofs --------------------------
(***************************************************************************)
(* Theorems about EgressSlots, for every set of slots, tunnels, nodes and  *)
(* prefixes, every bound and every set of faults.                          *)
(***************************************************************************)
EXTENDS EgressSlots, FiniteSetTheorems, TLAPS

USE EgressAssumption

\* What a row's in-memory status moves to is a status.
LEMMA MovedType ==
    ASSUME NEW current \in NodeStatus, NEW target \in NodeStatus
    PROVE  Moved(current, target) \in NodeStatus
BY DEF Moved

\* The selectable rows are finitely many.
LEMMA SelectableCountType ==
    ASSUME secrets \subseteq Node
    PROVE  SelectableCount \in Nat
<1>1. CleanRows \subseteq Node /\ QuarantinedRows \subseteq Node
  BY DEF CleanRows, QuarantinedRows
<1>2. IsFiniteSet(CleanRows) /\ IsFiniteSet(QuarantinedRows)
  BY <1>1, FS_Subset
<1>3. Cardinality(CleanRows) \in Nat /\ Cardinality(QuarantinedRows) \in Nat
  BY <1>2, FS_CardinalityType
<1> QED BY <1>3 DEF SelectableCount
------------------------------------------------------------------------------
(* Type correctness *)

\* A worker past Connect has a tunnel, one that drains has a slot; a running switch has a node.
LocalsTyped ==
    /\ wpc \in {"verify", "bench", "commit"} => cand.tun \in Tunnel
    /\ wpc = "drain" => run.drain \in Slot
    /\ \A s \in Slot : op[s].pc \in Working => op[s].node \in Node

TypeInv == TypeOK /\ LocalsTyped


\* The statuses the code names are statuses.
LEMMA StatusNames ==
    {"NEW", "REPUTATION_CHECKED", "CONNECTING", "HEALTH_CHECK", "SPEED_TEST", "QUALIFIED",
     "STANDBY", "ACTIVE", "DRAINING", "FAILED", "STALE"} \subseteq NodeStatus
BY DEF NodeStatus

\* Setting the state of a tunnel keeps the tunnels well formed.
LEMMA TunnelStateType ==
    ASSUME tun \in [Tunnel -> TunnelRec], NEW t, NEW x \in SlotState
    PROVE  [tun EXCEPT ![t].state = x] \in [Tunnel -> TunnelRec]
BY DEF TunnelRec

\* So does moving the status it carries.
LEMMA TunnelStatType ==
    ASSUME tun \in [Tunnel -> TunnelRec], NEW t, NEW x, t \in Tunnel => x \in NodeStatus
    PROVE  [tun EXCEPT ![t].stat = x] \in [Tunnel -> TunnelRec]
BY DEF TunnelRec

Tables == [Slot -> Tunnel \cup {None, Unreachable}]
DrainTables == [Slot -> Tunnel \cup {None}]

\* Whatever a failed command leaves in a table is a table.
LEMMA FailureTypes ==
    /\ \A table \in Tables, s \in Slot : Cleared(table, s) \subseteq Tables
    /\ \A t : \A table \in Tables, s \in Slot : RouteFailures(table, s, t) \subseteq Tables
    /\ \A t : \A table \in DrainTables, s \in Slot : RouteFailures(table, s, t) \subseteq DrainTables
<1>1. ASSUME NEW table \in Tables, NEW s \in Slot PROVE Cleared(table, s) \subseteq Tables
  <2>1. [table EXCEPT ![s] = Unreachable] \in Tables /\ [table EXCEPT ![s] = None] \in Tables
    BY DEF Tables
  <2> QED BY <2>1 DEF Cleared
<1>2. ASSUME NEW table \in Tables, NEW s \in Slot, NEW t
      PROVE RouteFailures(table, s, t) \subseteq Tables
  <2>1. [table EXCEPT ![s] = None] \in Tables
    BY DEF Tables
  <2> QED BY <2>1 DEF RouteFailures
<1>3. ASSUME NEW table \in DrainTables, NEW s \in Slot, NEW t
      PROVE RouteFailures(table, s, t) \subseteq DrainTables
  <2>1. [table EXCEPT ![s] = None] \in DrainTables
    BY DEF DrainTables
  <2> QED BY <2>1 DEF RouteFailures
<1> QED BY <1>1, <1>2, <1>3

\* Stopping a tunnel keeps the tunnels and the tables well formed.
LEMMA StopTypes ==
    ASSUME tun \in [Tunnel -> TunnelRec], NEW t, NEW st \in Tables, NEW dt \in DrainTables,
           Stop(t, st, dt)
    PROVE  /\ tun' \in [Tunnel -> TunnelRec]
           /\ slotTable' \in [Slot -> Tunnel \cup {None, Unreachable}]
           /\ drainTable' \in [Slot -> Tunnel \cup {None}]
<1>1. FreeTunnel \in TunnelRec
  BY StatusNames DEF FreeTunnel, TunnelRec, SlotState, ProcState
<1> QED BY <1>1 DEF Stop, Unrouted, Tables, DrainTables

\* A rollback stops the candidate on top of some tables.
LEMMA RollbackStops ==
    ASSUME TypeOK, NEW s \in Slot, OpRollback(s)
    PROVE  \E st \in Tables : Stop(op[s].tun, st, drainTable)
<1>1. slotTable \in Tables /\ op[s].cur \in Tunnel \cup {None}
  BY DEF TypeOK, OpRec, Tables
<1>2. CASE op[s].cur # None
  <2>1. [slotTable EXCEPT ![s] = op[s].cur] \in Tables
    BY <1>1 DEF Tables
  <2>2. RouteFailures(slotTable, s, op[s].cur) \subseteq Tables
    BY <1>1, FailureTypes
  <2> QED BY <1>2, <2>1, <2>2 DEF OpRollback, OpAbort
<1>3. CASE op[s].cur = None
  <2>1. Cleared(slotTable, s) \subseteq Tables
    BY <1>1, FailureTypes
  <2> QED BY <1>3, <2>1 DEF OpRollback, OpAbort
<1> QED BY <1>2, <1>3

\* Every step preserves the types.
LEMMA TypeStep == TypeInv /\ [Next]_vars => TypeInv'
<1> SUFFICES ASSUME TypeInv, [Next]_vars PROVE TypeInv'
  OBVIOUS
<1>t. tun \in [Tunnel -> TunnelRec]
  BY DEF TypeInv, TypeOK
<1>m. \A t \in Tunnel : tun[t].stat \in NodeStatus /\
        \A x \in NodeStatus : Moved(tun[t].stat, x) \in NodeStatus
  BY <1>t, MovedType DEF TunnelRec
<1>o. op \in [Slot -> OpRec]
  BY DEF TypeInv, TypeOK
<1>r. run \in RunRec
  BY DEF TypeInv, TypeOK
<1>c. cand \in CandRec
  BY DEF TypeInv, TypeOK
<1>d. status \in [Node -> NodeStatus] /\ LocalsTyped
  BY DEF TypeInv, TypeOK
<1>k. /\ slotTable \in [Slot -> Tunnel \cup {None, Unreachable}]
      /\ drainTable \in [Slot -> Tunnel \cup {None}]
      /\ active \in [Slot -> Tunnel \cup {None}]
      /\ draining \in [Slot -> Tunnel \cup {None}]
      /\ drainAge \in [Slot -> 0 .. DrainTicks]
      /\ status \in [Node -> NodeStatus] /\ secrets \subseteq Node /\ quarantine \subseteq Node
  BY DEF TypeInv, TypeOK
<1>f. slotTable \in Tables /\ drainTable \in DrainTables
  BY <1>k DEF Tables, DrainTables
<1>1. CASE Tick
  <2>1. LocalsTyped'
    BY <1>1, <1>d, <1>o, <1>c DEF Tick, Occupied, slotVars, leaseVars, kernVars, dbVars,
        workVars, LocalsTyped, Working
  <2> QED
    BY <1>1, <2>1, StatusNames
    DEF TypeInv, TypeOK, Tick, Occupied, slotVars, leaseVars, kernVars, dbVars, workVars,
        WorkerPc
<1>2. CASE Refill
  <2>1. run' \in RunRec
    BY <1>2, <1>r, SelectableCountType DEF Refill, BeginReconcile, Occupied, slotVars,
        leaseVars, kernVars, dbVars, workVars, RunRec, NoRun
  <2>2. LocalsTyped'
    BY <1>2, <1>d, <1>o, <1>c DEF Refill, BeginReconcile, Occupied, slotVars, leaseVars,
        kernVars, dbVars, workVars, LocalsTyped, Working
  <2> QED
    BY <1>2, <2>1, <2>2, StatusNames
    DEF TypeInv, TypeOK, Refill, BeginReconcile, Occupied, slotVars, leaseVars, kernVars,
        dbVars, workVars, WorkerPc
<1>3. CASE CleanupDone
  <2>1. run' \in RunRec
    BY <1>3, <1>r, SelectableCountType DEF CleanupDone, BeginReconcile, Occupied,
        slotVars, leaseVars, kernVars, dbVars, workVars, RunRec, NoRun
  <2>2. LocalsTyped'
    BY <1>3, <1>d, <1>o, <1>c DEF CleanupDone, BeginReconcile, Occupied, slotVars,
        leaseVars, kernVars, dbVars, workVars, LocalsTyped, Working
  <2> QED
    BY <1>3, <2>1, <2>2, StatusNames
    DEF TypeInv, TypeOK, CleanupDone, BeginReconcile, Occupied, slotVars, leaseVars,
        kernVars, dbVars, workVars, WorkerPc
<1>4. ASSUME NEW s \in Slot, CleanupKeep(s) PROVE TypeInv'
  <2>1. drainAge' \in [Slot -> 0 .. DrainTicks]
    BY <1>4 DEF CleanupKeep, slotVars, leaseVars, kernVars, dbVars, workVars, TypeInv,
        TypeOK
  <2>2. LocalsTyped'
    BY <1>4, <1>d, <1>o, <1>c DEF CleanupKeep, slotVars, leaseVars, kernVars, dbVars,
        workVars, LocalsTyped, Working
  <2> QED
    BY <1>4, <2>1, <2>2, StatusNames
    DEF TypeInv, TypeOK, CleanupKeep, slotVars, leaseVars, kernVars, dbVars, workVars,
        WorkerPc
<1>5. ASSUME NEW s \in Slot, NEW b \in BOOLEAN, CleanupStop(s, b) PROVE TypeInv'
  <2>0. /\ (IF b /\ active[s] = None THEN Cleared(slotTable, s) ELSE {slotTable}) \subseteq Tables
       /\ [drainTable EXCEPT ![s] = None] \in DrainTables
    BY <1>f, FailureTypes DEF DrainTables
  <2>1. PICK st \in Tables : Stop(draining[s], st, [drainTable EXCEPT ![s] = None])
    BY <1>5, <2>0 DEF CleanupStop
  <2>2. /\ tun' \in [Tunnel -> TunnelRec]
       /\ slotTable' \in [Slot -> Tunnel \cup {None, Unreachable}]
       /\ drainTable' \in [Slot -> Tunnel \cup {None}]
    BY <1>t, <2>0, <2>1, StopTypes
  <2>3. /\ active' \in [Slot -> Tunnel \cup {None}]
       /\ draining' \in [Slot -> Tunnel \cup {None}]
       /\ drainAge' \in [Slot -> 0 .. DrainTicks]
    BY <1>5, <1>k, <1>o DEF CleanupStop, TransitionNode, slotVars,
        leaseVars, kernVars, dbVars, workVars, OpRec
  <2>4. status' \in [Node -> NodeStatus] /\ secrets' \subseteq Node /\ quarantine' \subseteq Node
    BY <1>5, <1>k, StatusNames, MovedType DEF CleanupStop, TransitionNode,
        slotVars, leaseVars, kernVars, dbVars, workVars
  <2>5. LocalsTyped'
    BY <1>5, <1>d, <1>o, <1>c DEF CleanupStop, TransitionNode, slotVars,
        leaseVars, kernVars, dbVars, workVars, LocalsTyped, Working
  <2> QED
    BY <1>5, <2>2, <2>3, <2>4, <2>5, StatusNames
    DEF TypeInv, TypeOK, CleanupStop, TransitionNode, slotVars, leaseVars,
        kernVars, dbVars, workVars, WorkerPc
<1>6. ASSUME NEW s \in Slot, HealthPass(s) PROVE TypeInv'
  <2>1. LocalsTyped'
    BY <1>6, <1>d, <1>o, <1>c DEF HealthPass, slotVars, leaseVars, kernVars, dbVars,
        workVars, LocalsTyped, Working
  <2> QED
    BY <1>6, <2>1, StatusNames
    DEF TypeInv, TypeOK, HealthPass, slotVars, leaseVars, kernVars, dbVars, workVars,
        WorkerPc
<1>7. ASSUME NEW s \in Slot, DrainRefused(s) PROVE TypeInv'
  <2>1. LocalsTyped'
    BY <1>7, <1>d, <1>o, <1>c DEF DrainRefused, slotVars, leaseVars, kernVars, dbVars,
        workVars, LocalsTyped, Working
  <2> QED
    BY <1>7, <2>1, StatusNames
    DEF TypeInv, TypeOK, DrainRefused, slotVars, leaseVars, kernVars, dbVars, workVars,
        WorkerPc
<1>8. ASSUME NEW s \in Slot, Retire(s) PROVE TypeInv'
  <2>0. PICK st \in Tables : Stop(active[s], st, drainTable)
    BY <1>8, <1>f, FailureTypes DEF Retire
  <2>1. /\ tun' \in [Tunnel -> TunnelRec]
       /\ slotTable' \in [Slot -> Tunnel \cup {None, Unreachable}]
       /\ drainTable' \in [Slot -> Tunnel \cup {None}]
    BY <1>t, <1>f, <2>0, StopTypes
  <2>2. LocalsTyped'
    BY <1>8, <1>d, <1>o, <1>c DEF Retire, FailNode, DrainingSlot,
        slotVars, leaseVars, kernVars, dbVars, workVars, LocalsTyped, Working
  <2> QED
    BY <1>8, <2>1, <2>2, StatusNames
    DEF TypeInv, TypeOK, Retire, FailNode, DrainingSlot, slotVars,
        leaseVars, kernVars, dbVars, workVars, WorkerPc
<1>9. ASSUME NEW s \in Slot, DrainMark(s) PROVE TypeInv'
  <2>1. tun' \in [Tunnel -> TunnelRec]
    BY <1>9, <1>t, TunnelStateType DEF DrainMark, SlotState
  <2>2. run' \in RunRec
    BY <1>9, <1>r, SelectableCountType DEF DrainMark, DrainingSlot, slotVars, leaseVars,
        kernVars, dbVars, workVars, RunRec, NoRun
  <2>3. LocalsTyped'
    BY <1>9, <1>d, <1>o, <1>c DEF DrainMark, DrainingSlot, slotVars, leaseVars, kernVars,
        dbVars, workVars, LocalsTyped, Working
  <2> QED
    BY <1>9, <2>1, <2>2, <2>3, StatusNames
    DEF TypeInv, TypeOK, DrainMark, DrainingSlot, slotVars, leaseVars, kernVars, dbVars,
        workVars, WorkerPc
<1>10. CASE DrainRouted
  <2>1. tun' \in [Tunnel -> TunnelRec]
    BY <1>10, <1>t, <1>m, StatusNames, TunnelStatType DEF DrainRouted
  <2>2. run' \in RunRec
    BY <1>10, <1>r, SelectableCountType DEF DrainRouted, TransitionNode, slotVars,
        leaseVars, kernVars, dbVars, workVars, RunRec, NoRun
  <2>3. /\ slotTable' \in [Slot -> Tunnel \cup {None, Unreachable}]
       /\ drainTable' \in [Slot -> Tunnel \cup {None}]
    BY <1>10, <1>k, <1>o DEF DrainRouted, TransitionNode, slotVars, leaseVars, kernVars,
        dbVars, workVars, OpRec
  <2>4. /\ active' \in [Slot -> Tunnel \cup {None}]
       /\ draining' \in [Slot -> Tunnel \cup {None}]
       /\ drainAge' \in [Slot -> 0 .. DrainTicks]
    <3>0. active' \in [Slot -> Tunnel \cup {None}]
      BY <1>10, <1>k DEF DrainRouted
    <3>1. drainAge' \in [Slot -> 0 .. DrainTicks]
      <4>1. 0 \in 0 .. DrainTicks
        OBVIOUS
      <4> QED BY <4>1, <1>10, <1>k DEF DrainRouted
    <3>2. ASSUME NEW s \in Slot PROVE draining'[s] \in Tunnel \cup {None}
      BY <1>10, <1>k, <3>2 DEF DrainRouted
    <3>3. draining' = [s \in Slot |-> draining'[s]]
      BY <1>10, <1>k DEF DrainRouted
    <3> QED BY <3>0, <3>1, <3>2, <3>3
  <2>5. status' \in [Node -> NodeStatus] /\ secrets' \subseteq Node /\ quarantine' \subseteq Node
    BY <1>10, <1>k, StatusNames, MovedType DEF DrainRouted, TransitionNode, slotVars,
        leaseVars, kernVars, dbVars, workVars
  <2>6. LocalsTyped'
    BY <1>10, <1>d, <1>o, <1>c DEF DrainRouted, TransitionNode, slotVars, leaseVars,
        kernVars, dbVars, workVars, LocalsTyped, Working
  <2> QED
    BY <1>10, <2>1, <2>2, <2>3, <2>4, <2>5, <2>6, StatusNames
    DEF TypeInv, TypeOK, DrainRouted, TransitionNode, slotVars, leaseVars, kernVars,
        dbVars, workVars, WorkerPc
<1>11. CASE DrainRollback
  <2>1. tun' \in [Tunnel -> TunnelRec]
    BY <1>11, <1>t, TunnelStateType DEF DrainRollback, SlotState
  <2>2. run' \in RunRec
    BY <1>11, <1>r, SelectableCountType DEF DrainRollback, ActivateSlot, slotVars,
        leaseVars, kernVars, dbVars, workVars, RunRec, NoRun
  <2>3. /\ slotTable' \in [Slot -> Tunnel \cup {None, Unreachable}]
       /\ drainTable' \in [Slot -> Tunnel \cup {None}]
    <3>1. run.drain \in Slot
      BY <1>11, <1>d DEF DrainRollback, LocalsTyped
    <3>2. drainTable' \in DrainTables
      BY <1>11, <1>f, <3>1, FailureTypes DEF DrainRollback
    <3> QED BY <1>11, <1>k, <3>2 DEF DrainRollback, DrainTables
  <2>4. /\ active' \in [Slot -> Tunnel \cup {None}]
       /\ draining' \in [Slot -> Tunnel \cup {None}]
       /\ drainAge' \in [Slot -> 0 .. DrainTicks]
    BY <1>11, <1>k, <1>o DEF DrainRollback, ActivateSlot, slotVars, leaseVars, kernVars,
        dbVars, workVars, OpRec
  <2>5. status' \in [Node -> NodeStatus] /\ secrets' \subseteq Node /\ quarantine' \subseteq Node
    BY <1>11, <1>k, StatusNames, MovedType DEF DrainRollback, ActivateSlot, slotVars,
        leaseVars, kernVars, dbVars, workVars
  <2>6. LocalsTyped'
    BY <1>11, <1>d, <1>o, <1>c DEF DrainRollback, ActivateSlot, slotVars, leaseVars,
        kernVars, dbVars, workVars, LocalsTyped, Working
  <2> QED
    <3>1. xact' \subseteq Slot
      <4>1. xact \subseteq Slot
        BY DEF TypeInv, TypeOK
      <4>2. run.drain \in Slot
        BY <1>11, <1>d DEF DrainRollback, LocalsTyped
      <4> QED BY <1>11, <4>1, <4>2 DEF DrainRollback, ActivateSlot
    <3>2. wpc' \in WorkerPc
      BY <1>11 DEF DrainRollback, WorkerPc
    <3>3. UNCHANGED <<standby, override, gen, holder, wtodo, cand, refill, op, churn>>
      BY <1>11 DEF DrainRollback, slotVars, leaseVars
    <3> QED
      BY <2>1, <2>2, <2>3, <2>4, <2>5, <2>6, <3>1, <3>2, <3>3 DEF TypeInv, TypeOK
<1>12. CASE HealthDone
  <2>1. LocalsTyped'
    BY <1>12, <1>d, <1>o, <1>c DEF HealthDone, slotVars, leaseVars, kernVars, dbVars,
        workVars, LocalsTyped, Working
  <2> QED
    BY <1>12, <2>1, StatusNames
    DEF TypeInv, TypeOK, HealthDone, slotVars, leaseVars, kernVars, dbVars, workVars,
        WorkerPc
<1>13. ASSUME NEW s \in Slot, FillSkip(s) PROVE TypeInv'
  <2>1. LocalsTyped'
    BY <1>13, <1>d, <1>o, <1>c DEF FillSkip, slotVars, leaseVars, kernVars, dbVars,
        workVars, LocalsTyped, Working
  <2> QED
    BY <1>13, <2>1, StatusNames
    DEF TypeInv, TypeOK, FillSkip, slotVars, leaseVars, kernVars, dbVars, workVars,
        WorkerPc
<1>14. ASSUME NEW s \in Slot, FillDrop(s) PROVE TypeInv'
  <2>a. Head(standby) \in Tunnel
    BY <1>14 DEF FillDrop, Promoting, TypeInv, TypeOK
  <2>b. [slotTable EXCEPT ![s] = Head(standby)] \in Tables
    BY <1>f, <2>a DEF Tables
  <2>c. /\ RouteFailures(slotTable, s, Head(standby)) \subseteq Tables
       /\ Cleared([slotTable EXCEPT ![s] = Head(standby)], s) \subseteq Tables
    BY <1>f, <2>b, FailureTypes
  <2>d. PICK st \in Tables : Stop(Head(standby), st, drainTable)
    BY <1>14, <1>f, <2>c DEF FillDrop
  <2>1. /\ tun' \in [Tunnel -> TunnelRec]
       /\ slotTable' \in [Slot -> Tunnel \cup {None, Unreachable}]
       /\ drainTable' \in [Slot -> Tunnel \cup {None}]
    BY <1>t, <1>f, <2>d, StopTypes
  <2>2. standby' \in Seq(Tunnel)
    BY <1>14 DEF FillDrop, Promoting, slotVars, leaseVars, kernVars,
        dbVars, workVars, TypeInv, TypeOK, LocalsTyped
  <2>3. LocalsTyped'
    BY <1>14, <1>d, <1>o, <1>c DEF FillDrop, Promoting, slotVars,
        leaseVars, kernVars, dbVars, workVars, LocalsTyped, Working
  <2> QED
    BY <1>14, <2>1, <2>2, <2>3, StatusNames
    DEF TypeInv, TypeOK, FillDrop, Promoting, slotVars, leaseVars,
        kernVars, dbVars, workVars, WorkerPc
<1>15. ASSUME NEW s \in Slot, FillPromote(s) PROVE TypeInv'
  <2>a. Head(standby) \in Tunnel
    BY <1>15 DEF FillPromote, Promoting, TypeInv, TypeOK
  <2>1. tun' \in [Tunnel -> TunnelRec]
    BY <1>15, <2>a, <1>t, StatusNames, MovedType DEF FillPromote, TunnelRec
  <2>2. standby' \in Seq(Tunnel) /\ Head(standby) \in Tunnel
    BY <1>15 DEF FillPromote, Promoting, TypeInv, TypeOK
  <2>3. LocalsTyped'
    BY <1>15, <1>d, <1>o, <1>c DEF FillPromote, Promoting, ActivateSlot, TransitionNode,
        slotVars, leaseVars, kernVars, dbVars, workVars, LocalsTyped, Working
  <2> QED
    BY <1>15, <2>1, <2>2, <2>3, StatusNames
    DEF TypeInv, TypeOK, FillPromote, Promoting, ActivateSlot, TransitionNode, slotVars,
        leaseVars, kernVars, dbVars, workVars, WorkerPc
<1>16. CASE FillDone
  <2>1. LocalsTyped'
    BY <1>16, <1>d, <1>o, <1>c DEF FillDone, slotVars, leaseVars, kernVars, dbVars,
        workVars, LocalsTyped, Working
  <2> QED
    BY <1>16, <2>1, StatusNames
    DEF TypeInv, TypeOK, FillDone, slotVars, leaseVars, kernVars, dbVars, workVars,
        WorkerPc
<1>17. CASE Sync
  <2>1. LocalsTyped'
    BY <1>17, <1>d, <1>o, <1>c DEF Sync, LiveSlots, Occupied, slotVars, leaseVars,
        kernVars, dbVars, workVars, LocalsTyped, Working
  <2> QED
    BY <1>17, <2>1, StatusNames
    DEF TypeInv, TypeOK, Sync, LiveSlots, Occupied, slotVars, leaseVars, kernVars, dbVars,
        workVars, WorkerPc
<1>18. CASE CapacityReached
  <2>1. run' \in RunRec
    BY <1>18, <1>r, SelectableCountType DEF CapacityReached, BeginTail, slotVars,
        leaseVars, kernVars, dbVars, workVars, RunRec, NoRun
  <2>2. LocalsTyped'
    BY <1>18, <1>d, <1>o, <1>c DEF CapacityReached, BeginTail, slotVars, leaseVars,
        kernVars, dbVars, workVars, LocalsTyped, Working
  <2> QED
    BY <1>18, <2>1, <2>2, StatusNames
    DEF TypeInv, TypeOK, CapacityReached, BeginTail, slotVars, leaseVars, kernVars,
        dbVars, workVars, WorkerPc
<1>19. CASE CapacityShort
  <2>1. run' \in RunRec
    <3>1. SelectableCount \in Nat /\ Len(standby) \in Nat
      BY SelectableCountType DEF TypeInv, TypeOK
    <3> QED BY <1>19, <1>r, <3>1 DEF CapacityShort, RunRec
  <2>2. LocalsTyped'
    BY <1>19, <1>d, <1>o, <1>c DEF CapacityShort, slotVars, leaseVars, kernVars, dbVars,
        workVars, LocalsTyped, Working
  <2> QED
    BY <1>19, <2>1, <2>2, StatusNames
    DEF TypeInv, TypeOK, CapacityShort, slotVars, leaseVars, kernVars, dbVars, workVars,
        WorkerPc
<1>20. CASE Progress
  <2>1. run' \in RunRec
    <3>1. run.attempt + 1 \in Nat
      BY <1>r DEF RunRec
    <3>2. [NoRun EXCEPT !.attempt = run.attempt + 1] \in RunRec
      BY <3>1 DEF RunRec, NoRun
    <3>3. [NoRun EXCEPT !.tail = TRUE] \in RunRec
      BY DEF RunRec, NoRun
    <3> QED BY <1>20, <3>2, <3>3 DEF Progress, BeginTail, BeginReconcile
  <2>2. LocalsTyped'
    BY <1>20, <1>d, <1>o, <1>c DEF Progress, BeginTail, BeginReconcile, Occupied,
        slotVars, leaseVars, kernVars, dbVars, workVars, LocalsTyped, Working
  <2> QED
    BY <1>20, <2>1, <2>2, StatusNames
    DEF TypeInv, TypeOK, Progress, BeginTail, BeginReconcile, Occupied, slotVars,
        leaseVars, kernVars, dbVars, workVars, WorkerPc
<1>21. CASE SelectNone
  <2>1. run' \in RunRec
    BY <1>21, <1>r, SelectableCountType DEF SelectNone, Leave, slotVars, leaseVars,
        kernVars, dbVars, workVars, RunRec, NoRun
  <2>2. cand' \in CandRec
    BY <1>21, <1>c, <1>d, StatusNames, MovedType DEF SelectNone, Leave, slotVars,
        leaseVars, kernVars, dbVars, workVars, CandRec, NoCand
  <2>3. LocalsTyped'
    BY <1>21, <1>d, <1>o, <1>c DEF SelectNone, Leave, slotVars, leaseVars, kernVars,
        dbVars, workVars, LocalsTyped, Working, CandRec, NoCand
  <2> QED
    BY <1>21, <2>1, <2>2, <2>3, StatusNames
    DEF TypeInv, TypeOK, SelectNone, Leave, slotVars, leaseVars, kernVars, dbVars,
        workVars, WorkerPc
<1>22. ASSUME NEW n \in Node, Select(n) PROVE TypeInv'
  <2>1. cand' \in CandRec
    <3>1. status[n] \in NodeStatus /\ (n \in QuarantinedRows) \in BOOLEAN
      BY <1>22, <1>d
    <3> DEFINE q == n \in QuarantinedRows
    <3>2. cand' = [NoCand EXCEPT !.node = n, !.stat = status[n], !.quar = q]
      BY <1>22 DEF Select
    <3> HIDE DEF q
    <3>3. q \in BOOLEAN
      BY <3>1 DEF q
    <3> QED BY <1>22, <3>1, <3>2, <3>3 DEF CandRec, NoCand
  <2>2. LocalsTyped'
    BY <1>22, <1>d, <1>o, <1>c DEF Select, slotVars, leaseVars, kernVars, dbVars,
        workVars, LocalsTyped, Working, CandRec, NoCand
  <2> QED
    BY <1>22, <2>1, <2>2, StatusNames
    DEF TypeInv, TypeOK, Select, slotVars, leaseVars, kernVars, dbVars, workVars, WorkerPc
<1>23. CASE AdmitDefer
  <2>1. run' \in RunRec
    BY <1>23, <1>r, SelectableCountType DEF AdmitDefer, Leave, slotVars, leaseVars,
        kernVars, dbVars, workVars, RunRec, NoRun
  <2>2. cand' \in CandRec
    BY <1>23, <1>c, <1>d, StatusNames, MovedType DEF AdmitDefer, Leave, slotVars,
        leaseVars, kernVars, dbVars, workVars, CandRec, NoCand
  <2>3. LocalsTyped'
    BY <1>23, <1>d, <1>o, <1>c DEF AdmitDefer, Leave, slotVars, leaseVars, kernVars,
        dbVars, workVars, LocalsTyped, Working, CandRec, NoCand
  <2> QED
    BY <1>23, <2>1, <2>2, <2>3, StatusNames
    DEF TypeInv, TypeOK, AdmitDefer, Leave, slotVars, leaseVars, kernVars, dbVars,
        workVars, WorkerPc
<1>24. CASE AdmitReject
  <2>1. run' \in RunRec
    BY <1>24, <1>r, SelectableCountType DEF AdmitReject, FailNode, Leave, slotVars,
        leaseVars, kernVars, dbVars, workVars, RunRec, NoRun
  <2>2. cand' \in CandRec
    BY <1>24, <1>c, <1>d, StatusNames, MovedType DEF AdmitReject, FailNode, Leave,
        slotVars, leaseVars, kernVars, dbVars, workVars, CandRec, NoCand
  <2>3. LocalsTyped'
    BY <1>24, <1>d, <1>o, <1>c DEF AdmitReject, FailNode, Leave, slotVars, leaseVars,
        kernVars, dbVars, workVars, LocalsTyped, Working, CandRec, NoCand
  <2> QED
    BY <1>24, <2>1, <2>2, <2>3, StatusNames
    DEF TypeInv, TypeOK, AdmitReject, FailNode, Leave, slotVars, leaseVars, kernVars,
        dbVars, workVars, WorkerPc
<1>25. CASE Admit
  <2>1. cand' \in CandRec
    BY <1>25, <1>c, <1>d, StatusNames, MovedType DEF Admit, slotVars, leaseVars, kernVars,
        dbVars, workVars, CandRec, NoCand
  <2>2. status' \in [Node -> NodeStatus] /\ secrets' \subseteq Node /\ quarantine' \subseteq Node
    <3>1. Moved(cand.stat, "CONNECTING") \in NodeStatus
      BY <1>c, StatusNames, MovedType DEF CandRec
    <3> QED BY <1>25, <1>k, <3>1 DEF Admit
  <2>3. LocalsTyped'
    BY <1>25, <1>d, <1>o, <1>c DEF Admit, slotVars, leaseVars, kernVars, dbVars, workVars,
        LocalsTyped, Working, CandRec, NoCand
  <2> QED
    BY <1>25, <2>1, <2>2, <2>3, StatusNames, MovedType
    DEF TypeInv, TypeOK, Admit, slotVars, leaseVars, kernVars, dbVars, workVars, WorkerPc
<1>26. CASE ConnectFail
  <2>1. run' \in RunRec
    BY <1>26, <1>r, SelectableCountType DEF ConnectFail, FailNode, Leave, slotVars,
        leaseVars, kernVars, dbVars, workVars, RunRec, NoRun
  <2>2. cand' \in CandRec
    BY <1>26, <1>c, <1>d, StatusNames, MovedType DEF ConnectFail, FailNode, Leave,
        slotVars, leaseVars, kernVars, dbVars, workVars, CandRec, NoCand
  <2>3. LocalsTyped'
    BY <1>26, <1>d, <1>o, <1>c DEF ConnectFail, FailNode, Leave, slotVars, leaseVars,
        kernVars, dbVars, workVars, LocalsTyped, Working, CandRec, NoCand
  <2> QED
    BY <1>26, <2>1, <2>2, <2>3, StatusNames
    DEF TypeInv, TypeOK, ConnectFail, FailNode, Leave, slotVars, leaseVars, kernVars,
        dbVars, workVars, WorkerPc
<1>27. ASSUME NEW t \in Tunnel, Connect(t) PROVE TypeInv'
  <2>1. tun' \in [Tunnel -> TunnelRec]
    <3>1. cand.node \in Node \cup {None} /\ Moved(cand.stat, "HEALTH_CHECK") \in NodeStatus
      BY <1>c, StatusNames, MovedType DEF CandRec
    <3> QED BY <1>27, <1>t, <3>1 DEF Connect, StartTunnel, TunnelRec, SlotState, ProcState
  <2>2. cand' \in CandRec
    BY <1>27, <1>c, <1>d, StatusNames, MovedType DEF Connect, StartTunnel, TransitionNode,
        slotVars, leaseVars, kernVars, dbVars, workVars, CandRec, NoCand
  <2>3. LocalsTyped'
    BY <1>27, <1>d, <1>o, <1>c DEF Connect, StartTunnel, TransitionNode, slotVars,
        leaseVars, kernVars, dbVars, workVars, LocalsTyped, Working, CandRec, NoCand
  <2> QED
    BY <1>27, <2>1, <2>2, <2>3, StatusNames
    DEF TypeInv, TypeOK, Connect, StartTunnel, TransitionNode, slotVars, leaseVars,
        kernVars, dbVars, workVars, WorkerPc
<1>28. CASE VerifyFail
  <2>1. tun' \in [Tunnel -> TunnelRec]
    BY <1>28, <1>t, StatusNames, MovedType DEF VerifyFail, QualifyFail, FailNode, Stop,
        Unrouted, Leave, slotVars, leaseVars, kernVars, dbVars, workVars, TunnelRec,
        SlotState, ProcState, FreeTunnel
  <2>2. run' \in RunRec
    BY <1>28, <1>r, SelectableCountType DEF VerifyFail, QualifyFail, FailNode, Stop,
        Unrouted, Leave, slotVars, leaseVars, kernVars, dbVars, workVars, RunRec, NoRun
  <2>3. cand' \in CandRec
    BY <1>28, <1>c, <1>d, StatusNames, MovedType DEF VerifyFail, QualifyFail, FailNode,
        Stop, Unrouted, Leave, slotVars, leaseVars, kernVars, dbVars, workVars, CandRec,
        NoCand
  <2>4. LocalsTyped'
    BY <1>28, <1>d, <1>o, <1>c DEF VerifyFail, QualifyFail, FailNode, Stop, Unrouted,
        Leave, slotVars, leaseVars, kernVars, dbVars, workVars, LocalsTyped, Working,
        CandRec, NoCand
  <2> QED
    BY <1>28, <2>1, <2>2, <2>3, <2>4, StatusNames
    DEF TypeInv, TypeOK, VerifyFail, QualifyFail, FailNode, Stop, Unrouted, Leave,
        slotVars, leaseVars, kernVars, dbVars, workVars, WorkerPc
<1>29. ASSUME NEW p \in Prefix, Verify(p) PROVE TypeInv'
  <2>1. tun' \in [Tunnel -> TunnelRec]
    <3>1. cand.tun \in Tunnel
      BY <1>29, <1>d DEF Verify, LocalsTyped
    <3>2. Moved(tun[cand.tun].stat, "SPEED_TEST") \in NodeStatus
      BY <1>t, <3>1, StatusNames, MovedType DEF TunnelRec
    <3> QED BY <1>29, <1>t, <3>1, <3>2 DEF Verify, TunnelRec
  <2>2. cand' \in CandRec
    BY <1>29, <1>c, <1>d, StatusNames, MovedType DEF Verify, slotVars, leaseVars,
        kernVars, dbVars, workVars, CandRec, NoCand
  <2>3. LocalsTyped'
    BY <1>29, <1>d, <1>o, <1>c DEF Verify, slotVars, leaseVars, kernVars, dbVars,
        workVars, LocalsTyped, Working, CandRec, NoCand
  <2> QED
    BY <1>29, <2>1, <2>2, <2>3, StatusNames
    DEF TypeInv, TypeOK, Verify, slotVars, leaseVars, kernVars, dbVars, workVars, WorkerPc
<1>30. CASE BenchFail
  <2>1. tun' \in [Tunnel -> TunnelRec]
    BY <1>30, <1>t, StatusNames, MovedType DEF BenchFail, QualifyFail, FailNode, Stop,
        Unrouted, Leave, slotVars, leaseVars, kernVars, dbVars, workVars, TunnelRec,
        SlotState, ProcState, FreeTunnel
  <2>2. run' \in RunRec
    BY <1>30, <1>r, SelectableCountType DEF BenchFail, QualifyFail, FailNode, Stop,
        Unrouted, Leave, slotVars, leaseVars, kernVars, dbVars, workVars, RunRec, NoRun
  <2>3. cand' \in CandRec
    BY <1>30, <1>c, <1>d, StatusNames, MovedType DEF BenchFail, QualifyFail, FailNode,
        Stop, Unrouted, Leave, slotVars, leaseVars, kernVars, dbVars, workVars, CandRec,
        NoCand
  <2>4. LocalsTyped'
    BY <1>30, <1>d, <1>o, <1>c DEF BenchFail, QualifyFail, FailNode, Stop, Unrouted,
        Leave, slotVars, leaseVars, kernVars, dbVars, workVars, LocalsTyped, Working,
        CandRec, NoCand
  <2> QED
    BY <1>30, <2>1, <2>2, <2>3, <2>4, StatusNames
    DEF TypeInv, TypeOK, BenchFail, QualifyFail, FailNode, Stop, Unrouted, Leave,
        slotVars, leaseVars, kernVars, dbVars, workVars, WorkerPc
<1>31. CASE Bench
  <2>1. tun' \in [Tunnel -> TunnelRec]
    <3>1. cand.tun \in Tunnel => Standby(tun[cand.tun].stat) \in NodeStatus
      BY <1>t, <1>m, StatusNames, MovedType DEF Standby
    <3> QED BY <1>31, <1>t, <3>1, TunnelStatType DEF Bench
  <2>2. cand' \in CandRec
    BY <1>31, <1>c, <1>d, StatusNames, MovedType DEF Bench, Standby, slotVars, leaseVars,
        kernVars, dbVars, workVars, CandRec, NoCand
  <2>3. LocalsTyped'
    BY <1>31, <1>d, <1>o, <1>c DEF Bench, Standby, slotVars, leaseVars, kernVars, dbVars,
        workVars, LocalsTyped, Working, CandRec, NoCand
  <2> QED
    BY <1>31, <2>1, <2>2, <2>3, StatusNames
    DEF TypeInv, TypeOK, Bench, Standby, slotVars, leaseVars, kernVars, dbVars, workVars,
        WorkerPc
<1>32. CASE CommitReject
  <2>1. tun' \in [Tunnel -> TunnelRec]
    BY <1>32, <1>t, StatusNames, MovedType DEF CommitReject, QualifyFail, FailNode, Stop,
        Unrouted, Leave, slotVars, leaseVars, kernVars, dbVars, workVars, TunnelRec,
        SlotState, ProcState, FreeTunnel
  <2>2. run' \in RunRec
    BY <1>32, <1>r, SelectableCountType DEF CommitReject, QualifyFail, FailNode, Stop,
        Unrouted, Leave, slotVars, leaseVars, kernVars, dbVars, workVars, RunRec, NoRun
  <2>3. cand' \in CandRec
    BY <1>32, <1>c, <1>d, StatusNames, MovedType DEF CommitReject, QualifyFail, FailNode,
        Stop, Unrouted, Leave, slotVars, leaseVars, kernVars, dbVars, workVars, CandRec,
        NoCand
  <2>4. LocalsTyped'
    BY <1>32, <1>d, <1>o, <1>c DEF CommitReject, QualifyFail, FailNode, Stop, Unrouted,
        Leave, slotVars, leaseVars, kernVars, dbVars, workVars, LocalsTyped, Working,
        CandRec, NoCand
  <2> QED
    BY <1>32, <2>1, <2>2, <2>3, <2>4, StatusNames
    DEF TypeInv, TypeOK, CommitReject, QualifyFail, FailNode, Stop, Unrouted, Leave,
        slotVars, leaseVars, kernVars, dbVars, workVars, WorkerPc
<1>33. CASE Commit
  <2>1. tun' \in [Tunnel -> TunnelRec]
    BY <1>33, <1>t, TunnelStateType DEF Commit, SlotState
  <2>2. run' \in RunRec
    BY <1>33, <1>r, SelectableCountType DEF Commit, Leave, slotVars, leaseVars, kernVars,
        dbVars, workVars, RunRec, NoRun
  <2>3. cand' \in CandRec
    BY <1>33, <1>c, <1>d, StatusNames, MovedType DEF Commit, Leave, slotVars, leaseVars,
        kernVars, dbVars, workVars, CandRec, NoCand
  <2>4. standby' \in Seq(Tunnel)
    BY <1>33 DEF Commit, Leave, slotVars, leaseVars, kernVars, dbVars, workVars, TypeInv,
        TypeOK, LocalsTyped
  <2>5. LocalsTyped'
    BY <1>33, <1>d, <1>o, <1>c DEF Commit, Leave, slotVars, leaseVars, kernVars, dbVars,
        workVars, LocalsTyped, Working, CandRec, NoCand
  <2> QED
    BY <1>33, <2>1, <2>2, <2>3, <2>4, <2>5, StatusNames
    DEF TypeInv, TypeOK, Commit, Leave, slotVars, leaseVars, kernVars, dbVars, workVars,
        WorkerPc
<1>34. ASSUME NEW s \in Slot, OpReject(s) PROVE TypeInv'
  <2>1. op' \in [Slot -> OpRec]
    BY <1>34, <1>o, <1>d, StatusNames, MovedType DEF OpReject, FailNode, OpEnd,
        ReleaseLease, slotVars, leaseVars, kernVars, dbVars, workVars, OpRec, OpPc,
        IdleOp, Working
  <2>2. LocalsTyped'
    BY <1>34, <1>d, <1>o, <1>c DEF OpReject, FailNode, OpEnd, ReleaseLease, slotVars,
        leaseVars, kernVars, dbVars, workVars, LocalsTyped, Working, OpRec, OpPc, IdleOp
  <2> QED
    BY <1>34, <2>1, <2>2, StatusNames
    DEF TypeInv, TypeOK, OpReject, FailNode, OpEnd, ReleaseLease, slotVars, leaseVars,
        kernVars, dbVars, workVars, WorkerPc
<1>35. ASSUME NEW s \in Slot, OpAdmit(s) PROVE TypeInv'
  <2>1. op' \in [Slot -> OpRec]
    BY <1>35, <1>o, <1>d, StatusNames, MovedType DEF OpAdmit, slotVars, leaseVars,
        kernVars, dbVars, workVars, OpRec, OpPc, IdleOp, Working
  <2>2. LocalsTyped'
    BY <1>35, <1>d, <1>o, <1>c DEF OpAdmit, slotVars, leaseVars, kernVars, dbVars,
        workVars, LocalsTyped, Working, OpRec, OpPc, IdleOp
  <2> QED
    BY <1>35, <2>1, <2>2, StatusNames
    DEF TypeInv, TypeOK, OpAdmit, slotVars, leaseVars, kernVars, dbVars, workVars,
        WorkerPc
<1>36. ASSUME NEW s \in Slot, OpPrepare(s) PROVE TypeInv'
  <2>1. op' \in [Slot -> OpRec]
    BY <1>36, <1>o, <1>d, StatusNames, MovedType DEF OpPrepare, OpEnd, ReleaseLease,
        slotVars, leaseVars, kernVars, dbVars, workVars, OpRec, OpPc, IdleOp, Working
  <2>2. LocalsTyped'
    BY <1>36, <1>d, <1>o, <1>c DEF OpPrepare, OpEnd, ReleaseLease, slotVars, leaseVars,
        kernVars, dbVars, workVars, LocalsTyped, Working, OpRec, OpPc, IdleOp
  <2> QED
    BY <1>36, <2>1, <2>2, StatusNames
    DEF TypeInv, TypeOK, OpPrepare, OpEnd, ReleaseLease, slotVars, leaseVars, kernVars,
        dbVars, workVars, WorkerPc
<1>37. ASSUME NEW s \in Slot, OpConnectFail(s) PROVE TypeInv'
  <2>1. op' \in [Slot -> OpRec]
    BY <1>37, <1>o, <1>d, StatusNames, MovedType DEF OpConnectFail, FailNode, OpEnd,
        ReleaseLease, slotVars, leaseVars, kernVars, dbVars, workVars, OpRec, OpPc,
        IdleOp, Working
  <2>2. LocalsTyped'
    BY <1>37, <1>d, <1>o, <1>c DEF OpConnectFail, FailNode, OpEnd, ReleaseLease, slotVars,
        leaseVars, kernVars, dbVars, workVars, LocalsTyped, Working, OpRec, OpPc, IdleOp
  <2> QED
    BY <1>37, <2>1, <2>2, StatusNames
    DEF TypeInv, TypeOK, OpConnectFail, FailNode, OpEnd, ReleaseLease, slotVars,
        leaseVars, kernVars, dbVars, workVars, WorkerPc
<1>38. ASSUME NEW s \in Slot, NEW t \in Tunnel, OpConnect(s, t) PROVE TypeInv'
  <2>1. tun' \in [Tunnel -> TunnelRec]
    <3>1. op[s].node \in Node \cup {None} /\ op[s].stat \in NodeStatus
      BY <1>o DEF OpRec
    <3> QED BY <1>38, <1>t, <3>1 DEF OpConnect, StartTunnel, TunnelRec, SlotState, ProcState
  <2>2. op' \in [Slot -> OpRec]
    <3>1. [op[s] EXCEPT !.pc = "verify", !.tun = t] \in OpRec
      BY <1>38, <1>o DEF OpRec, OpPc
    <3> QED BY <1>38, <1>o, <3>1 DEF OpConnect
  <2>3. LocalsTyped'
    BY <1>38, <1>d, <1>o, <1>c DEF OpConnect, StartTunnel, slotVars, leaseVars, kernVars,
        dbVars, workVars, LocalsTyped, Working, OpRec, OpPc, IdleOp
  <2> QED
    BY <1>38, <2>1, <2>2, <2>3, StatusNames
    DEF TypeInv, TypeOK, OpConnect, StartTunnel, slotVars, leaseVars, kernVars, dbVars,
        workVars, WorkerPc
<1>39. ASSUME NEW s \in Slot, OpVerifyFail(s) PROVE TypeInv'
  <2>1. tun' \in [Tunnel -> TunnelRec]
    BY <1>39, <1>t, StatusNames, MovedType DEF OpVerifyFail, OpAbort, FailNode, Stop,
        Unrouted, OpEnd, ReleaseLease, slotVars, leaseVars, kernVars, dbVars, workVars,
        TunnelRec, SlotState, ProcState, FreeTunnel
  <2>2. op' \in [Slot -> OpRec]
    BY <1>39, <1>o, <1>d, StatusNames, MovedType DEF OpVerifyFail, OpAbort, FailNode,
        Stop, Unrouted, OpEnd, ReleaseLease, slotVars, leaseVars, kernVars, dbVars,
        workVars, OpRec, OpPc, IdleOp, Working
  <2>3. LocalsTyped'
    BY <1>39, <1>d, <1>o, <1>c DEF OpVerifyFail, OpAbort, FailNode, Stop, Unrouted, OpEnd,
        ReleaseLease, slotVars, leaseVars, kernVars, dbVars, workVars, LocalsTyped,
        Working, OpRec, OpPc, IdleOp
  <2> QED
    BY <1>39, <2>1, <2>2, <2>3, StatusNames
    DEF TypeInv, TypeOK, OpVerifyFail, OpAbort, FailNode, Stop, Unrouted, OpEnd,
        ReleaseLease, slotVars, leaseVars, kernVars, dbVars, workVars, WorkerPc
<1>40. ASSUME NEW s \in Slot, NEW p \in Prefix, OpVerify(s, p) PROVE TypeInv'
  <2>1. tun' \in [Tunnel -> TunnelRec]
    BY <1>40, <1>t, StatusNames, MovedType DEF OpVerify, Stop, Unrouted, OpEnd,
        ReleaseLease, slotVars, leaseVars, kernVars, dbVars, workVars, TunnelRec,
        SlotState, ProcState, FreeTunnel
  <2>2. op' \in [Slot -> OpRec]
    <3>1. Moved(op[s].stat, "QUALIFIED") \in NodeStatus
      BY <1>40, <1>o, StatusNames, MovedType DEF OpRec
    <3>2. CASE ValidateLease(s)
      <4> DEFINE o == [op[s] EXCEPT !.pc = "activate",
                                    !.stat = Moved(op[s].stat, "QUALIFIED")]
      <4>1. o \in OpRec
        BY <1>40, <1>o, <3>1 DEF OpRec, OpPc
      <4>2. op' = [op EXCEPT ![s] = o]
        BY <1>40, <3>2, <1>o DEF OpVerify, OpRec
      <4> HIDE DEF o
      <4> QED BY <1>o, <4>1, <4>2
    <3>3. CASE ~ValidateLease(s)
      BY <1>40, <1>o, <3>3, StatusNames DEF OpVerify, OpEnd, OpRec, OpPc, IdleOp
    <3> QED BY <3>2, <3>3
  <2>3. /\ slotTable' \in [Slot -> Tunnel \cup {None, Unreachable}]
       /\ drainTable' \in [Slot -> Tunnel \cup {None}]
    BY <1>40, <1>k, <1>o DEF OpVerify, Stop, Unrouted, OpEnd, ReleaseLease, slotVars,
        leaseVars, kernVars, dbVars, workVars, OpRec
  <2>4. /\ active' \in [Slot -> Tunnel \cup {None}]
       /\ draining' \in [Slot -> Tunnel \cup {None}]
       /\ drainAge' \in [Slot -> 0 .. DrainTicks]
    BY <1>40, <1>k, <1>o DEF OpVerify, Stop, Unrouted, OpEnd, ReleaseLease, slotVars,
        leaseVars, kernVars, dbVars, workVars, OpRec
  <2>5. status' \in [Node -> NodeStatus] /\ secrets' \subseteq Node /\ quarantine' \subseteq Node
    BY <1>40, <1>k, StatusNames, MovedType DEF OpVerify, Stop, Unrouted, OpEnd,
        ReleaseLease, slotVars, leaseVars, kernVars, dbVars, workVars
  <2>6. LocalsTyped'
    BY <1>40, <1>d, <1>o, <1>c DEF OpVerify, Stop, Unrouted, OpEnd, ReleaseLease,
        slotVars, leaseVars, kernVars, dbVars, workVars, LocalsTyped, Working, OpRec,
        OpPc, IdleOp
  <2> QED
    BY <1>40, <2>1, <2>2, <2>3, <2>4, <2>5, <2>6, StatusNames
    DEF TypeInv, TypeOK, OpVerify, Stop, Unrouted, OpEnd, ReleaseLease, slotVars,
        leaseVars, kernVars, dbVars, workVars, WorkerPc
<1>41. ASSUME NEW s \in Slot, OpActivateFail(s) PROVE TypeInv'
  <2>1. tun' \in [Tunnel -> TunnelRec]
    BY <1>41, <1>t, StatusNames, MovedType DEF OpActivateFail, OpAbort, FailNode, Stop,
        Unrouted, OpEnd, ReleaseLease, slotVars, leaseVars, kernVars, dbVars, workVars,
        TunnelRec, SlotState, ProcState, FreeTunnel
  <2>2. op' \in [Slot -> OpRec]
    BY <1>41, <1>o, <1>d, StatusNames, MovedType DEF OpActivateFail, OpAbort, FailNode,
        Stop, Unrouted, OpEnd, ReleaseLease, slotVars, leaseVars, kernVars, dbVars,
        workVars, OpRec, OpPc, IdleOp, Working
  <2>3. LocalsTyped'
    BY <1>41, <1>d, <1>o, <1>c DEF OpActivateFail, OpAbort, FailNode, Stop, Unrouted,
        OpEnd, ReleaseLease, slotVars, leaseVars, kernVars, dbVars, workVars, LocalsTyped,
        Working, OpRec, OpPc, IdleOp
  <2> QED
    BY <1>41, <2>1, <2>2, <2>3, StatusNames
    DEF TypeInv, TypeOK, OpActivateFail, OpAbort, FailNode, Stop, Unrouted, OpEnd,
        ReleaseLease, slotVars, leaseVars, kernVars, dbVars, workVars, WorkerPc
<1>42. ASSUME NEW s \in Slot, OpActivate(s) PROVE TypeInv'
  <2>1. op' \in [Slot -> OpRec]
    BY <1>42, <1>o, <1>d, StatusNames, MovedType DEF OpActivate, ActivateSlot, slotVars,
        leaseVars, kernVars, dbVars, workVars, OpRec, OpPc, IdleOp, Working
  <2>2. LocalsTyped'
    BY <1>42, <1>d, <1>o, <1>c DEF OpActivate, ActivateSlot, slotVars, leaseVars,
        kernVars, dbVars, workVars, LocalsTyped, Working, OpRec, OpPc, IdleOp
  <2> QED
    BY <1>42, <2>1, <2>2, StatusNames
    DEF TypeInv, TypeOK, OpActivate, ActivateSlot, slotVars, leaseVars, kernVars, dbVars,
        workVars, WorkerPc
<1>43. ASSUME NEW s \in Slot, OpRouteFail(s) PROVE TypeInv'
  <2>d. PICK st \in Tables : Stop(op[s].tun, st, drainTable)
    BY <1>43, RollbackStops DEF TypeInv, OpRouteFail
  <2>1. tun' \in [Tunnel -> TunnelRec]
    BY <1>t, <1>f, <2>d, StopTypes
  <2>e. OpEnd(s)
    BY <1>43 DEF OpRouteFail, OpRollback, OpAbort
  <2>2. op' \in [Slot -> OpRec]
    BY <2>e, <1>o, StatusNames DEF OpEnd, OpRec, OpPc, IdleOp
  <2>3. /\ slotTable' \in [Slot -> Tunnel \cup {None, Unreachable}]
       /\ drainTable' \in [Slot -> Tunnel \cup {None}]
    BY <1>t, <1>f, <2>d, StopTypes
  <2>4. /\ active' \in [Slot -> Tunnel \cup {None}]
       /\ draining' \in [Slot -> Tunnel \cup {None}]
       /\ drainAge' \in [Slot -> 0 .. DrainTicks]
    BY <1>43, <1>k, <1>o DEF OpRouteFail, OpRollback, DrainingSlot, OpAbort, FailNode,
        Stop, Unrouted, OpEnd, ReleaseLease, slotVars, leaseVars, kernVars, dbVars,
        workVars, OpRec
  <2>5. status' \in [Node -> NodeStatus] /\ secrets' \subseteq Node /\ quarantine' \subseteq Node
    BY <1>43, <1>k, StatusNames, MovedType DEF OpRouteFail, OpRollback, DrainingSlot,
        OpAbort, FailNode, Stop, Unrouted, OpEnd, ReleaseLease, slotVars, leaseVars,
        kernVars, dbVars, workVars
  <2>6. override' = override /\ gen' = gen /\ holder' \in [Slot -> Nat]
    <3>1. OpEnd(s)
      BY <1>43 DEF OpRouteFail, OpRollback, OpAbort
    <3>2. holder \in [Slot -> Nat]
      BY DEF TypeInv, TypeOK
    <3> QED BY <3>1, <3>2 DEF OpEnd, ReleaseLease
  <2>7. xact' \subseteq Slot
    BY <1>43 DEF OpRouteFail, OpRollback, DrainingSlot, OpAbort, FailNode, Stop, Unrouted,
        OpEnd, ReleaseLease, slotVars, leaseVars, kernVars, dbVars, workVars, TypeInv,
        TypeOK
  <2>8. LocalsTyped'
    BY <1>43, <1>d, <1>o, <1>c DEF OpRouteFail, OpRollback, DrainingSlot, OpAbort,
        FailNode, Stop, Unrouted, OpEnd, ReleaseLease, slotVars, leaseVars, kernVars,
        dbVars, workVars, LocalsTyped, Working, OpRec, OpPc, IdleOp
  <2> QED
    BY <1>43, <2>1, <2>2, <2>3, <2>4, <2>5, <2>6, <2>7, <2>8, StatusNames
    DEF TypeInv, TypeOK, OpRouteFail, slotVars, leaseVars, kernVars, dbVars, workVars,
        WorkerPc
<1>44. ASSUME NEW s \in Slot, OpRoute(s) PROVE TypeInv'
  <2>1. op' \in [Slot -> OpRec]
    BY <1>44, <1>o, <1>d, StatusNames, MovedType DEF OpRoute, slotVars, leaseVars,
        kernVars, dbVars, workVars, OpRec, OpPc, IdleOp, Working
  <2>2. /\ slotTable' \in [Slot -> Tunnel \cup {None, Unreachable}]
       /\ drainTable' \in [Slot -> Tunnel \cup {None}]
    BY <1>44, <1>k, <1>o DEF OpRoute, slotVars, leaseVars, kernVars, dbVars, workVars,
        OpRec
  <2>3. LocalsTyped'
    BY <1>44, <1>d, <1>o, <1>c DEF OpRoute, slotVars, leaseVars, kernVars, dbVars,
        workVars, LocalsTyped, Working, OpRec, OpPc, IdleOp
  <2> QED
    BY <1>44, <2>1, <2>2, <2>3, StatusNames
    DEF TypeInv, TypeOK, OpRoute, slotVars, leaseVars, kernVars, dbVars, workVars,
        WorkerPc
<1>45. ASSUME NEW s \in Slot, OpCommitReject(s) PROVE TypeInv'
  <2>d. PICK st \in Tables : Stop(op[s].tun, st, drainTable)
    BY <1>45, RollbackStops DEF TypeInv, OpCommitReject
  <2>1. tun' \in [Tunnel -> TunnelRec]
    BY <1>t, <1>f, <2>d, StopTypes
  <2>2. op' \in [Slot -> OpRec]
    BY <1>45, <1>o, <1>d, StatusNames, MovedType DEF OpCommitReject, OpRollback,
        DrainingSlot, OpAbort, FailNode, Stop, Unrouted, OpEnd, ReleaseLease, slotVars,
        leaseVars, kernVars, dbVars, workVars, OpRec, OpPc, IdleOp, Working
  <2>3. /\ slotTable' \in [Slot -> Tunnel \cup {None, Unreachable}]
       /\ drainTable' \in [Slot -> Tunnel \cup {None}]
    BY <1>t, <1>f, <2>d, StopTypes
  <2>4. /\ active' \in [Slot -> Tunnel \cup {None}]
       /\ draining' \in [Slot -> Tunnel \cup {None}]
       /\ drainAge' \in [Slot -> 0 .. DrainTicks]
    BY <1>45, <1>k, <1>o DEF OpCommitReject, OpRollback, DrainingSlot, OpAbort, FailNode,
        Stop, Unrouted, OpEnd, ReleaseLease, slotVars, leaseVars, kernVars, dbVars,
        workVars, OpRec
  <2>5. status' \in [Node -> NodeStatus] /\ secrets' \subseteq Node /\ quarantine' \subseteq Node
    BY <1>45, <1>k, StatusNames, MovedType DEF OpCommitReject, OpRollback, DrainingSlot,
        OpAbort, FailNode, Stop, Unrouted, OpEnd, ReleaseLease, slotVars, leaseVars,
        kernVars, dbVars, workVars
  <2>6. override' = override /\ gen' = gen /\ holder' \in [Slot -> Nat]
    <3>1. OpEnd(s)
      BY <1>45 DEF OpCommitReject, OpRollback, OpAbort
    <3>2. holder \in [Slot -> Nat]
      BY DEF TypeInv, TypeOK
    <3> QED BY <3>1, <3>2 DEF OpEnd, ReleaseLease
  <2>7. xact' \subseteq Slot
    BY <1>45 DEF OpCommitReject, OpRollback, DrainingSlot, OpAbort, FailNode, Stop,
        Unrouted, OpEnd, ReleaseLease, slotVars, leaseVars, kernVars, dbVars, workVars,
        TypeInv, TypeOK
  <2>8. LocalsTyped'
    BY <1>45, <1>d, <1>o, <1>c DEF OpCommitReject, OpRollback, DrainingSlot, OpAbort,
        FailNode, Stop, Unrouted, OpEnd, ReleaseLease, slotVars, leaseVars, kernVars,
        dbVars, workVars, LocalsTyped, Working, OpRec, OpPc, IdleOp
  <2> QED
    BY <1>45, <2>1, <2>2, <2>3, <2>4, <2>5, <2>6, <2>7, <2>8, StatusNames
    DEF TypeInv, TypeOK, OpCommitReject, slotVars, leaseVars, kernVars, dbVars, workVars,
        WorkerPc
<1>46. ASSUME NEW s \in Slot, OpCommit(s) PROVE TypeInv'
  <2>1. tun' \in [Tunnel -> TunnelRec]
    BY <1>46, <1>t, StatusNames, MovedType DEF OpCommit, TransitionNode, slotVars,
        leaseVars, kernVars, dbVars, workVars, TunnelRec, SlotState, ProcState, FreeTunnel
  <2>2. op' \in [Slot -> OpRec]
    BY <1>46, <1>o, <1>d, StatusNames, MovedType DEF OpCommit, TransitionNode, slotVars,
        leaseVars, kernVars, dbVars, workVars, OpRec, OpPc, IdleOp, Working
  <2>3. /\ slotTable' \in [Slot -> Tunnel \cup {None, Unreachable}]
       /\ drainTable' \in [Slot -> Tunnel \cup {None}]
    BY <1>46, <1>k, <1>o DEF OpCommit, TransitionNode, slotVars, leaseVars, kernVars,
        dbVars, workVars, OpRec
  <2>4. /\ active' \in [Slot -> Tunnel \cup {None}]
       /\ draining' \in [Slot -> Tunnel \cup {None}]
       /\ drainAge' \in [Slot -> 0 .. DrainTicks]
    BY <1>46, <1>k, <1>o DEF OpCommit, TransitionNode, slotVars, leaseVars, kernVars,
        dbVars, workVars, OpRec
  <2>5. status' \in [Node -> NodeStatus] /\ secrets' \subseteq Node /\ quarantine' \subseteq Node
    BY <1>46, <1>k, StatusNames, MovedType DEF OpCommit, TransitionNode, slotVars,
        leaseVars, kernVars, dbVars, workVars
  <2>6. LocalsTyped'
    <3>1. \A r \in Slot : op'[r].node = op[r].node /\ (op'[r].pc \in Working => op[r].pc \in Working)
      BY <1>46, <1>o DEF OpCommit, Committing, Working, OpRec, OpPc
    <3> QED BY <1>46, <1>d, <3>1 DEF OpCommit, LocalsTyped, workVars
  <2> QED
    BY <1>46, <2>1, <2>2, <2>3, <2>4, <2>5, <2>6, StatusNames
    DEF TypeInv, TypeOK, OpCommit, TransitionNode, slotVars, leaseVars, kernVars, dbVars,
        workVars, WorkerPc
<1>47. ASSUME NEW s \in Slot, OpDrainFail(s) PROVE TypeInv'
  <2>a. /\ active[s] \in Tunnel
       /\ [slotTable EXCEPT ![s] = active[s]] \in Tables
       /\ RouteFailures(slotTable, s, active[s]) \subseteq Tables
       /\ RouteFailures(drainTable, s, active[s]) \subseteq DrainTables
    <3>1. active[s] \in Tunnel
      BY <1>47, <1>k DEF OpDrainFail
    <3>2. [slotTable EXCEPT ![s] = active[s]] \in Tables
      BY <1>f, <3>1 DEF Tables
    <3> QED BY <1>f, <3>1, <3>2, FailureTypes
  <2>d. PICK st \in Tables, dt \in DrainTables : Stop(op[s].tun, st, dt)
    BY <1>47, <1>f, <2>a DEF OpDrainFail, OpAbort
  <2>1. tun' \in [Tunnel -> TunnelRec]
    BY <1>t, <2>d, StopTypes
  <2>2. op' \in [Slot -> OpRec]
    BY <1>47, <1>o, <1>d, StatusNames, MovedType DEF OpDrainFail, OpAbort, FailNode, Stop,
        Unrouted, OpEnd, ReleaseLease, slotVars, leaseVars, kernVars, dbVars, workVars,
        OpRec, OpPc, IdleOp, Working
  <2>3. /\ slotTable' \in [Slot -> Tunnel \cup {None, Unreachable}]
       /\ drainTable' \in [Slot -> Tunnel \cup {None}]
    BY <1>t, <2>d, StopTypes
  <2>4. /\ active' \in [Slot -> Tunnel \cup {None}]
       /\ draining' \in [Slot -> Tunnel \cup {None}]
       /\ drainAge' \in [Slot -> 0 .. DrainTicks]
    BY <1>47, <1>k, <1>o DEF OpDrainFail, OpAbort, FailNode, Stop, Unrouted, OpEnd,
        ReleaseLease, slotVars, leaseVars, kernVars, dbVars, workVars, OpRec
  <2>5. status' \in [Node -> NodeStatus] /\ secrets' \subseteq Node /\ quarantine' \subseteq Node
    BY <1>47, <1>k, StatusNames, MovedType DEF OpDrainFail, OpAbort, FailNode, Stop,
        Unrouted, OpEnd, ReleaseLease, slotVars, leaseVars, kernVars, dbVars, workVars
  <2>6. override' = override /\ gen' = gen /\ holder' \in [Slot -> Nat]
    <3>1. OpEnd(s)
      BY <1>47 DEF OpDrainFail, OpAbort
    <3>2. holder \in [Slot -> Nat]
      BY DEF TypeInv, TypeOK
    <3> QED BY <3>1, <3>2 DEF OpEnd, ReleaseLease
  <2>7. xact' \subseteq Slot
    BY <1>47 DEF OpDrainFail, OpAbort, FailNode, Stop, Unrouted, OpEnd, ReleaseLease,
        slotVars, leaseVars, kernVars, dbVars, workVars, TypeInv, TypeOK
  <2>8. LocalsTyped'
    BY <1>47, <1>d, <1>o, <1>c DEF OpDrainFail, OpAbort, FailNode, Stop, Unrouted, OpEnd,
        ReleaseLease, slotVars, leaseVars, kernVars, dbVars, workVars, LocalsTyped,
        Working, OpRec, OpPc, IdleOp
  <2> QED
    BY <1>47, <2>1, <2>2, <2>3, <2>4, <2>5, <2>6, <2>7, <2>8, StatusNames
    DEF TypeInv, TypeOK, OpDrainFail, slotVars, leaseVars, kernVars, dbVars, workVars,
        WorkerPc
<1>48. ASSUME NEW s \in Slot, OpFinish(s) PROVE TypeInv'
  <2>1. tun' \in [Tunnel -> TunnelRec]
    BY <1>48, <1>t, <1>m, StatusNames, TunnelStatType DEF OpFinish
  <2>2. op' \in [Slot -> OpRec]
    BY <1>48, <1>o, <1>d, StatusNames, MovedType DEF OpFinish, TransitionNode, OpEnd,
        ReleaseLease, slotVars, leaseVars, kernVars, dbVars, workVars, OpRec, OpPc,
        IdleOp, Working
  <2>3. LocalsTyped'
    BY <1>48, <1>d, <1>o, <1>c DEF OpFinish, TransitionNode, OpEnd, ReleaseLease,
        slotVars, leaseVars, kernVars, dbVars, workVars, LocalsTyped, Working, OpRec,
        OpPc, IdleOp
  <2> QED
    BY <1>48, <2>1, <2>2, <2>3, StatusNames
    DEF TypeInv, TypeOK, OpFinish, TransitionNode, OpEnd, ReleaseLease, slotVars,
        leaseVars, kernVars, dbVars, workVars, WorkerPc
<1>49. ASSUME NEW s \in Slot, OpUnlock(s) PROVE TypeInv'
  <2>1. op' \in [Slot -> OpRec]
    BY <1>49, <1>o, <1>d, StatusNames, MovedType DEF OpUnlock, slotVars, leaseVars,
        kernVars, dbVars, workVars, OpRec, OpPc, IdleOp, Working
  <2>2. LocalsTyped'
    BY <1>49, <1>d, <1>o, <1>c DEF OpUnlock, slotVars, leaseVars, kernVars, dbVars,
        workVars, LocalsTyped, Working, OpRec, OpPc, IdleOp
  <2> QED
    BY <1>49, <2>1, <2>2, StatusNames
    DEF TypeInv, TypeOK, OpUnlock, slotVars, leaseVars, kernVars, dbVars, workVars,
        WorkerPc
<1>50. ASSUME NEW s \in Slot, NEW n \in Node, Request(s, n) PROVE TypeInv'
  <2>1. op' \in [Slot -> OpRec]
    <3>1. gen[s] + 1 \in Nat /\ status[n] \in NodeStatus
      BY <1>50, <1>d DEF TypeInv, TypeOK
    <3> QED BY <1>50, <1>o, <3>1 DEF Request, OpRec, OpPc, IdleOp
  <2>2. LocalsTyped'
    BY <1>50, <1>d, <1>o, <1>c DEF Request, slotVars, leaseVars, kernVars, dbVars,
        workVars, LocalsTyped, Working, OpRec, OpPc, IdleOp
  <2> QED
    <3>1. /\ override' \in [Slot -> BOOLEAN]
          /\ gen' \in [Slot -> Nat] /\ holder' \in [Slot -> Nat]
      BY <1>50 DEF Request, TypeInv, TypeOK
    <3>2. UNCHANGED <<slotVars, tun, kernVars, xact, dbVars, workVars, refill, churn>>
      BY <1>50 DEF Request
    <3> QED
      BY <2>1, <2>2, <3>1, <3>2
      DEF TypeInv, TypeOK, slotVars, kernVars, dbVars, workVars
<1>51. ASSUME NEW t \in Tunnel, TunnelExit(t) PROVE TypeInv'
  <2>1. tun' \in [Tunnel -> TunnelRec]
    BY <1>51, <1>t, StatusNames, MovedType DEF TunnelExit, Unrouted, slotVars, leaseVars,
        kernVars, dbVars, workVars, TunnelRec, SlotState, ProcState, FreeTunnel
  <2>2. LocalsTyped'
    BY <1>51, <1>d, <1>o, <1>c DEF TunnelExit, Unrouted, slotVars, leaseVars, kernVars,
        dbVars, workVars, LocalsTyped, Working
  <2> QED
    BY <1>51, <2>1, <2>2, StatusNames
    DEF TypeInv, TypeOK, TunnelExit, Unrouted, slotVars, leaseVars, kernVars, dbVars,
        workVars, WorkerPc
<1>52. ASSUME NEW t \in Tunnel, WaiterFail(t) PROVE TypeInv'
  <2>1. tun' \in [Tunnel -> TunnelRec]
    <3>1. [tun[t] EXCEPT !.proc = "failed", !.state = "FAILED"] \in TunnelRec
      BY <1>t DEF TunnelRec, SlotState, ProcState
    <3>2. tun' = [tun EXCEPT ![t] = [tun[t] EXCEPT !.proc = "failed", !.state = "FAILED"]]
      BY <1>52, <1>t DEF WaiterFail
    <3> QED BY <1>t, <3>1, <3>2
  <2>2. LocalsTyped'
    BY <1>52, <1>d, <1>o, <1>c DEF WaiterFail, slotVars, leaseVars, kernVars, dbVars,
        workVars, LocalsTyped, Working
  <2> QED
    BY <1>52, <2>1, <2>2, StatusNames
    DEF TypeInv, TypeOK, WaiterFail, slotVars, leaseVars, kernVars, dbVars, workVars,
        WorkerPc
<1>53. ASSUME NEW t \in Tunnel, WaiterDone(t) PROVE TypeInv'
  <2>1. tun' \in [Tunnel -> TunnelRec]
    BY <1>53, <1>t, StatusNames, MovedType DEF WaiterDone, slotVars, leaseVars, kernVars,
        dbVars, workVars, TunnelRec, SlotState, ProcState, FreeTunnel
  <2>2. LocalsTyped'
    BY <1>53, <1>d, <1>o, <1>c DEF WaiterDone, slotVars, leaseVars, kernVars, dbVars,
        workVars, LocalsTyped, Working
  <2> QED
    BY <1>53, <2>1, <2>2, StatusNames
    DEF TypeInv, TypeOK, WaiterDone, slotVars, leaseVars, kernVars, dbVars, workVars,
        WorkerPc
<1>54. ASSUME NEW n \in Node, CleanStaleNode(n) PROVE TypeInv'
  <2>1. LocalsTyped'
    BY <1>54, <1>d, <1>o, <1>c DEF CleanStaleNode, slotVars, leaseVars, kernVars, dbVars,
        workVars, LocalsTyped, Working
  <2> QED
    BY <1>54, <2>1, StatusNames
    DEF TypeInv, TypeOK, CleanStaleNode, slotVars, leaseVars, kernVars, dbVars, workVars,
        WorkerPc
<1>55. ASSUME NEW n \in Node, NEW v \in Verdict, Discover(n, v) PROVE TypeInv'
  <2>1. LocalsTyped'
    BY <1>55, <1>d, <1>o, <1>c DEF Discover, slotVars, leaseVars, kernVars, dbVars,
        workVars, LocalsTyped, Working
  <2> QED
    BY <1>55, <2>1, StatusNames
    DEF TypeInv, TypeOK, Discover, slotVars, leaseVars, kernVars, dbVars, workVars,
        WorkerPc
<1>56. CASE UNCHANGED vars
  BY <1>56 DEF TypeInv, TypeOK, LocalsTyped, vars, slotVars, leaseVars, kernVars, dbVars,
      workVars
<1> QED
  BY <1>1, <1>2, <1>3, <1>4, <1>5, <1>6, <1>7, <1>8, <1>9, <1>10, <1>11, <1>12, <1>13,
      <1>14, <1>15, <1>16, <1>17, <1>18, <1>19, <1>20, <1>21, <1>22, <1>23, <1>24, <1>25,
      <1>26, <1>27, <1>28, <1>29, <1>30, <1>31, <1>32, <1>33, <1>34, <1>35, <1>36, <1>37,
      <1>38, <1>39, <1>40, <1>41, <1>42, <1>43, <1>44, <1>45, <1>46, <1>47, <1>48, <1>49,
      <1>50, <1>51, <1>52, <1>53, <1>54, <1>55, <1>56
  DEF Next, Worker, Operation, Waiter

\* Init establishes the types.
LEMMA TypeInit == Init => TypeInv
<1> SUFFICES ASSUME Init PROVE TypeInv
  OBVIOUS
<1>1. /\ FreeTunnel \in TunnelRec /\ IdleOp \in OpRec
      /\ NoRun \in RunRec /\ NoCand \in CandRec
  BY StatusNames
  DEF FreeTunnel, TunnelRec, SlotState, ProcState, IdleOp, OpRec, OpPc, NoRun, RunRec,
      NoCand, CandRec
<1>2. status \in [Node -> NodeStatus]
  BY StatusNames DEF Init
<1>3. LocalsTyped
  BY DEF Init, LocalsTyped, IdleOp, Working
<1>4. standby \in Seq(Tunnel)
  BY DEF Init
<1>5. drainAge \in [Slot -> 0 .. DrainTicks]
  <2>1. 0 \in 0 .. DrainTicks
    OBVIOUS
  <2> QED BY <2>1 DEF Init
<1>6. /\ active \in [Slot -> Tunnel \cup {None}]
      /\ draining \in [Slot -> Tunnel \cup {None}]
      /\ slotTable \in [Slot -> Tunnel \cup {None, Unreachable}]
      /\ drainTable \in [Slot -> Tunnel \cup {None}]
  BY DEF Init
<1>7. /\ override \in [Slot -> BOOLEAN]
      /\ gen \in [Slot -> Nat] /\ holder \in [Slot -> Nat]
  BY DEF Init
<1>8. /\ tun \in [Tunnel -> TunnelRec] /\ op \in [Slot -> OpRec]
      /\ run \in RunRec /\ cand \in CandRec
  BY <1>1 DEF Init
<1>9. /\ xact \subseteq Slot /\ secrets \subseteq Node /\ quarantine \subseteq Node
      /\ wtodo \subseteq Slot /\ refill \in BOOLEAN /\ churn \in Nat
      /\ wpc \in WorkerPc
  BY DEF Init, WorkerPc
<1> QED
  BY <1>2, <1>3, <1>4, <1>5, <1>6, <1>7, <1>8, <1>9 DEF TypeInv, TypeOK

\* Type correctness of the whole system: the scheduler's maps, the Tunnel
\* objects, the routing tables, the rows and the locals of the worker and of
\* every switch; a draining slot is never kept past its timeout.
THEOREM TypeCorrect == Spec => []TypeOK
<1>1. TypeInv => TypeOK
  BY DEF TypeInv
<1> QED
  BY TypeInit, TypeStep, <1>1, PTL DEF Spec
------------------------------------------------------------------------------
(* Mutual exclusion of the worker and the switches *)

\* The slot being drained is held by no switch and no longer used by Xray; Mu
\* keeps it so until the drain is over.
DrainGuarded ==
    wpc = "drain" => run.drain \in Slot /\ ~override[run.drain] /\ run.drain \notin xact

\* Where a switch has remembered the slot's tunnel, and where it has its own.
Remembering == {"connect", "verify", "activate", "route", "commit"}
Connected == {"verify", "activate", "route", "commit", "finish"}

SwitchConnected == \A s \in Slot : op[s].pc \in Connected => op[s].tun \in Tunnel

LockInv == LeaseExclusive /\ RollbackTargetFresh /\ DrainGuarded /\ SwitchConnected

\* The worker leaves every lease and every switch alone.
LEMMA WorkerFrame == Worker => UNCHANGED <<override, gen, holder, op>>
BY DEF Worker, Tick, Refill, CleanupDone, CleanupKeep, CleanupStop, HealthPass,
       DrainRefused, Retire, DrainMark, DrainRouted, DrainRollback, HealthDone, FillSkip,
       FillDrop, FillPromote, FillDone, Sync, CapacityReached, CapacityShort, Progress,
       SelectNone, Select, AdmitDefer, AdmitReject, Admit, ConnectFail, Connect,
       VerifyFail, Verify, BenchFail, Bench, CommitReject, Commit, QualifyFail, leaseVars

\* The worker changes no slot a switch holds, and takes a tunnel only out of a
\* slot Xray no longer uses.
WorkerRespects(s) ==
    /\ override[s] => active'[s] = active[s]
    /\ active[s] # None /\ active'[s] = None => s \notin xact'

\* Every worker step respects every slot: Retire and DrainRouted empty one that is
\* not overridden and not with Xray, FillPromote fills one that is not overridden.
LEMMA WorkerSlots ==
    ASSUME TypeInv, LockInv, Worker, NEW s \in Slot
    PROVE  WorkerRespects(s)
<1>t. active \in [Slot -> Tunnel \cup {None}] /\ standby \in Seq(Tunnel) /\ None \notin Tunnel
  BY DEF TypeInv, TypeOK
<1>1. ASSUME NEW r \in Slot, Retire(r) PROVE WorkerRespects(s)
  BY <1>1, <1>t DEF Retire, Unhealthy, DrainingSlot, WorkerRespects
<1>2. CASE DrainRouted
  BY <1>2, <1>t DEF LockInv, DrainGuarded, DrainRouted, WorkerRespects
<1>3. ASSUME NEW r \in Slot, FillPromote(r) PROVE WorkerRespects(s)
  <2>1. Head(standby) \in Tunnel
    BY <1>3, <1>t DEF FillPromote, Promoting
  <2> QED BY <1>3, <1>t, <2>1 DEF FillPromote, Promoting, WorkerRespects
<1>4. CASE active' = active
  BY <1>4 DEF WorkerRespects
<1>5. \/ \E r \in Slot : Retire(r)
      \/ DrainRouted
      \/ \E r \in Slot : FillPromote(r)
      \/ active' = active
  BY DEF Worker, Tick, Refill, CleanupDone, CleanupKeep, CleanupStop, HealthPass,
      DrainRefused, DrainMark, DrainRollback, HealthDone, FillSkip, FillDrop, FillDone,
      Sync, CapacityReached, CapacityShort, Progress, SelectNone, Select, AdmitDefer,
      AdmitReject, Admit, ConnectFail, Connect, VerifyFail, Verify, BenchFail, Bench,
      CommitReject, Commit, QualifyFail, slotVars
<1> QED BY <1>1, <1>2, <1>3, <1>4, <1>5

\* A drain begins on a slot no switch holds and Xray has just dropped, and the
\* worker's next step ends it.
LEMMA WorkerDrains ==
    ASSUME TypeInv, Worker
    PROVE  DrainGuarded'
<1>1. ASSUME NEW s \in Slot, DrainMark(s) PROVE DrainGuarded'
  <2>1. run'.drain = s
    BY <1>1 DEF DrainMark, TypeInv, TypeOK, RunRec
  <2>2. ~override'[s] /\ s \notin xact'
    BY <1>1 DEF DrainMark, Unhealthy, DrainingSlot, leaseVars
  <2> QED BY <2>1, <2>2 DEF DrainGuarded
<1>2. \/ \E s \in Slot : DrainMark(s)
      \/ wpc' # "drain"
  BY DEF Worker, Tick, Refill, CleanupDone, CleanupKeep, CleanupStop, HealthPass,
      DrainRefused, Retire, DrainRouted, DrainRollback, HealthDone, FillSkip, FillDrop,
      FillPromote, FillDone, Sync, CapacityReached, CapacityShort, Progress, SelectNone,
      Select, AdmitDefer, AdmitReject, Admit, ConnectFail, Connect, VerifyFail, Verify,
      BenchFail, Bench, CommitReject, Commit, QualifyFail, Leave, BeginReconcile,
      BeginTail, Unhealthy, Promoting, NextToFill, workVars
<1> QED BY <1>1, <1>2 DEF DrainGuarded

\* What a step of the switch on slot s may do to the slots, leases and Xray.
Switched(s) ==
    /\ \A r \in Slot \ {s} :
          /\ op'[r] = op[r] /\ active'[r] = active[r] /\ override'[r] = override[r]
          /\ gen'[r] = gen[r] /\ holder'[r] = holder[r]
    /\ \/ /\ op[s].pc \in Working /\ op'[s].pc \in Working
          /\ op'[s].lease = op[s].lease
          /\ UNCHANGED <<override, gen, holder>>
       \/ /\ op[s].pc \in Working /\ op'[s].pc = "unlock"
          /\ ValidateLease(s) => holder'[s] = 0
          /\ UNCHANGED <<override, gen>>
       \/ /\ op[s].pc = "unlock" /\ op'[s].pc = "idle"
          /\ MuFree /\ ~override'[s]
          /\ UNCHANGED <<gen, holder>>
    /\ op'[s].pc \in Remembering =>
          /\ active'[s] = active[s]
          /\ op'[s].cur = active[s] \/ (op[s].pc \in Remembering /\ op'[s].cur = op[s].cur)
    /\ op'[s].pc \in Connected =>
          op'[s].tun \in Tunnel \/ (op[s].pc \in Connected /\ op'[s].tun = op[s].tun)
    /\ active'[s] = active[s] \/ (op[s].pc = "commit" /\ active'[s] = op[s].tun)
    /\ xact' \subseteq xact \cup {r \in {s} : op[s].pc = "activate"}
    /\ UNCHANGED <<wpc, run>>

\* Every step of executeManualSwitch on slot s is of that kind.
LEMMA SwitchSteps ==
    ASSUME TypeInv, NEW s \in Slot, Operation(s)
    PROVE  Switched(s)
<1>t. /\ op \in [Slot -> OpRec] /\ active \in [Slot -> Tunnel \cup {None}]
      /\ holder \in [Slot -> Nat] /\ override \in [Slot -> BOOLEAN]
  BY DEF TypeInv, TypeOK
<1>1. CASE OpReject(s)
  BY <1>1, <1>t DEF OpReject, OpEnd, ReleaseLease, Switched, Remembering, Connected,
      Working, OpPc, OpRec, IdleOp, ValidateLease, slotVars, leaseVars, workVars
<1>2. CASE OpAdmit(s)
  BY <1>2, <1>t DEF OpAdmit, Switched, Remembering, Connected, Working, OpPc, OpRec,
      IdleOp, ValidateLease, slotVars, leaseVars, workVars
<1>3. CASE OpPrepare(s)
  BY <1>3, <1>t DEF OpPrepare, OpEnd, ReleaseLease, Switched, Remembering, Connected,
      Working, OpPc, OpRec, IdleOp, ValidateLease, slotVars, leaseVars, workVars
<1>4. CASE OpConnectFail(s)
  BY <1>4, <1>t DEF OpConnectFail, OpEnd, ReleaseLease, Switched, Remembering, Connected,
      Working, OpPc, OpRec, IdleOp, ValidateLease, slotVars, leaseVars, workVars
<1>5. ASSUME NEW t \in Tunnel, OpConnect(s, t) PROVE Switched(s)
  BY <1>5, <1>t DEF OpConnect, Switched, Remembering, Connected, Working, OpPc, OpRec,
      IdleOp, ValidateLease, slotVars, leaseVars, workVars
<1>6. CASE OpVerifyFail(s)
  BY <1>6, <1>t DEF OpVerifyFail, OpAbort, OpEnd, ReleaseLease, Switched, Remembering,
      Connected, Working, OpPc, OpRec, IdleOp, ValidateLease, slotVars, leaseVars,
      workVars
<1>7. ASSUME NEW p \in Prefix, OpVerify(s, p) PROVE Switched(s)
  BY <1>7, <1>t DEF OpVerify, OpEnd, ReleaseLease, Switched, Remembering, Connected,
      Working, OpPc, OpRec, IdleOp, ValidateLease, slotVars, leaseVars, workVars
<1>8. CASE OpActivateFail(s)
  BY <1>8, <1>t DEF OpActivateFail, OpAbort, OpEnd, ReleaseLease, Switched, Remembering,
      Connected, Working, OpPc, OpRec, IdleOp, ValidateLease, slotVars, leaseVars,
      workVars
<1>9. CASE OpActivate(s)
  BY <1>9, <1>t DEF OpActivate, ActivateSlot, Switched, Remembering, Connected, Working,
      OpPc, OpRec, IdleOp, ValidateLease, slotVars, leaseVars, workVars
<1>10. CASE OpRouteFail(s)
  BY <1>10, <1>t DEF OpRouteFail, OpRollback, DrainingSlot, OpAbort, OpEnd, ReleaseLease,
      Switched, Remembering, Connected, Working, OpPc, OpRec, IdleOp, ValidateLease,
      slotVars, leaseVars, workVars
<1>11. CASE OpRoute(s)
  BY <1>11, <1>t DEF OpRoute, Switched, Remembering, Connected, Working, OpPc, OpRec,
      IdleOp, ValidateLease, slotVars, leaseVars, workVars
<1>12. CASE OpCommitReject(s)
  BY <1>12, <1>t DEF OpCommitReject, OpRollback, DrainingSlot, OpAbort, OpEnd,
      ReleaseLease, Switched, Remembering, Connected, Working, OpPc, OpRec, IdleOp,
      ValidateLease, slotVars, leaseVars, workVars
<1>13. CASE OpCommit(s)
  BY <1>13, <1>t DEF OpCommit, Committing, Switched, Remembering, Connected, Working,
      OpPc, OpRec, IdleOp, ValidateLease, slotVars, leaseVars, workVars
<1>14. CASE OpDrainFail(s)
  BY <1>14, <1>t DEF OpDrainFail, Committing, OpAbort, OpEnd, ReleaseLease, Switched,
      Remembering, Connected, Working, OpPc, OpRec, IdleOp, ValidateLease, slotVars,
      leaseVars, workVars
<1>15. CASE OpFinish(s)
  BY <1>15, <1>t DEF OpFinish, OpEnd, ReleaseLease, Switched, Remembering, Connected,
      Working, OpPc, OpRec, IdleOp, ValidateLease, slotVars, leaseVars, workVars
<1>16. CASE OpUnlock(s)
  BY <1>16, <1>t DEF OpUnlock, Switched, Remembering, Connected, Working, OpPc, OpRec,
      IdleOp, ValidateLease, slotVars, leaseVars, workVars
<1> QED
  BY <1>1, <1>2, <1>3, <1>4, <1>5, <1>6, <1>7, <1>8, <1>9, <1>10, <1>11, <1>12, <1>13,
      <1>14, <1>15, <1>16 DEF Operation

\* Nobody has a lease, and nothing drains, at first.
LEMMA LockInit == Init => LockInv
BY DEF Init, LockInv, LeaseExclusive, RollbackTargetFresh, DrainGuarded, SwitchConnected,
       Connected, Working, IdleOp

\* A step that leaves the slots, the leases, the switches, Xray and the worker
\* alone preserves the invariant.
LEMMA LockFrame ==
    LockInv /\ UNCHANGED <<active, override, gen, holder, op, xact, wpc, run>> => LockInv'
BY DEF LockInv, LeaseExclusive, RollbackTargetFresh, DrainGuarded, SwitchConnected,
       ValidateLease

\* A worker step: leases and switches stay, and so do the tunnels of their slots.
LEMMA LockWorker ==
    ASSUME TypeInv, LockInv, Worker
    PROVE  LockInv'
<1>1. UNCHANGED <<override, gen, holder, op>>
  BY WorkerFrame
<1>2. LeaseExclusive'
  BY <1>1 DEF LockInv, LeaseExclusive, ValidateLease
<1>3. ASSUME NEW s \in Slot, op[s].pc \in Remembering PROVE active'[s] = op[s].cur
  <2>1. override[s]
    BY <1>3 DEF LockInv, LeaseExclusive, Remembering
  <2>2. active'[s] = active[s]
    BY <2>1, WorkerSlots DEF WorkerRespects
  <2> QED BY <1>3, <2>2 DEF LockInv, RollbackTargetFresh, Remembering
<1>4. RollbackTargetFresh'
  BY <1>1, <1>3 DEF RollbackTargetFresh, Remembering
<1>5. SwitchConnected'
  BY <1>1 DEF LockInv, SwitchConnected
<1> QED BY <1>2, <1>4, <1>5, WorkerDrains DEF LockInv

\* A step of the switch on slot s.
LEMMA LockSwitch ==
    ASSUME TypeInv, LockInv, NEW s \in Slot, Operation(s)
    PROVE  LockInv'
<1>s. Switched(s)
  BY SwitchSteps
<1>t. override \in [Slot -> BOOLEAN]
  BY DEF TypeInv, TypeOK
<1>1. LeaseExclusive'
  <2> SUFFICES ASSUME NEW r \in Slot
               PROVE  /\ override'[r] <=> op'[r].pc # "idle"
                      /\ op'[r].pc \in Working => gen'[r] = op'[r].lease /\ holder'[r] = op'[r].lease
                      /\ op'[r].pc \notin Working => holder'[r] = 0
    BY DEF LeaseExclusive, ValidateLease
  <2>1. CASE r # s
    BY <2>1, <1>s DEF Switched, LockInv, LeaseExclusive, ValidateLease
  <2>2. CASE r = s
    BY <2>2, <1>s, <1>t DEF Switched, LockInv, LeaseExclusive, ValidateLease, Working, OpPc
  <2> QED BY <2>1, <2>2
<1>2. RollbackTargetFresh'
  <2> SUFFICES ASSUME NEW r \in Slot, op'[r].pc \in Remembering
               PROVE  active'[r] = op'[r].cur
    BY DEF RollbackTargetFresh, Remembering
  <2>1. CASE r # s
    BY <2>1, <1>s DEF Switched, LockInv, RollbackTargetFresh, Remembering
  <2>2. CASE r = s
    BY <2>2, <1>s DEF Switched, LockInv, RollbackTargetFresh, Remembering
  <2> QED BY <2>1, <2>2
<1>3. DrainGuarded'
  <2> SUFFICES ASSUME wpc = "drain"
               PROVE  ~override'[run.drain] /\ run.drain \notin xact'
    BY <1>s DEF Switched, DrainGuarded, LockInv
  <2>1. run.drain \in Slot /\ ~override[run.drain] /\ run.drain \notin xact
    BY DEF LockInv, DrainGuarded
  <2>2. op[run.drain].pc = "idle"
    BY <2>1, <1>t DEF LockInv, LeaseExclusive
  <2>3. run.drain # s
    BY <2>2, <1>s DEF Switched, Working
  <2> QED BY <2>1, <2>3, <1>s DEF Switched
<1>4. SwitchConnected'
  <2> SUFFICES ASSUME NEW r \in Slot, op'[r].pc \in Connected
               PROVE  op'[r].tun \in Tunnel
    BY DEF SwitchConnected
  <2>1. CASE r # s
    BY <2>1, <1>s DEF Switched, LockInv, SwitchConnected
  <2>2. CASE r = s
    BY <2>2, <1>s DEF Switched, LockInv, SwitchConnected
  <2> QED BY <2>1, <2>2
<1> QED BY <1>1, <1>2, <1>3, <1>4 DEF LockInv

\* A new switch takes a fresh lease on a slot nobody holds and nobody drains.
LEMMA LockRequest ==
    ASSUME TypeInv, LockInv, NEW s \in Slot, NEW n \in Node, Request(s, n)
    PROVE  LockInv'
<1>t. /\ op \in [Slot -> OpRec] /\ override \in [Slot -> BOOLEAN]
      /\ gen \in [Slot -> Nat] /\ holder \in [Slot -> Nat]
  BY DEF TypeInv, TypeOK
<1>1. /\ override' = [override EXCEPT ![s] = TRUE]
      /\ gen' = [gen EXCEPT ![s] = gen[s] + 1]
      /\ holder' = [holder EXCEPT ![s] = gen[s] + 1]
      /\ UNCHANGED <<active, xact, wpc, run>>
      /\ wpc # "drain"
  BY DEF Request, MuFree, Locked, slotVars, workVars
<1>2. /\ op'[s].pc = "admission" /\ op'[s].lease = gen[s] + 1
      /\ \A r \in Slot \ {s} : op'[r] = op[r]
  BY <1>t DEF Request, IdleOp
<1>3. LeaseExclusive'
  <2> SUFFICES ASSUME NEW r \in Slot
               PROVE  /\ override'[r] <=> op'[r].pc # "idle"
                      /\ op'[r].pc \in Working => gen'[r] = op'[r].lease /\ holder'[r] = op'[r].lease
                      /\ op'[r].pc \notin Working => holder'[r] = 0
    BY DEF LeaseExclusive, ValidateLease
  <2>1. CASE r # s
    BY <2>1, <1>1, <1>2, <1>t DEF LockInv, LeaseExclusive, ValidateLease
  <2>2. CASE r = s
    BY <2>2, <1>1, <1>2, <1>t DEF Working, OpPc
  <2> QED BY <2>1, <2>2
<1>4. RollbackTargetFresh'
  BY <1>1, <1>2 DEF LockInv, RollbackTargetFresh
<1>5. DrainGuarded' /\ SwitchConnected'
  BY <1>1, <1>2 DEF LockInv, DrainGuarded, SwitchConnected, Connected
<1> QED BY <1>3, <1>4, <1>5 DEF LockInv

\* Every step preserves the invariant.
LEMMA LockStep == TypeInv /\ LockInv /\ [Next]_vars => LockInv'
<1> SUFFICES ASSUME TypeInv, LockInv, [Next]_vars PROVE LockInv'
  OBVIOUS
<1>1. ASSUME NEW t \in Tunnel, TunnelExit(t) \/ Waiter(t) PROVE LockInv'
  BY <1>1, LockFrame DEF TunnelExit, Waiter, WaiterFail, WaiterDone, slotVars, leaseVars, workVars
<1>2. ASSUME NEW n \in Node, CleanStaleNode(n) PROVE LockInv'
  BY <1>2, LockFrame DEF CleanStaleNode, slotVars, leaseVars, workVars
<1>3. ASSUME NEW n \in Node, NEW v \in Verdict, Discover(n, v) PROVE LockInv'
  BY <1>3, LockFrame DEF Discover, slotVars, leaseVars, workVars
<1>4. CASE UNCHANGED vars
  BY <1>4, LockFrame DEF vars, slotVars, leaseVars, workVars
<1> QED
  BY <1>1, <1>2, <1>3, <1>4, LockWorker, LockSwitch, LockRequest DEF Next

\* The override, the lease and the run of a switch always coincide: a switch can
\* never lose its slot to another one, and no slot stays locked without one.
THEOREM LeaseSafe == Spec => []LeaseExclusive
<1>1. LockInv => LeaseExclusive
  BY DEF LockInv
<1> QED
  BY TypeInit, TypeStep, LockInit, LockStep, <1>1, PTL DEF Spec

\* The rollback target a switch read before its unlocked qualification is never
\* stale: neither the worker nor another switch changes the slot meanwhile.
THEOREM RollbackSafe == Spec => []RollbackTargetFresh
<1>1. LockInv => RollbackTargetFresh
  BY DEF LockInv
<1> QED
  BY TypeInit, TypeStep, LockInit, LockStep, <1>1, PTL DEF Spec

\* Whoever empties a slot has had Xray exclude it first.
LEMMA EmptiedStep ==
    ASSUME TypeInv, LockInv, [Next]_vars, NEW s \in Slot, active[s] # None, active'[s] = None
    PROVE  s \notin xact'
<1>1. CASE Worker
  BY <1>1, WorkerSlots DEF WorkerRespects
<1>2. ASSUME NEW r \in Slot, Operation(r) PROVE FALSE
  <2>1. Switched(r)
    BY <1>2, SwitchSteps
  <2>2. op[r].pc = "commit" => op[r].tun \in Tunnel
    BY DEF LockInv, SwitchConnected, Connected
  <2> QED BY <2>1, <2>2 DEF Switched
<1>3. CASE active' = active
  BY <1>3
<1>4. Worker \/ (\E r \in Slot : Operation(r)) \/ active' = active
  BY DEF Next, vars, Request, TunnelExit, Waiter, WaiterFail, WaiterDone, CleanStaleNode,
      Discover, slotVars
<1> QED BY <1>1, <1>2, <1>3, <1>4

\* A slot loses its tunnel only once Xray no longer sends connections to it.
THEOREM ExclusionFirst == Spec => ExcludedBeforeRemoved
<1>1. TypeInv /\ LockInv /\ [Next]_vars =>
        [\A s \in Slot : active[s] # None /\ active'[s] = None => s \notin xact']_vars
  BY EmptiedStep
<1> QED
  BY TypeInit, TypeStep, LockInit, LockStep, <1>1, PTL DEF Spec, ExcludedBeforeRemoved
------------------------------------------------------------------------------
(* The standby pool at its limit *)

Qualifying == {"admit", "connect", "verify", "bench", "commit"}

\* While the worker qualifies a candidate there is room for it: only the worker
\* appends to the pool.
PoolInv ==
    /\ StandbyBound
    /\ wpc \in Qualifying => Len(standby) < MaxStandby

\* The pool is empty at first.
LEMMA PoolInit == Init => PoolInv
BY DEF Init, PoolInv, StandbyBound, Qualifying

\* Who touches neither the pool nor the worker preserves the bound.
LEMMA PoolFrame == PoolInv /\ UNCHANGED <<standby, wpc>> => PoolInv'
BY DEF PoolInv, StandbyBound

\* Only the worker touches the pool: it pops while filling, appends at its commit.
LEMMA PoolStep == TypeInv /\ PoolInv /\ [Next]_vars => PoolInv'
<1> SUFFICES ASSUME TypeInv, PoolInv, [Next]_vars PROVE PoolInv'
  OBVIOUS
<1>t. standby \in Seq(Tunnel) /\ cand \in CandRec
  BY DEF TypeInv, TypeOK
<1>1. ASSUME NEW s \in Slot, FillDrop(s) \/ FillPromote(s) PROVE PoolInv'
  <2>1. standby # <<>> /\ standby' = Tail(standby) /\ wpc' = "fill"
    BY <1>1 DEF FillDrop, FillPromote, Promoting, NextToFill
  <2>2. Len(standby') = Len(standby) - 1
    BY <2>1, <1>t
  <2> QED BY <2>1, <2>2, <1>t DEF PoolInv, StandbyBound, Qualifying
<1>2. CASE Commit
  <2>1. wpc = "commit" /\ standby' = Append(standby, cand.tun) /\ wpc' \notin Qualifying
    BY <1>2 DEF Commit, Leave, Qualifying
  <2>2. Len(standby') = Len(standby) + 1
    BY <2>1, <1>t DEF TypeInv, LocalsTyped
  <2> QED BY <2>1, <2>2, <1>t DEF PoolInv, StandbyBound, Qualifying
<1>3. ASSUME NEW n \in Node, Select(n) PROVE PoolInv'
  BY <1>3, <1>t DEF Select, PoolFull, PoolInv, StandbyBound, slotVars
<1>4. CASE standby' = standby /\ (wpc' \in Qualifying => wpc \in Qualifying)
  BY <1>4 DEF PoolInv, StandbyBound
<1>5. CASE Worker
  <2>1. \/ \E s \in Slot : FillDrop(s) \/ FillPromote(s)
        \/ Commit
        \/ \E n \in Node : Select(n)
        \/ standby' = standby /\ (wpc' \in Qualifying => wpc \in Qualifying)
    BY <1>5 DEF Worker, Tick, Refill, CleanupDone, CleanupKeep, CleanupStop, HealthPass,
        DrainRefused, Retire, DrainMark, DrainRouted, DrainRollback, HealthDone, FillSkip,
        FillDone, Sync, CapacityReached, CapacityShort, Progress, SelectNone, AdmitDefer,
        AdmitReject, Admit, ConnectFail, Connect, VerifyFail, Verify, BenchFail, Bench,
        CommitReject, QualifyFail, Leave, BeginReconcile, BeginTail, slotVars, Qualifying
  <2> QED BY <2>1, <1>1, <1>2, <1>3, <1>4
<1>6. ASSUME NEW s \in Slot, Operation(s) PROVE PoolInv'
  BY <1>6, PoolFrame DEF Operation, OpReject, OpAdmit, OpPrepare, OpConnectFail, OpConnect,
      OpVerifyFail, OpVerify, OpActivateFail, OpActivate, OpRouteFail, OpRoute,
      OpCommitReject, OpCommit, OpDrainFail, OpFinish, OpUnlock, slotVars, workVars
<1>7. CASE UNCHANGED <<standby, wpc>>
  BY <1>7, PoolFrame
<1>8. Worker \/ (\E s \in Slot : Operation(s)) \/ UNCHANGED <<standby, wpc>>
  BY DEF Next, vars, Request, TunnelExit, Waiter, WaiterFail, WaiterDone, CleanStaleNode,
      Discover, slotVars, workVars
<1> QED BY <1>5, <1>6, <1>7, <1>8

\* The count of warm tunnels is read under Mu, minutes before the append that
\* relies on it: the pool never exceeds its capacity all the same.
THEOREM PoolBounded == Spec => []StandbyBound
<1>1. PoolInv => StandbyBound
  BY DEF PoolInv
<1> QED
  BY TypeInit, TypeStep, PoolInit, PoolStep, <1>1, PTL DEF Spec
=============================================================================
