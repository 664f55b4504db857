---------------------------- MODULE PolicyTables ----------------------------
(***************************************************************************)
(* The numbers of the policy-routing tables.  Slot s uses table            *)
(* BaseTableID + s (SlotRoutingIdentity), its draining tunnel table        *)
(* 200 + s, and a candidate that is being qualified BaseTableID + v, where *)
(* v is the next value of a counter that only grows (standbySlotCount).    *)
(* Each call of the routing package is one step; the tables hold their     *)
(* default route.  The module keeps of the worker and of a manual switch   *)
(* what decides which table is written when; EgressSlots has the rest.     *)
(***************************************************************************)
EXTENDS Naturals, Sequences

CONSTANTS
    MaxActive,   \* slots 0 .. MaxActive - 1
    MaxStandby,  \* capacity of the standby pool
    Tunnel,      \* tunnels, which stand for their tun interfaces
    None,        \* no tunnel, an empty table
    Unreachable, \* the fail-closed default route of ClearSlotRouting
    System,      \* what the kernel's own tables hold
    MaxVirtual   \* bound: virtual slot ids handed out

VARIABLES
    next,        \* Scheduler.standbySlotCount
    table,       \* default routes of the tables that have an owner besides a candidate
    active,      \* Scheduler.ActiveSlots
    draining,    \* Scheduler.DrainingSlots
    standby,     \* Scheduler.StandbyNodes
    cand,        \* the worker's candidate: its tunnel and virtual slot
    switch       \* the manual switch: slot, candidate and virtual slot

vars == <<next, table, active, draining, standby, cand, switch>>
-----------------------------------------------------------------------------
Slot == 0 .. MaxActive - 1
BaseTableID == 100
DrainTableID(s) == 200 + s
KernelTables == {253, 254, 255}     \* default, main, local

\* SlotRoutingIdentity: fwmark, table and priority of a slot or a virtual slot
SlotRoutingIdentity(s) == BaseTableID + s

Owned == {SlotRoutingIdentity(s) : s \in Slot} \cup {DrainTableID(s) : s \in Slot}
         \cup KernelTables

NoCand == [tun |-> None, vid |-> 0]
NoSwitch == [slot |-> 0, tun |-> None, vid |-> 0, pc |-> "idle"]

Init ==
    /\ next = MaxActive + MaxStandby + 10
    /\ table = [n \in Owned |-> IF n \in KernelTables THEN System ELSE None]
    /\ active = [s \in Slot |-> None]
    /\ draining = [s \in Slot |-> None]
    /\ standby = <<>>
    /\ cand = NoCand
    /\ switch = NoSwitch

\* A table nobody else owns is the candidate's alone and is not recorded.
Write(tb, n, r) == IF n \in Owned THEN [tb EXCEPT ![n] = r] ELSE tb

\* SetupSlotRouting and SetupCandidateRouting: flush, then the default route;
\* ClearSlotRouting: flush, then unreachable; ClearCandidateRouting: flush.
SetupSlotRouting(tb, s, t) == Write(tb, SlotRoutingIdentity(s), t)
SetupCandidateRouting(tb, v, t) == Write(tb, SlotRoutingIdentity(v), t)
ClearSlotRouting(tb, s) == Write(tb, SlotRoutingIdentity(s), Unreachable)
ClearCandidateRouting(tb, v) == Write(tb, SlotRoutingIdentity(v), None)
SetupDrainingRouting(tb, s, t) == Write(tb, DrainTableID(s), t)
ClearDrainingRouting(tb, s) == Write(tb, DrainTableID(s), None)

Used == {active[s] : s \in Slot} \cup {draining[s] : s \in Slot}
        \cup {standby[i] : i \in 1 .. Len(standby)} \cup {cand.tun, switch.tun}
Fresh == Tunnel \ Used
-----------------------------------------------------------------------------
(* The worker *)

\* maintainStandbyPool draws an id before it knows whether there is a candidate.
NoCandidate ==
    /\ cand = NoCand /\ Len(standby) < MaxStandby
    /\ next < MaxVirtual
    /\ next' = next + 1
    /\ UNCHANGED <<table, active, draining, standby, cand, switch>>

Qualify(t) ==
    /\ cand = NoCand /\ Len(standby) < MaxStandby
    /\ next < MaxVirtual
    /\ next' = next + 1
    /\ cand' = [tun |-> t, vid |-> next + 1]
    /\ table' = SetupSlotRouting(table, next + 1, t)
    /\ UNCHANGED <<active, draining, standby, switch>>

QualifyEnd(ok) ==
    /\ cand # NoCand
    /\ table' = ClearSlotRouting(table, cand.vid)
    /\ standby' = IF ok THEN Append(standby, cand.tun) ELSE standby
    /\ cand' = NoCand
    /\ UNCHANGED <<next, active, draining, switch>>

\* reconcileActiveSlots fills an empty slot that no switch holds
Promote(s) ==
    /\ active[s] = None /\ standby # <<>> /\ cand = NoCand
    /\ switch.pc = "idle" \/ switch.slot # s
    /\ table' = SetupSlotRouting(table, s, Head(standby))
    /\ active' = [active EXCEPT ![s] = Head(standby)]
    /\ standby' = Tail(standby)
    /\ UNCHANGED <<next, draining, cand, switch>>

\* transitionToDrainingLocked: a dead tunnel is retired, a live one drains.
Retire(s) ==
    /\ active[s] # None /\ cand = NoCand
    /\ table' = ClearSlotRouting(table, s)
    /\ active' = [active EXCEPT ![s] = None]
    /\ UNCHANGED <<next, draining, standby, cand, switch>>

Drain(s) ==
    /\ active[s] # None /\ cand = NoCand
    /\ table' = SetupDrainingRouting(table, s, active[s])
    /\ draining' = [draining EXCEPT ![s] = active[s]]
    /\ active' = [active EXCEPT ![s] = None]
    /\ UNCHANGED <<next, standby, cand, switch>>

\* cleanupDrainingSlots, after the timeout or without connections
DrainEnd(s, timeout) ==
    /\ draining[s] # None /\ cand = NoCand
    /\ LET cleared == ClearDrainingRouting(table, s) IN
       table' = IF timeout /\ active[s] = None THEN ClearSlotRouting(cleared, s) ELSE cleared
    /\ draining' = [draining EXCEPT ![s] = None]
    /\ UNCHANGED <<next, active, standby, cand, switch>>
-----------------------------------------------------------------------------
(* A manual switch *)

SwitchCandidate(s, t) ==
    /\ switch.pc = "idle"
    /\ next < MaxVirtual
    /\ next' = next + 1
    /\ switch' = [slot |-> s, tun |-> t, vid |-> next + 1, pc |-> "verify"]
    /\ table' = SetupCandidateRouting(table, next + 1, t)
    /\ UNCHANGED <<active, draining, standby, cand>>

SwitchFail ==
    /\ switch.pc = "verify"
    /\ table' = ClearCandidateRouting(table, switch.vid)
    /\ switch' = NoSwitch
    /\ UNCHANGED <<next, active, draining, standby, cand>>

SwitchRoute ==
    /\ switch.pc = "verify"
    /\ table' = ClearCandidateRouting(SetupSlotRouting(table, switch.slot, switch.tun), switch.vid)
    /\ switch' = [switch EXCEPT !.pc = "commit"]
    /\ UNCHANGED <<next, active, draining, standby, cand>>

\* The commit; the replaced tunnel drains, or the switch is undone when the slot
\* already has a draining tunnel.
SwitchCommit ==
    /\ switch.pc = "commit"
    /\ LET s == switch.slot  old == active[s] IN
       IF old # None /\ draining[s] # None
       THEN /\ table' = SetupSlotRouting(table, s, old)
            /\ UNCHANGED <<active, draining>>
       ELSE /\ active' = [active EXCEPT ![s] = switch.tun]
            /\ draining' = [draining EXCEPT ![s] = IF old = None THEN @ ELSE old]
            /\ table' = IF old = None THEN table ELSE SetupDrainingRouting(table, s, old)
    /\ switch' = NoSwitch
    /\ UNCHANGED <<next, standby, cand>>

Next ==
    \/ NoCandidate
    \/ \E t \in Fresh : Qualify(t) \/ \E s \in Slot : SwitchCandidate(s, t)
    \/ \E ok \in BOOLEAN : QualifyEnd(ok)
    \/ \E s \in Slot : Promote(s) \/ Retire(s) \/ Drain(s)
                       \/ \E timeout \in BOOLEAN : DrainEnd(s, timeout)
    \/ SwitchFail \/ SwitchRoute \/ SwitchCommit

Spec == Init /\ [][Next]_vars
-----------------------------------------------------------------------------
\* Nothing but the draining of slot s writes its draining table, and nothing
\* writes the kernel's own tables (SetupCandidateRouting: "without altering the
\* active slot's routing or traffic").
CandidatesIsolated ==
    /\ \A s \in Slot : draining[s] # None => table[DrainTableID(s)] = draining[s]
    /\ \A n \in KernelTables : table[n] = System

\* While fewer than 100 virtual ids are in use they are.
BelowDraining == next < DrainTableID(0) - BaseTableID
=============================================================================
