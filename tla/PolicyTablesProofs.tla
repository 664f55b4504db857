------------------------- MODULE PolicyTablesProofs -------------------------
(***************************************************************************)
(* The table numbers are sound as long as the counter of virtual slots is  *)
(* small: the candidates' tables then lie between those of the slots and   *)
(* those of the draining tunnels.  The run that refutes CandidatesIsolated *)
(* shows what happens once the counter has grown past that.                *)
(***************************************************************************)
EXTENDS PolicyTables, TLAPS
-----------------------------------------------------------------------------
MaybeTunnel == Tunnel \cup {None}
Route == MaybeTunnel \cup {Unreachable, System}

Typed ==
    /\ next \in Nat
    /\ table \in [Owned -> Route]
    /\ active \in [Slot -> MaybeTunnel]
    /\ draining \in [Slot -> MaybeTunnel]
    /\ standby \in Seq(MaybeTunnel)
    /\ cand \in [tun : MaybeTunnel, vid : Nat]
    /\ switch \in [slot : Slot, tun : MaybeTunnel, vid : Nat, pc : {"idle", "verify", "commit"}]

\* Every virtual id in use has been drawn from the counter.
Drawn == cand.vid <= next /\ switch.vid <= next

IInv == Typed /\ Drawn /\ (BelowDraining => CandidatesIsolated)

\* A write to any table keeps the tables well formed.
LEMMA WriteTyped ==
    ASSUME NEW tb \in [Owned -> Route], NEW n, NEW r \in Route
    PROVE  Write(tb, n, r) \in [Owned -> Route]
  BY DEF Write

\* A write to the table of a slot, or of a virtual slot below 100, reaches
\* neither a draining table nor one of the kernel's.
LEMMA WriteApart ==
    ASSUME MaxActive \in 1 .. 50, NEW tb \in [Owned -> Route],
           NEW v \in Nat, v < 100, NEW r
    PROVE  /\ \A s \in Slot : Write(tb, SlotRoutingIdentity(v), r)[DrainTableID(s)] = tb[DrainTableID(s)]
           /\ \A n \in KernelTables : Write(tb, SlotRoutingIdentity(v), r)[n] = tb[n]
  BY DEF Write, SlotRoutingIdentity, BaseTableID, DrainTableID, KernelTables, Slot, Owned

\* A write to a draining table reaches no other one and none of the kernel's.
LEMMA WriteDraining ==
    ASSUME MaxActive \in 1 .. 50, NEW tb \in [Owned -> Route], NEW s \in Slot, NEW r
    PROVE  /\ Write(tb, DrainTableID(s), r)[DrainTableID(s)] = r
           /\ \A u \in Slot \ {s} : Write(tb, DrainTableID(s), r)[DrainTableID(u)] = tb[DrainTableID(u)]
           /\ \A n \in KernelTables : Write(tb, DrainTableID(s), r)[n] = tb[n]
  BY DEF Write, DrainTableID, KernelTables, Slot, Owned

\* The inductive invariant holds initially.
LEMMA InitIInv ==
    ASSUME MaxActive \in 1 .. 50, MaxStandby \in Nat
    PROVE  Init => IInv
<1> SUFFICES ASSUME Init PROVE IInv
  OBVIOUS
<1>1. Typed /\ Drawn
  BY DEF Init, Typed, Drawn, MaybeTunnel, Route, NoCand, NoSwitch, Slot
<1>2. CandidatesIsolated
  BY DEF Init, CandidatesIsolated, Owned, KernelTables, DrainTableID, Slot
<1> QED BY <1>1, <1>2 DEF IInv

\* Every step keeps types and drawn ids; ids only grow.
LEMMA NextTyped ==
    ASSUME MaxActive \in 1 .. 50, Typed, Drawn, Next
    PROVE  Typed' /\ Drawn' /\ next <= next'
<1> USE DEF Typed, Drawn
<1>s. \A s \in Slot : s \in Nat
  BY DEF Slot
<1>r. MaybeTunnel \subseteq Route /\ Tunnel \subseteq MaybeTunnel /\ None \in MaybeTunnel /\ Unreachable \in Route
  BY DEF MaybeTunnel, Route
<1>1. CASE NoCandidate
  BY <1>1 DEF NoCandidate
<1>2. ASSUME NEW t \in Fresh, Qualify(t) PROVE Typed' /\ Drawn' /\ next <= next'
  <2>1. t \in Tunnel /\ t \in Route
    BY <1>r DEF Fresh
  <2>2. table' \in [Owned -> Route]
    BY <1>2, <2>1, WriteTyped DEF Qualify, SetupSlotRouting
  <2> QED BY <1>2, <2>1, <2>2, <1>r DEF Qualify
<1>3. ASSUME NEW t \in Fresh, NEW s \in Slot, SwitchCandidate(s, t)
      PROVE  Typed' /\ Drawn' /\ next <= next'
  <2>1. t \in Tunnel /\ t \in Route
    BY <1>r DEF Fresh
  <2>2. table' \in [Owned -> Route]
    BY <1>3, <2>1, WriteTyped DEF SwitchCandidate, SetupCandidateRouting
  <2> QED BY <1>3, <2>1, <2>2, <1>r DEF SwitchCandidate
<1>4. ASSUME NEW ok \in BOOLEAN, QualifyEnd(ok) PROVE Typed' /\ Drawn' /\ next <= next'
  <2>2. table' \in [Owned -> Route]
    BY <1>4, <1>r, WriteTyped DEF QualifyEnd, ClearSlotRouting
  <2> QED BY <1>4, <2>2, <1>r DEF QualifyEnd, NoCand
<1>5. ASSUME NEW s \in Slot, Promote(s) PROVE Typed' /\ Drawn' /\ next <= next'
  <2>1. Head(standby) \in MaybeTunnel /\ Tail(standby) \in Seq(MaybeTunnel)
    BY <1>5 DEF Promote
  <2>2. table' \in [Owned -> Route]
    BY <1>5, <2>1, <1>r, WriteTyped DEF Promote, SetupSlotRouting
  <2> QED BY <1>5, <2>1, <2>2, <1>r DEF Promote
<1>6. ASSUME NEW s \in Slot, Retire(s) PROVE Typed' /\ Drawn' /\ next <= next'
  <2>1. table' \in [Owned -> Route]
    BY <1>6, <1>r, WriteTyped DEF Retire, ClearSlotRouting
  <2> QED BY <1>6, <2>1, <1>r DEF Retire
<1>7. ASSUME NEW s \in Slot, Drain(s) PROVE Typed' /\ Drawn' /\ next <= next'
  <2>1. active[s] \in MaybeTunnel
    OBVIOUS
  <2>2. table' \in [Owned -> Route]
    BY <1>7, <2>1, <1>r, WriteTyped DEF Drain, SetupDrainingRouting
  <2> QED BY <1>7, <2>1, <2>2, <1>r DEF Drain
<1>8. ASSUME NEW s \in Slot, NEW timeout \in BOOLEAN, DrainEnd(s, timeout)
      PROVE  Typed' /\ Drawn' /\ next <= next'
  <2>1. ClearDrainingRouting(table, s) \in [Owned -> Route]
    BY <1>r, WriteTyped DEF ClearDrainingRouting
  <2>2. ClearSlotRouting(ClearDrainingRouting(table, s), s) \in [Owned -> Route]
    BY <2>1, <1>r, WriteTyped DEF ClearSlotRouting
  <2> QED BY <1>8, <2>1, <2>2, <1>r DEF DrainEnd
<1>9. CASE SwitchFail
  <2>1. table' \in [Owned -> Route]
    BY <1>9, <1>r, WriteTyped DEF SwitchFail, ClearCandidateRouting
  <2> QED BY <1>9, <2>1, <1>r DEF SwitchFail, NoSwitch, Slot
<1>10. CASE SwitchRoute
  <2>1. SetupSlotRouting(table, switch.slot, switch.tun) \in [Owned -> Route]
    BY <1>r, WriteTyped DEF SetupSlotRouting
  <2>2. table' \in [Owned -> Route]
    BY <1>10, <2>1, <1>r, WriteTyped DEF SwitchRoute, ClearCandidateRouting
  <2> QED BY <1>10, <2>2 DEF SwitchRoute
<1>11. CASE SwitchCommit
  <2> DEFINE s == switch.slot
             old == active[s]
  <2>1. s \in Slot /\ old \in MaybeTunnel /\ switch.tun \in MaybeTunnel
    OBVIOUS
  <2>2. /\ SetupSlotRouting(table, s, old) \in [Owned -> Route]
        /\ SetupDrainingRouting(table, s, old) \in [Owned -> Route]
    BY <2>1, <1>r, WriteTyped DEF SetupSlotRouting, SetupDrainingRouting
  <2> HIDE DEF s, old
  <2>3. /\ table' \in {table, SetupSlotRouting(table, s, old), SetupDrainingRouting(table, s, old)}
        /\ active' \in {active, [active EXCEPT ![s] = switch.tun]}
        /\ draining' \in {draining, [draining EXCEPT ![s] = old]}
    <3>1. CASE old # None /\ draining[s] # None
      BY <1>11, <3>1 DEF SwitchCommit, s, old
    <3>2. CASE ~(old # None /\ draining[s] # None)
      <4>1. draining' = [draining EXCEPT ![s] = IF old = None THEN draining[s] ELSE old]
        BY <1>11, <3>2, <2>1 DEF SwitchCommit, s, old
      <4>2. draining' \in {draining, [draining EXCEPT ![s] = old]}
        BY <4>1, <2>1
      <4> QED BY <1>11, <3>2, <4>2 DEF SwitchCommit, s, old
    <3> QED BY <3>1, <3>2
  <2>4. table' \in [Owned -> Route] /\ active' \in [Slot -> MaybeTunnel] /\ draining' \in [Slot -> MaybeTunnel]
    BY <2>1, <2>2, <2>3
  <2> QED BY <1>11, <2>4, <1>r DEF SwitchCommit, NoSwitch, Slot
<1> QED BY <1>1, <1>2, <1>3, <1>4, <1>5, <1>6, <1>7, <1>8, <1>9, <1>10, <1>11 DEF Next

\* A step whose tables differ from the old ones in slots' and virtual slots'
\* tables only keeps the draining tables isolated if no tunnel starts draining.
LEMMA Untouched ==
    ASSUME CandidatesIsolated,
           \A s \in Slot : table'[DrainTableID(s)] = table[DrainTableID(s)],
           \A n \in KernelTables : table'[n] = table[n],
           draining' = draining
    PROVE  CandidatesIsolated'
  BY DEF CandidatesIsolated, KernelTables, DrainTableID

\* The same for a step that starts or ends the draining of one slot.
LEMMA OneDrains ==
    ASSUME CandidatesIsolated, NEW s \in Slot, NEW d,
           draining \in [Slot -> MaybeTunnel],
           draining' = [draining EXCEPT ![s] = d],
           d # None => table'[DrainTableID(s)] = d,
           \A u \in Slot \ {s} : table'[DrainTableID(u)] = table[DrainTableID(u)],
           \A n \in KernelTables : table'[n] = table[n]
    PROVE  CandidatesIsolated'
  BY DEF CandidatesIsolated, KernelTables, DrainTableID

\* Below id 100 a step of a candidate meets no table of another's.
LEMMA NextIsolated ==
    ASSUME MaxActive \in 1 .. 50, IInv, Next, BelowDraining'
    PROVE  CandidatesIsolated'
<1>t. Typed /\ Drawn /\ next <= next' /\ Typed'
  BY NextTyped DEF IInv
<1>b. next < 100 /\ next' < 100 /\ CandidatesIsolated
  BY <1>t DEF IInv, BelowDraining, Typed, DrainTableID, BaseTableID
<1>s. \A s \in Slot : s \in Nat /\ s < 100
  BY DEF Slot
<1>v. cand.vid \in Nat /\ cand.vid < 100 /\ switch.vid \in Nat /\ switch.vid < 100
  BY <1>t, <1>b DEF Typed, Drawn
<1>f. table \in [Owned -> Route] /\ draining \in [Slot -> MaybeTunnel] /\ next \in Nat
  BY <1>t DEF Typed
<1>1. CASE NoCandidate
  BY <1>1, <1>b, Untouched DEF NoCandidate
<1>2. ASSUME NEW t \in Fresh, Qualify(t) PROVE CandidatesIsolated'
  <2>1. next + 1 \in Nat /\ next + 1 < 100
    BY <1>2, <1>b, <1>f DEF Qualify
  <2> QED BY <1>2, <2>1, <1>b, <1>f, WriteApart, Untouched DEF Qualify, SetupSlotRouting
<1>3. ASSUME NEW t \in Fresh, NEW s \in Slot, SwitchCandidate(s, t) PROVE CandidatesIsolated'
  <2>1. next + 1 \in Nat /\ next + 1 < 100
    BY <1>3, <1>b, <1>f DEF SwitchCandidate
  <2> QED BY <1>3, <2>1, <1>b, <1>f, WriteApart, Untouched DEF SwitchCandidate, SetupCandidateRouting
<1>4. ASSUME NEW ok \in BOOLEAN, QualifyEnd(ok) PROVE CandidatesIsolated'
  BY <1>4, <1>b, <1>f, <1>v, WriteApart, Untouched DEF QualifyEnd, ClearSlotRouting
<1>5. ASSUME NEW s \in Slot, Promote(s) PROVE CandidatesIsolated'
  BY <1>5, <1>b, <1>f, <1>s, WriteApart, Untouched DEF Promote, SetupSlotRouting
<1>6. ASSUME NEW s \in Slot, Retire(s) PROVE CandidatesIsolated'
  BY <1>6, <1>b, <1>f, <1>s, WriteApart, Untouched DEF Retire, ClearSlotRouting
<1>7. ASSUME NEW s \in Slot, Drain(s) PROVE CandidatesIsolated'
  <2> DEFINE d == active[s]
  <2>1. draining' = [draining EXCEPT ![s] = d] /\ table' = Write(table, DrainTableID(s), d)
    BY <1>7 DEF Drain, SetupDrainingRouting
  <2> HIDE DEF d
  <2>2. table'[DrainTableID(s)] = d
    BY <2>1, <1>f, WriteDraining
  <2>3. /\ \A u \in Slot \ {s} : table'[DrainTableID(u)] = table[DrainTableID(u)]
        /\ \A n \in KernelTables : table'[n] = table[n]
    BY <2>1, <1>f, WriteDraining
  <2> QED BY <2>1, <2>2, <2>3, <1>b, <1>f, OneDrains
<1>8. ASSUME NEW s \in Slot, NEW timeout \in BOOLEAN, DrainEnd(s, timeout) PROVE CandidatesIsolated'
  <2> DEFINE cleared == ClearDrainingRouting(table, s)
  <2>0. cleared \in [Owned -> Route]
    BY <1>f, WriteTyped DEF ClearDrainingRouting, Route, MaybeTunnel
  <2>1. /\ \A u \in Slot \ {s} : cleared[DrainTableID(u)] = table[DrainTableID(u)]
        /\ \A n \in KernelTables : cleared[n] = table[n]
    BY <1>f, WriteDraining DEF ClearDrainingRouting
  <2> HIDE DEF cleared
  <2>2. /\ \A u \in Slot : ClearSlotRouting(cleared, s)[DrainTableID(u)] = cleared[DrainTableID(u)]
        /\ \A n \in KernelTables : ClearSlotRouting(cleared, s)[n] = cleared[n]
    BY <2>0, <1>s, WriteApart DEF ClearSlotRouting
  <2>3. /\ table' \in {cleared, ClearSlotRouting(cleared, s)}
        /\ draining' = [draining EXCEPT ![s] = None]
    BY <1>8 DEF DrainEnd, cleared
  <2>4. /\ \A u \in Slot \ {s} : table'[DrainTableID(u)] = table[DrainTableID(u)]
        /\ \A n \in KernelTables : table'[n] = table[n]
    BY <2>1, <2>2, <2>3
  <2> QED BY <2>3, <2>4, <1>b, <1>f, OneDrains
<1>9. CASE SwitchFail
  BY <1>9, <1>b, <1>f, <1>v, WriteApart, Untouched DEF SwitchFail, ClearCandidateRouting
<1>10. CASE SwitchRoute
  <2> DEFINE routed == SetupSlotRouting(table, switch.slot, switch.tun)
  <2>0. switch.slot \in Slot /\ switch.tun \in Route
    BY <1>t DEF Typed, Route
  <2>1. routed \in [Owned -> Route]
    BY <2>0, <1>f, WriteTyped DEF SetupSlotRouting
  <2>2. /\ \A s \in Slot : routed[DrainTableID(s)] = table[DrainTableID(s)]
        /\ \A n \in KernelTables : routed[n] = table[n]
    BY <2>0, <1>f, <1>s, WriteApart DEF SetupSlotRouting
  <2> HIDE DEF routed
  <2>3. /\ \A s \in Slot : ClearCandidateRouting(routed, switch.vid)[DrainTableID(s)] = routed[DrainTableID(s)]
        /\ \A n \in KernelTables : ClearCandidateRouting(routed, switch.vid)[n] = routed[n]
    BY <2>1, <1>v, WriteApart DEF ClearCandidateRouting
  <2>4. table' = ClearCandidateRouting(routed, switch.vid) /\ draining' = draining
    BY <1>10 DEF SwitchRoute, routed
  <2> QED BY <2>2, <2>3, <2>4, <1>b, Untouched
<1>11. CASE SwitchCommit
  <2> DEFINE s == switch.slot
             old == active[s]
  <2>0. s \in Slot
    BY <1>t DEF Typed
  <2>1. CASE old # None /\ draining[s] # None
    <3>1. table' = SetupSlotRouting(table, s, old) /\ draining' = draining
      BY <1>11, <2>1 DEF SwitchCommit
    <3> HIDE DEF s, old
    <3> QED BY <3>1, <2>0, <1>b, <1>f, <1>s, WriteApart, Untouched DEF SetupSlotRouting
  <2>2. CASE old = None
    <3>1. table' = table /\ draining' = draining
      <4>1. draining' = [draining EXCEPT ![s] = draining[s]]
        BY <1>11, <2>2 DEF SwitchCommit
      <4>2. table' = table
        BY <1>11, <2>2 DEF SwitchCommit
      <4> QED BY <4>1, <4>2, <2>0, <1>f
    <3> QED BY <3>1, <1>b, Untouched
  <2>3. CASE old # None /\ draining[s] = None
    <3>1. table' = SetupDrainingRouting(table, s, old) /\ draining' = [draining EXCEPT ![s] = old]
      BY <1>11, <2>3 DEF SwitchCommit
    <3> HIDE DEF s, old
    <3>2. /\ table'[DrainTableID(s)] = old
          /\ \A u \in Slot \ {s} : table'[DrainTableID(u)] = table[DrainTableID(u)]
          /\ \A n \in KernelTables : table'[n] = table[n]
      BY <3>1, <2>0, <1>f, WriteDraining DEF SetupDrainingRouting
    <3> QED BY <3>1, <3>2, <2>0, <1>b, <1>f, OneDrains
  <2> QED BY <2>1, <2>2, <2>3
<1> QED BY <1>1, <1>2, <1>3, <1>4, <1>5, <1>6, <1>7, <1>8, <1>9, <1>10, <1>11 DEF Next

\* With at most 50 slots, the draining tables and the kernel's own tables are
\* written by nobody else for as long as fewer than 100 virtual slot ids have
\* been drawn (SlotRoutingIdentity, SetupCandidateRouting): the collision the
\* run on CandidatesIsolated finds comes from the counter alone.
THEOREM IsolatedWhileFewIds ==
    ASSUME MaxActive \in 1 .. 50, MaxStandby \in Nat
    PROVE  Spec => [](BelowDraining => CandidatesIsolated)
<1>1. Init => IInv
  BY InitIInv
<1>2. IInv /\ [Next]_vars => IInv'
  <2> SUFFICES ASSUME IInv, [Next]_vars PROVE IInv'
    OBVIOUS
  <2>1. CASE Next
    BY <2>1, NextTyped, NextIsolated DEF IInv
  <2>2. CASE UNCHANGED vars
    BY <2>2 DEF vars, IInv, Typed, Drawn, BelowDraining, CandidatesIsolated
  <2> QED BY <2>1, <2>2
<1>3. IInv => (BelowDraining => CandidatesIsolated)
  BY DEF IInv
<1> QED BY <1>1, <1>2, <1>3, PTL DEF Spec
=============================================================================
