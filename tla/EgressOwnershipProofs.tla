------------------------ MODULE EgressOwnershipProofs ------------------------
(***************************************************************************)
(* Who owns a tunnel of EgressSlots, where the slots' tables lead and what *)
(* Xray balances over, for every set of slots, tunnels, nodes and faults.  *)
(*                                                                         *)
(* Ownership comes first: that a tunnel is held in one place only is what  *)
(* makes a Stop on any failure path harmless to everybody else.  The       *)
(* routes, the /24 policy and the guarantee of a switch rest on it.        *)
(***************************************************************************)
EXTENDS EgressSlotsProofs, SequenceTheorems

USE EgressAssumption
------------------------------------------------------------------------------
(* The inductive invariant of ownership *)

\* The tunnel a switch is still responsible for; from its commit on the slot is.
Candidate(s) == IF op[s].pc = "finish" THEN None ELSE op[s].tun

\* Two places do not hold the same tunnel.
Differ(a, b) == a = b => a = None

SlotsApart ==
    \A r, s \in Slot :
        /\ r # s => /\ Differ(active[r], active[s])
                    /\ Differ(draining[r], draining[s])
                    /\ Differ(Candidate(r), Candidate(s))
        /\ Differ(active[r], draining[s])
        /\ Differ(active[r], Candidate(s))
        /\ Differ(draining[r], Candidate(s))

PoolApart ==
    /\ \A i, j \in DOMAIN standby : standby[i] = standby[j] => i = j
    /\ \A i \in DOMAIN standby, s \in Slot :
         /\ standby[i] # active[s] /\ standby[i] # draining[s]
         /\ standby[i] # Candidate(s)
    /\ \A i \in DOMAIN standby : standby[i] # cand.tun

CandApart ==
    \A s \in Slot : /\ Differ(cand.tun, active[s])
                    /\ Differ(cand.tun, draining[s])
                    /\ Differ(cand.tun, Candidate(s))

Owned(t) ==
    \/ \E s \in Slot : active[s] = t \/ draining[s] = t \/ Candidate(s) = t
    \/ \E i \in DOMAIN standby : standby[i] = t
    \/ cand.tun = t

OwnedAlive == \A t \in Tunnel : Owned(t) => tun[t].proc # "free"

OwnInv == SlotsApart /\ PoolApart /\ CandApart /\ OwnedAlive

\* The places are those SoleOwner counts.
LEMMA OwnersApart == TypeInv /\ OwnInv => SoleOwner
<1> SUFFICES ASSUME TypeInv, OwnInv, NEW t \in Tunnel
             PROVE  /\ \A x, y \in Owners(t) : x = y
                    /\ Owners(t) # {} => tun[t].proc # "free"
  BY DEF SoleOwner
<1>t. t # None
  OBVIOUS
<1>k. \A x \in Owners(t) :
        \/ \E s \in Slot : x = <<"active", s>> /\ active[s] = t
        \/ \E s \in Slot : x = <<"draining", s>> /\ draining[s] = t
        \/ \E i \in DOMAIN standby : x = <<"standby", i>> /\ standby[i] = t
        \/ \E s \in Slot : x = <<"op", s>> /\ Candidate(s) = t
        \/ x = <<"worker", 0>> /\ cand.tun = t
  BY DEF Owners, Candidate
<1>1. ASSUME NEW x \in Owners(t), NEW y \in Owners(t) PROVE x = y
  <2>1. CASE \E s \in Slot : x = <<"active", s>> /\ active[s] = t
    BY <2>1, <1>k, <1>t DEF OwnInv, SlotsApart, PoolApart, CandApart, Differ
  <2>2. CASE \E s \in Slot : x = <<"draining", s>> /\ draining[s] = t
    BY <2>2, <1>k, <1>t DEF OwnInv, SlotsApart, PoolApart, CandApart, Differ
  <2>3. CASE \E i \in DOMAIN standby : x = <<"standby", i>> /\ standby[i] = t
    BY <2>3, <1>k, <1>t DEF OwnInv, SlotsApart, PoolApart, CandApart, Differ
  <2>4. CASE \E s \in Slot : x = <<"op", s>> /\ Candidate(s) = t
    BY <2>4, <1>k, <1>t DEF OwnInv, SlotsApart, PoolApart, CandApart, Differ
  <2>5. CASE x = <<"worker", 0>> /\ cand.tun = t
    BY <2>5, <1>k, <1>t DEF OwnInv, SlotsApart, PoolApart, CandApart, Differ
  <2> QED BY <1>k, <2>1, <2>2, <2>3, <2>4, <2>5
<1>2. ASSUME NEW x \in Owners(t) PROVE tun[t].proc # "free"
  <2>1. Owned(t)
    BY <1>k DEF Owned
  <2> QED BY <2>1 DEF OwnInv, OwnedAlive
<1> QED BY <1>1, <1>2

\* Nobody owns a tunnel at first.
LEMMA OwnInit == Init => OwnInv
<1> SUFFICES ASSUME Init PROVE OwnInv
  OBVIOUS
<1>1. /\ \A s \in Slot : active[s] = None /\ draining[s] = None /\ Candidate(s) = None
      /\ DOMAIN standby = {} /\ cand.tun = None
  BY DEF Init, Candidate, IdleOp, NoCand
<1> QED BY <1>1 DEF OwnInv, SlotsApart, PoolApart, CandApart, OwnedAlive, Owned, Differ
------------------------------------------------------------------------------
(* How ownership may change *)

\* The elements of a tail are those of the sequence, one place on.
LEMMA TailElements ==
    ASSUME NEW S, NEW q \in Seq(S), q # <<>>
    PROVE  /\ Head(q) = q[1] /\ 1 \in DOMAIN q
           /\ Tail(q) \in Seq(S)
           /\ \A i \in DOMAIN Tail(q) : i \in Nat /\ i + 1 \in DOMAIN q /\ Tail(q)[i] = q[i + 1]
  OBVIOUS

\* An appended sequence has its old elements and the new one.
LEMMA AppendElements ==
    ASSUME NEW S, NEW q \in Seq(S), NEW x \in S
    PROVE  \A i \in DOMAIN Append(q, x) :
              \/ i \in DOMAIN q /\ Append(q, x)[i] = q[i]
              \/ i = Len(q) + 1 /\ i \notin DOMAIN q /\ Append(q, x)[i] = x
  OBVIOUS

\* Every place keeps its tunnel or gives it up.
Shrinks ==
    /\ \A s \in Slot : /\ active'[s] \in {active[s], None}
                       /\ draining'[s] \in {draining[s], None}
                       /\ Candidate(s)' \in {Candidate(s), None}
    /\ standby' = standby \/ (standby # <<>> /\ standby' = Tail(standby))
    /\ cand'.tun \in {cand.tun, None}

\* What is held afterwards was held before.
LEMMA ShrunkPool ==
    ASSUME TypeInv, standby' = standby \/ (standby # <<>> /\ standby' = Tail(standby))
    PROVE  \E d \in {0, 1} : \A i \in DOMAIN standby' :
              i \in Nat /\ i + d \in DOMAIN standby /\ standby'[i] = standby[i + d]
<1>1. standby \in Seq(Tunnel)
  BY DEF TypeInv, TypeOK
<1>2. CASE standby' = standby
  <2>1. \A i \in DOMAIN standby' : i \in Nat /\ i + 0 \in DOMAIN standby /\ standby'[i] = standby[i + 0]
    BY <1>1, <1>2
  <2> QED BY <2>1
<1>3. CASE standby # <<>> /\ standby' = Tail(standby)
  <2>1. \A i \in DOMAIN standby' : i \in Nat /\ i + 1 \in DOMAIN standby /\ standby'[i] = standby[i + 1]
    BY <1>1, <1>3, TailElements
  <2> QED BY <2>1
<1> QED BY <1>2, <1>3

\* Places that only give up tunnels stay apart and own nothing new.
LEMMA ShrinkApart ==
    ASSUME TypeInv, OwnInv, Shrinks
    PROVE  /\ SlotsApart' /\ PoolApart' /\ CandApart'
           /\ \A t \in Tunnel : Owned(t)' => Owned(t)
<1>p. PICK d \in {0, 1} : \A i \in DOMAIN standby' :
              i \in Nat /\ i + d \in DOMAIN standby /\ standby'[i] = standby[i + d]
  BY ShrunkPool DEF Shrinks
<1>s. \A i \in DOMAIN standby : standby[i] \in Tunnel /\ standby[i] # None
  BY DEF TypeInv, TypeOK
<1>1. SlotsApart'
  <2> SUFFICES ASSUME NEW r \in Slot, NEW s \in Slot
               PROVE  /\ r # s => /\ Differ(active'[r], active'[s])
                                  /\ Differ(draining'[r], draining'[s])
                                  /\ Differ(Candidate(r)', Candidate(s)')
                      /\ Differ(active'[r], draining'[s])
                      /\ Differ(active'[r], Candidate(s)')
                      /\ Differ(draining'[r], Candidate(s)')
    BY DEF SlotsApart, Differ
  <2> QED BY DEF Shrinks, OwnInv, SlotsApart, Differ
<1>2. PoolApart'
  <2>1. \A i, j \in DOMAIN standby' : standby'[i] = standby'[j] => i = j
    BY <1>p DEF OwnInv, PoolApart
  <2>2. \A i \in DOMAIN standby', s \in Slot :
          /\ standby'[i] # active'[s] /\ standby'[i] # draining'[s]
          /\ standby'[i] # Candidate(s)'
    BY <1>p, <1>s DEF Shrinks, OwnInv, PoolApart
  <2>3. \A i \in DOMAIN standby' : standby'[i] # cand'.tun
    BY <1>p, <1>s DEF Shrinks, OwnInv, PoolApart
  <2> QED BY <2>1, <2>2, <2>3 DEF PoolApart
<1>3. CandApart'
  BY DEF Shrinks, OwnInv, CandApart, Differ
<1>4. ASSUME NEW t \in Tunnel, Owned(t)' PROVE Owned(t)
  <2>1. t # None
    OBVIOUS
  <2> QED BY <1>4, <1>p, <2>1 DEF Shrinks, Owned
<1> QED BY <1>1, <1>2, <1>3, <1>4

\* Nothing is stopped.
LEMMA ShrinkKeeping ==
    ASSUME TypeInv, OwnInv, Shrinks,
           \A t \in Tunnel : tun'[t].proc = "free" => tun[t].proc = "free"
    PROVE  OwnInv'
  BY ShrinkApart DEF OwnInv, OwnedAlive

\* Whoever stops a tunnel held it, and lets it go.
LetGo(t) ==
    \/ \E s \in Slot : active[s] = t /\ active'[s] = None
    \/ \E s \in Slot : draining[s] = t /\ draining'[s] = None
    \/ \E s \in Slot : Candidate(s) = t /\ Candidate(s)' = None
    \/ cand.tun = t /\ cand'.tun = None
    \/ standby # <<>> /\ Head(standby) = t /\ standby' = Tail(standby)

\* Stopping a tunnel that its place has let go preserves ownership.
LEMMA ShrinkStopping ==
    ASSUME TypeInv, OwnInv, Shrinks, NEW t, LetGo(t), tun' = [tun EXCEPT ![t] = FreeTunnel]
    PROVE  OwnInv'
<1>1. SlotsApart' /\ PoolApart' /\ CandApart' /\ \A u \in Tunnel : Owned(u)' => Owned(u)
  BY ShrinkApart
<1>p. PICK d \in {0, 1} : \A i \in DOMAIN standby' :
              i \in Nat /\ i + d \in DOMAIN standby /\ standby'[i] = standby[i + d]
  BY ShrunkPool DEF Shrinks
<1>2. ASSUME t \in Tunnel PROVE ~Owned(t)'
  <2>0. t # None
    BY <1>2
  <2>1. CASE \E s \in Slot : active[s] = t /\ active'[s] = None
    BY <2>0, <2>1, <1>p DEF Shrinks, Owned, OwnInv, SlotsApart, PoolApart, CandApart, Differ
  <2>2. CASE \E s \in Slot : draining[s] = t /\ draining'[s] = None
    BY <2>0, <2>2, <1>p DEF Shrinks, Owned, OwnInv, SlotsApart, PoolApart, CandApart, Differ
  <2>3. CASE \E s \in Slot : Candidate(s) = t /\ Candidate(s)' = None
    BY <2>0, <2>3, <1>p DEF Shrinks, Owned, OwnInv, SlotsApart, PoolApart, CandApart, Differ
  <2>4. CASE cand.tun = t /\ cand'.tun = None
    BY <2>0, <2>4, <1>p DEF Shrinks, Owned, OwnInv, SlotsApart, PoolApart, CandApart, Differ
  <2>5. CASE standby # <<>> /\ Head(standby) = t /\ standby' = Tail(standby)
    <3>1. /\ standby[1] = t /\ 1 \in DOMAIN standby
          /\ \A i \in DOMAIN standby' : i \in Nat /\ i + 1 \in DOMAIN standby /\ standby'[i] = standby[i + 1]
      BY <2>5, TailElements DEF TypeInv, TypeOK
    <3>2. ASSUME NEW i \in DOMAIN standby' PROVE standby'[i] # t
      <4>1. i \in Nat /\ i # 0
        BY <2>5 DEF TypeInv, TypeOK
      <4>2. i + 1 # 1
        BY <4>1
      <4> QED BY <3>1, <4>2 DEF OwnInv, PoolApart
    <3>3. \A s \in Slot : t # active[s] /\ t # draining[s] /\ t # Candidate(s)
      BY <3>1 DEF OwnInv, PoolApart
    <3>4. t # cand.tun
      BY <3>1 DEF OwnInv, PoolApart
    <3> QED BY <2>0, <3>2, <3>3, <3>4 DEF Shrinks, Owned
  <2> QED BY <2>1, <2>2, <2>3, <2>4, <2>5 DEF LetGo
<1>3. \A u \in Tunnel \ {t} : tun'[u] = tun[u]
  BY DEF TypeInv, TypeOK
<1>4. OwnedAlive'
  BY <1>1, <1>2, <1>3 DEF OwnInv, OwnedAlive
<1> QED BY <1>1, <1>4 DEF OwnInv
------------------------------------------------------------------------------
(* What the worker has yet to visit *)

\* The slots cleanupDrainingSlots and reconcileActiveSlots listed still hold the
\* tunnels they were listed for: Mu is held all along.
TodoInv ==
    /\ wpc = "cleanup" => \A s \in wtodo : draining[s] # None
    /\ wpc \in {"health", "drain"} => \A s \in wtodo : active[s] # None
    /\ wpc = "drain" => active[run.drain] # None /\ run.drain \notin wtodo

\* It holds initially.
LEMMA TodoInit == Init => TodoInv
BY DEF Init, TodoInv

\* A switch moves a tunnel into or out of a slot only while it holds Mu.
LEMMA TodoOperation ==
    ASSUME TypeInv, TodoInv, NEW s \in Slot, Operation(s)
    PROVE  TodoInv'
<1>1. CASE MuFree
  <2>1. wpc' = wpc
    BY SwitchSteps DEF Switched
  <2> QED BY <1>1, <2>1 DEF MuFree, Locked, TodoInv
<1>2. UNCHANGED <<wpc, wtodo, run>>
  BY DEF Operation, OpReject, OpAdmit, OpPrepare, OpConnectFail, OpConnect,
      OpVerifyFail, OpVerify, OpActivateFail, OpActivate, OpRouteFail, OpRoute,
      OpCommitReject, OpCommit, OpDrainFail, OpFinish, OpUnlock, workVars
<1>3. CASE ~MuFree
  <2>1. UNCHANGED <<active, draining>>
    BY <1>3 DEF Operation, OpReject, OpAdmit, OpPrepare, OpConnectFail, OpConnect,
      OpVerifyFail, OpVerify, OpActivateFail, OpActivate, OpRouteFail, OpRoute,
      OpCommitReject, OpCommit, Committing, OpDrainFail, OpFinish, OpUnlock, slotVars
  <2> QED BY <1>2, <2>1 DEF TodoInv
<1> QED BY <1>1, <1>3

\* The worker visits a listed slot once, and empties only the one it visits.
LEMMA TodoWorker ==
    ASSUME TypeInv, TodoInv, Worker
    PROVE  TodoInv'
<1>t. /\ active \in [Slot -> Tunnel \cup {None}] /\ draining \in [Slot -> Tunnel \cup {None}]
      /\ wtodo \subseteq Slot /\ run \in RunRec /\ (wpc = "drain" => run.drain \in Slot)
  BY DEF TypeInv, TypeOK, LocalsTyped
<1>1. ASSUME NEW s \in Slot, NEW b \in BOOLEAN, CleanupStop(s, b) PROVE TodoInv'
  BY <1>1, <1>t DEF CleanupStop, TodoInv
<1>2. ASSUME NEW s \in Slot, Retire(s) PROVE TodoInv'
  BY <1>2, <1>t DEF Retire, Unhealthy, TodoInv
<1>3. ASSUME NEW s \in Slot, DrainMark(s) PROVE TodoInv'
  <2>1. run'.drain = s
    BY <1>3, <1>t DEF DrainMark, RunRec
  <2> QED BY <1>3, <2>1 DEF DrainMark, Unhealthy, TodoInv, slotVars
<1>4. CASE DrainRouted
  BY <1>4, <1>t DEF DrainRouted, TodoInv
<1>5. CASE DrainRollback
  BY <1>5, <1>t DEF DrainRollback, TodoInv, slotVars
<1>6. CASE wpc' \notin {"cleanup", "health", "drain"}
  BY <1>6 DEF TodoInv
<1>7. CASE UNCHANGED <<active, draining, wpc, run>> /\ wtodo' \subseteq wtodo
  BY <1>7 DEF TodoInv
<1>8. CASE /\ UNCHANGED <<active, draining>>
           /\ \/ wpc' = "cleanup" /\ wtodo' = Occupied(draining)
              \/ wpc' = "health" /\ wtodo' = Occupied(active)
  BY <1>8 DEF TodoInv, Occupied
<1>9. \/ \E s \in Slot, b \in BOOLEAN : CleanupStop(s, b)
      \/ \E s \in Slot : Retire(s)
      \/ \E s \in Slot : DrainMark(s)
      \/ DrainRouted \/ DrainRollback
      \/ wpc' \notin {"cleanup", "health", "drain"}
      \/ UNCHANGED <<active, draining, wpc, run>> /\ wtodo' \subseteq wtodo
      \/ /\ UNCHANGED <<active, draining>>
         /\ \/ wpc' = "cleanup" /\ wtodo' = Occupied(draining)
            \/ wpc' = "health" /\ wtodo' = Occupied(active)
  BY DEF Worker, Tick, Refill, CleanupDone, CleanupKeep, HealthPass,
      DrainRefused, HealthDone, FillSkip, FillDrop, FillPromote, Promoting, NextToFill,
      FillDone, Sync, CapacityReached, CapacityShort, Progress, SelectNone, Select,
      AdmitDefer, AdmitReject, Admit, ConnectFail, Connect, VerifyFail, Verify, BenchFail,
      Bench, CommitReject, Commit, QualifyFail, Leave, BeginReconcile, BeginTail, slotVars
<1> QED BY <1>1, <1>2, <1>3, <1>4, <1>5, <1>6, <1>7, <1>8, <1>9

\* Every step preserves it.
LEMMA TodoStep == TypeInv /\ TodoInv /\ [Next]_vars => TodoInv'
<1> SUFFICES ASSUME TypeInv, TodoInv, [Next]_vars PROVE TodoInv'
  OBVIOUS
<1>1. CASE UNCHANGED <<active, draining, wpc, wtodo, run>>
  BY <1>1 DEF TodoInv
<1>2. Worker \/ (\E s \in Slot : Operation(s)) \/ UNCHANGED <<active, draining, wpc, wtodo, run>>
  BY DEF Next, vars, Request, TunnelExit, Waiter, WaiterFail, WaiterDone, CleanStaleNode,
      Discover, slotVars, workVars
<1> QED BY <1>1, <1>2, TodoWorker, TodoOperation
------------------------------------------------------------------------------
(* Every step keeps the owners apart *)

\* A field of a tunnel changes without starting or stopping it.
LEMMA ProcKept ==
    ASSUME tun \in [Tunnel -> TunnelRec], NEW t, NEW x
    PROVE  \A u \in Tunnel :
             /\ [tun EXCEPT ![t].state = x][u].proc = tun[u].proc
             /\ [tun EXCEPT ![t].stat = x][u].proc = tun[u].proc
BY DEF TunnelRec

\* Changing other fields of a tunnel leaves every process as it is.
LEMMA ProcKeptTwo ==
    ASSUME tun \in [Tunnel -> TunnelRec], NEW t, NEW x, NEW y
    PROVE  \A u \in Tunnel :
             /\ [tun EXCEPT ![t].exit = x, ![t].stat = y][u].proc = tun[u].proc
             /\ [tun EXCEPT ![t].state = x, ![t].stat = y][u].proc = tun[u].proc
BY DEF TunnelRec

\* No place changes hands; the worker may drop the reference to a candidate that
\* it has not started.
Quiet ==
    /\ UNCHANGED <<active, draining, standby>>
    /\ \A s \in Slot : Candidate(s)' \in {Candidate(s), None}
    /\ cand'.tun \in {cand.tun, None}
    /\ \A t \in Tunnel : tun'[t].proc = "free" => tun[t].proc = "free"

\* Such a step preserves ownership.
LEMMA OwnQuiet ==
    ASSUME TypeInv, OwnInv, Quiet
    PROVE  OwnInv'
BY ShrinkKeeping DEF Quiet, Shrinks

\* transitionToDrainingLocked: the tunnel moves from its slot to the draining map.
LEMMA OwnDrainRouted ==
    ASSUME TypeInv, TodoInv, OwnInv, DrainRouted
    PROVE  OwnInv'
<1> DEFINE s == run.drain
<1>1. s \in Slot /\ wpc = "drain" /\ active[s] \in Tunnel
  BY DEF TypeInv, TypeOK, LocalsTyped, DrainRouted, TodoInv
<1>2. /\ \A r \in Slot : /\ active'[r] = IF r = s THEN None ELSE active[r]
                         /\ draining'[r] = IF r = s THEN active[s] ELSE draining[r]
                         /\ Candidate(r)' = Candidate(r)
      /\ standby' = standby /\ cand' = cand
  BY <1>1 DEF DrainRouted, Candidate, TypeInv, TypeOK
<1>3. \A u \in Tunnel : tun'[u].proc = tun[u].proc
  BY ProcKept DEF DrainRouted, TypeInv, TypeOK
<1>4. \A i \in DOMAIN standby : standby[i] # None
  BY DEF TypeInv, TypeOK
<1> HIDE DEF s
<1>5. SlotsApart'
  <2> SUFFICES ASSUME NEW q \in Slot, NEW r \in Slot
               PROVE  /\ q # r => /\ Differ(active'[q], active'[r])
                                  /\ Differ(draining'[q], draining'[r])
                                  /\ Differ(Candidate(q)', Candidate(r)')
                      /\ Differ(active'[q], draining'[r])
                      /\ Differ(active'[q], Candidate(r)')
                      /\ Differ(draining'[q], Candidate(r)')
    BY DEF SlotsApart, Differ
  <2>1. q # r => /\ Differ(active[q], active[r]) /\ Differ(draining[q], draining[r])
                 /\ Differ(Candidate(q), Candidate(r))
    BY DEF OwnInv, SlotsApart
  <2>2. /\ Differ(active[q], draining[r]) /\ Differ(active[r], draining[q])
        /\ Differ(active[q], Candidate(r)) /\ Differ(draining[q], Candidate(r))
        /\ Differ(active[s], Candidate(r))
    BY <1>1 DEF OwnInv, SlotsApart
  <2>3. CASE q # s /\ r # s
    BY <2>1, <2>2, <2>3, <1>2 DEF Differ
  <2>4. CASE q = s
    BY <2>1, <2>2, <2>4, <1>2 DEF Differ
  <2>5. CASE q # s /\ r = s
    BY <2>1, <2>2, <2>5, <1>2 DEF Differ
  <2> QED BY <2>3, <2>4, <2>5
<1>6. PoolApart' /\ CandApart'
  BY <1>1, <1>2, <1>4 DEF OwnInv, PoolApart, CandApart, Differ
<1>7. ASSUME NEW t \in Tunnel, Owned(t)' PROVE Owned(t)
  BY <1>1, <1>2, <1>7 DEF Owned
<1>8. OwnedAlive'
  BY <1>3, <1>7 DEF OwnInv, OwnedAlive
<1> QED BY <1>5, <1>6, <1>8 DEF OwnInv

\* reconcileActiveSlots: the oldest standby tunnel moves into an empty slot.
LEMMA OwnFillPromote ==
    ASSUME TypeInv, OwnInv, NEW s \in Slot, FillPromote(s)
    PROVE  OwnInv'
<1> DEFINE t == Head(standby)
<1>0. standby \in Seq(Tunnel) /\ standby # <<>> /\ standby' = Tail(standby)
  BY DEF FillPromote, Promoting, TypeInv, TypeOK
<1>1. /\ t = standby[1] /\ 1 \in DOMAIN standby /\ t \in Tunnel
      /\ \A i \in DOMAIN standby' : i \in Nat /\ i + 1 \in DOMAIN standby /\ standby'[i] = standby[i + 1]
  BY <1>0, TailElements
<1>2. \A i \in DOMAIN standby' : i \in Nat /\ i # 0
  BY <1>0
<1>3. /\ \A r \in Slot : /\ active'[r] = IF r = s THEN t ELSE active[r]
                         /\ draining'[r] = draining[r]
                         /\ Candidate(r)' = Candidate(r)
      /\ cand' = cand
  BY DEF FillPromote, Candidate, TypeInv, TypeOK
<1>4. \A u \in Tunnel : tun'[u].proc = tun[u].proc
  BY ProcKept DEF FillPromote, TypeInv, TypeOK
<1>5. /\ t # None /\ t # cand.tun
      /\ \A r \in Slot : t # active[r] /\ t # draining[r] /\ t # Candidate(r)
  BY <1>1 DEF OwnInv, PoolApart
<1> HIDE DEF t
<1>6. SlotsApart'
  BY <1>3, <1>5 DEF OwnInv, SlotsApart, Differ
<1>7. PoolApart'
  <2>1. \A i, j \in DOMAIN standby' : standby'[i] = standby'[j] => i = j
    BY <1>1 DEF OwnInv, PoolApart
  <2>2. ASSUME NEW i \in DOMAIN standby' PROVE standby'[i] # t
    <3>1. i + 1 # 1
      BY <1>2
    <3> QED BY <1>1, <3>1 DEF OwnInv, PoolApart
  <2> QED BY <1>1, <1>3, <2>1, <2>2 DEF OwnInv, PoolApart
<1>8. CandApart'
  BY <1>3, <1>5 DEF OwnInv, CandApart, Differ
<1>9. ASSUME NEW u \in Tunnel, Owned(u)' PROVE Owned(u)
  BY <1>1, <1>3, <1>9 DEF Owned
<1>10. OwnedAlive'
  BY <1>4, <1>9 DEF OwnInv, OwnedAlive
<1> QED BY <1>6, <1>7, <1>8, <1>10 DEF OwnInv

\* maintainStandbyPool's append: the qualified tunnel becomes the pool's.
LEMMA OwnCommit ==
    ASSUME TypeInv, OwnInv, Commit
    PROVE  OwnInv'
<1>1. cand.tun \in Tunnel /\ standby \in Seq(Tunnel)
  BY DEF Commit, TypeInv, TypeOK, LocalsTyped
<1>2. \A i \in DOMAIN standby' :
        \/ i \in DOMAIN standby /\ standby'[i] = standby[i]
        \/ i = Len(standby) + 1 /\ i \notin DOMAIN standby /\ standby'[i] = cand.tun
  BY <1>1, AppendElements DEF Commit
<1>3. /\ \A r \in Slot : /\ active'[r] = active[r]
                         /\ draining'[r] = draining[r]
                         /\ Candidate(r)' = Candidate(r)
      /\ cand'.tun = None
  BY DEF Commit, Leave, NoCand, Candidate, slotVars
<1>4. \A u \in Tunnel : tun'[u].proc = tun[u].proc
  BY ProcKept DEF Commit, TypeInv, TypeOK
<1>5. \A i \in DOMAIN standby : standby[i] # None
  BY <1>1
<1>6. SlotsApart'
  BY <1>3 DEF OwnInv, SlotsApart, Differ
<1>7. PoolApart'
  BY <1>1, <1>2, <1>3, <1>5 DEF OwnInv, PoolApart, CandApart, Differ
<1>8. CandApart'
  BY <1>3 DEF CandApart, Differ
<1>9. ASSUME NEW u \in Tunnel, Owned(u)' PROVE Owned(u)
  BY <1>2, <1>3, <1>9 DEF Owned
<1>10. OwnedAlive'
  BY <1>4, <1>9 DEF OwnInv, OwnedAlive
<1> QED BY <1>6, <1>7, <1>8, <1>10 DEF OwnInv

\* StartTunnel: a stopped tunnel belongs to nobody, so a fresh one is its starter's alone.
LEMMA OwnStart ==
    ASSUME TypeInv, OwnInv, NEW t \in Tunnel, tun[t].proc = "free",
           tun' = [tun EXCEPT ![t] = tun'[t]], tun'[t].proc # "free",
           UNCHANGED <<active, draining, standby>>,
           \/ /\ cand'.tun = t
              /\ \A s \in Slot : Candidate(s)' = Candidate(s)
           \/ /\ cand'.tun = cand.tun
              /\ \E s \in Slot : /\ Candidate(s)' = t
                                 /\ \A r \in Slot \ {s} : Candidate(r)' = Candidate(r)
    PROVE  OwnInv'
<1>1. ~Owned(t) /\ t # None
  BY DEF OwnInv, OwnedAlive
<1>2. /\ \A s \in Slot : t # active[s] /\ t # draining[s] /\ t # Candidate(s)
      /\ \A i \in DOMAIN standby : standby[i] # t
      /\ cand.tun # t
  BY <1>1 DEF Owned
<1>3. \A u \in Tunnel \ {t} : tun'[u] = tun[u]
  BY DEF TypeInv, TypeOK
<1>4. SlotsApart'
  BY <1>2 DEF OwnInv, SlotsApart, Differ
<1>5. PoolApart' /\ CandApart'
  BY <1>2 DEF OwnInv, PoolApart, CandApart, Differ
<1>6. ASSUME NEW u \in Tunnel, u # t, Owned(u)' PROVE Owned(u)
  BY <1>6 DEF Owned
<1>7. OwnedAlive'
  BY <1>3, <1>6 DEF OwnInv, OwnedAlive
<1> QED BY <1>4, <1>5, <1>7 DEF OwnInv

\* What the worker does to the owners.
LEMMA OwnWorker ==
    ASSUME TypeInv, TodoInv, OwnInv, Worker
    PROVE  OwnInv'
<1>t. /\ active \in [Slot -> Tunnel \cup {None}] /\ draining \in [Slot -> Tunnel \cup {None}]
      /\ tun \in [Tunnel -> TunnelRec] /\ cand \in CandRec
  BY DEF TypeInv, TypeOK
<1>o. \A s \in Slot : Candidate(s)' = Candidate(s)
  BY WorkerFrame DEF Candidate
<1>1. ASSUME NEW s \in Slot, NEW b \in BOOLEAN, CleanupStop(s, b) PROVE OwnInv'
  <2>1. Shrinks /\ LetGo(draining[s])
    BY <1>1, <1>t, <1>o DEF CleanupStop, Shrinks, LetGo
  <2> QED BY <1>1, <2>1, ShrinkStopping DEF CleanupStop, Stop
<1>2. ASSUME NEW s \in Slot, Retire(s) PROVE OwnInv'
  <2>1. Shrinks /\ LetGo(active[s])
    BY <1>2, <1>t, <1>o DEF Retire, Shrinks, LetGo
  <2> QED BY <1>2, <2>1, ShrinkStopping DEF Retire, Stop
<1>3. ASSUME NEW s \in Slot, FillDrop(s) PROVE OwnInv'
  <2>1. Shrinks /\ LetGo(Head(standby))
    BY <1>3, <1>o DEF FillDrop, Promoting, Shrinks, LetGo
  <2>2. tun' = [tun EXCEPT ![Head(standby)] = FreeTunnel]
    BY <1>3 DEF FillDrop, Stop
  <2> QED BY <2>1, <2>2, ShrinkStopping
<1>4. CASE QualifyFail
  <2>1. Shrinks /\ LetGo(cand.tun)
    BY <1>4, <1>o DEF QualifyFail, Leave, NoCand, Shrinks, LetGo, slotVars
  <2> QED BY <1>4, <2>1, ShrinkStopping DEF QualifyFail, Stop
<1>5. ASSUME NEW s \in Slot, FillPromote(s) PROVE OwnInv'
  BY <1>5, OwnFillPromote
<1>6. ASSUME NEW t \in Tunnel, Connect(t) PROVE OwnInv'
  <2>1. /\ tun[t].proc = "free" /\ tun' = [tun EXCEPT ![t] = tun'[t]] /\ tun'[t].proc = "up"
        /\ UNCHANGED <<active, draining, standby>> /\ cand'.tun = t
    BY <1>6, <1>t DEF Connect, StartTunnel, slotVars, CandRec
  <2> QED BY <2>1, <1>o, OwnStart
<1>7. ASSUME NEW s \in Slot, DrainMark(s) PROVE Quiet
  BY <1>7, <1>t, <1>o, ProcKept DEF DrainMark, Quiet, slotVars
<1>8. CASE DrainRollback
  BY <1>8, <1>t, <1>o, ProcKept, OwnQuiet DEF DrainRollback, Quiet, slotVars
<1>9. ASSUME NEW p \in Prefix, Verify(p) PROVE Quiet
  BY <1>9, <1>t, <1>o, ProcKeptTwo DEF Verify, Quiet, CandRec, slotVars
<1>10. CASE Bench
  BY <1>10, <1>t, <1>o, ProcKept, OwnQuiet DEF Bench, Quiet, CandRec, slotVars
<1>11. CASE Admit
  BY <1>11, <1>t, <1>o, OwnQuiet DEF Admit, Quiet, CandRec, slotVars
<1>12. ASSUME NEW n \in Node, Select(n) PROVE Quiet
  BY <1>12, <1>t, <1>o DEF Select, Quiet, NoCand, slotVars
<1>13. CASE UNCHANGED <<tun, active, draining, standby>> /\ cand' \in {cand, NoCand}
  BY <1>13, <1>o, OwnQuiet DEF Quiet, NoCand
<1>14. \/ \E s \in Slot, b \in BOOLEAN : CleanupStop(s, b)
       \/ \E s \in Slot : Retire(s) \/ FillDrop(s) \/ FillPromote(s) \/ DrainMark(s)
       \/ \E t \in Tunnel : Connect(t)
       \/ \E p \in Prefix : Verify(p)
       \/ \E n \in Node : Select(n)
       \/ QualifyFail \/ DrainRouted \/ DrainRollback \/ Admit \/ Bench \/ Commit
       \/ UNCHANGED <<tun, active, draining, standby>> /\ cand' \in {cand, NoCand}
  BY DEF Worker, Tick, Refill, CleanupDone, CleanupKeep, HealthPass,
      DrainRefused, HealthDone, FillSkip, FillDone, Sync, CapacityReached, CapacityShort,
      Progress, SelectNone, AdmitDefer, AdmitReject, ConnectFail,
      VerifyFail, BenchFail, CommitReject, Leave, slotVars
<1> QED
  BY <1>1, <1>2, <1>3, <1>4, <1>5, <1>6, <1>7, <1>8, <1>9, <1>10, <1>11, <1>12, <1>13,
      <1>14, OwnQuiet, OwnDrainRouted, OwnCommit

\* executeManualSwitch's commit: the candidate becomes the slot's tunnel, the
\* replaced one its draining tunnel.
LEMMA OwnOpCommit ==
    ASSUME TypeInv, LockInv, OwnInv, NEW s \in Slot, OpCommit(s)
    PROVE  OwnInv'
<1> DEFINE new == op[s].tun
           old == active[s]
<1>0. /\ op \in [Slot -> OpRec] /\ active \in [Slot -> Tunnel \cup {None}]
      /\ draining \in [Slot -> Tunnel \cup {None}] /\ tun \in [Tunnel -> TunnelRec]
  BY DEF TypeInv, TypeOK
<1>1. op[s].pc = "commit" /\ new \in Tunnel /\ Candidate(s) = new /\ old \in Tunnel \cup {None}
  BY <1>0 DEF OpCommit, Committing, LockInv, SwitchConnected, Connected, Candidate
<1>2. \A r \in Slot : Candidate(r)' = IF r = s THEN None ELSE Candidate(r)
  BY <1>0, <1>1 DEF OpCommit, Candidate, OpRec
<1>3. /\ \A r \in Slot : active'[r] = IF r = s THEN new ELSE active[r]
      /\ standby' = standby /\ cand' = cand
  BY <1>0 DEF OpCommit, workVars
<1>4. \A r \in Slot : /\ r # s => draining'[r] = draining[r]
                      /\ draining'[s] = draining[s] \/ (draining[s] = None /\ draining'[s] = old)
  BY <1>0 DEF OpCommit
<1>4a. old # None => draining'[s] = old
  BY <1>0 DEF OpCommit
<1>5. \A u \in Tunnel : tun'[u].proc = tun[u].proc
  <2>1. CASE old = None
    BY <2>1 DEF OpCommit
  <2>2. CASE old # None
    <3>1. tun' = [tun EXCEPT ![old].state = "DRAINING", ![old].stat = Moved(@, "DRAINING")]
      BY <2>2 DEF OpCommit
    <3> QED BY <1>0, <3>1 DEF TunnelRec
  <2> QED BY <2>1, <2>2
<1>6. \A i \in DOMAIN standby : standby[i] # None
  BY DEF TypeInv, TypeOK
<1> HIDE DEF new, old
<1>7. SlotsApart'
  BY <1>1, <1>2, <1>3, <1>4, <1>4a DEF OwnInv, SlotsApart, Differ, old
<1>8. PoolApart' /\ CandApart'
  BY <1>1, <1>2, <1>3, <1>4, <1>6 DEF OwnInv, PoolApart, CandApart, Differ, old
<1>9. ASSUME NEW u \in Tunnel, Owned(u)' PROVE Owned(u)
  BY <1>1, <1>2, <1>3, <1>4, <1>9 DEF Owned, old
<1>10. OwnedAlive'
  BY <1>5, <1>9 DEF OwnInv, OwnedAlive
<1> QED BY <1>7, <1>8, <1>10 DEF OwnInv

\* A switch that gives up stops its own candidate.
LEMMA OwnAbort ==
    ASSUME TypeInv, LockInv, OwnInv, NEW s \in Slot, op[s].pc \in Connected \ {"finish"},
           tun' = [tun EXCEPT ![op[s].tun] = FreeTunnel], OpEnd(s),
           UNCHANGED <<active, draining, standby, cand>>
    PROVE  OwnInv'
<1>1. op \in [Slot -> OpRec]
  BY DEF TypeInv, TypeOK
<1>2. /\ \A r \in Slot \ {s} : Candidate(r)' = Candidate(r)
      /\ Candidate(s)' = None /\ Candidate(s) = op[s].tun
  BY <1>1 DEF OpEnd, IdleOp, Candidate
<1>3. Shrinks /\ LetGo(op[s].tun)
  BY <1>2 DEF Shrinks, LetGo
<1> QED BY <1>3, ShrinkStopping

\* What a switch does to the owners.
LEMMA OwnOperation ==
    ASSUME TypeInv, LockInv, OwnInv, NEW s \in Slot, Operation(s)
    PROVE  OwnInv'
<1>t. op \in [Slot -> OpRec] /\ tun \in [Tunnel -> TunnelRec]
  BY DEF TypeInv, TypeOK
<1>1. ASSUME NEW t \in Tunnel, OpConnect(s, t) PROVE OwnInv'
  <2>1. /\ tun[t].proc = "free" /\ tun' = [tun EXCEPT ![t] = tun'[t]] /\ tun'[t].proc = "up"
        /\ UNCHANGED <<active, draining, standby, cand>>
    BY <1>1, <1>t DEF OpConnect, StartTunnel, slotVars, workVars
  <2>2. Candidate(s)' = t /\ \A r \in Slot \ {s} : Candidate(r)' = Candidate(r)
    BY <1>1, <1>t DEF OpConnect, Candidate, OpRec
  <2> QED BY <2>1, <2>2, OwnStart
<1>2. ASSUME NEW p \in Prefix, OpVerify(s, p) PROVE OwnInv'
  <2>1. CASE ValidateLease(s)
    <3>1. \A u \in Tunnel : tun'[u].proc = tun[u].proc
      <4>1. tun' = [tun EXCEPT ![op[s].tun].exit = p, ![op[s].tun].stat = Moved(@, "QUALIFIED")]
        BY <1>2, <2>1 DEF OpVerify
      <4> QED BY <1>t, <4>1 DEF TunnelRec
    <3>2. \A r \in Slot : Candidate(r)' = Candidate(r)
      BY <1>2, <2>1, <1>t DEF OpVerify, Candidate, OpRec
    <3> QED BY <1>2, <3>1, <3>2, OwnQuiet DEF Quiet, OpVerify, slotVars, workVars
  <2>2. CASE ~ValidateLease(s)
    BY <1>2, <2>2, OwnAbort DEF OpVerify, Stop, Connected, slotVars, workVars
  <2> QED BY <2>1, <2>2
<1>3. CASE OpVerifyFail(s) \/ OpActivateFail(s)
  BY <1>3, OwnAbort DEF OpVerifyFail, OpActivateFail, OpAbort, Stop, Connected, slotVars, workVars
<1>4. CASE OpRouteFail(s) \/ OpCommitReject(s)
  BY <1>4, OwnAbort DEF OpRouteFail, OpCommitReject, OpRollback, OpAbort, Stop, Connected,
      slotVars, workVars
<1>5. CASE OpDrainFail(s)
  BY <1>5, OwnAbort DEF OpDrainFail, Committing, OpAbort, Stop, Connected, slotVars, workVars
<1>6. CASE OpFinish(s)
  <2>1. \A u \in Tunnel : tun'[u].proc = tun[u].proc
    BY <1>6, <1>t, ProcKept DEF OpFinish
  <2>2. \A r \in Slot : Candidate(r)' \in {Candidate(r), None}
    BY <1>6, <1>t DEF OpFinish, OpEnd, IdleOp, Candidate
  <2> QED BY <1>6, <2>1, <2>2, OwnQuiet DEF Quiet, OpFinish, slotVars, workVars
<1>7. CASE OpReject(s) \/ OpConnectFail(s) \/ OpUnlock(s)
  <2>1. \A r \in Slot : Candidate(r)' \in {Candidate(r), None}
    BY <1>7, <1>t DEF OpReject, OpConnectFail, OpUnlock, OpEnd, IdleOp, Candidate
  <2> QED BY <1>7, <2>1, OwnQuiet DEF Quiet, OpReject, OpConnectFail, OpUnlock, slotVars, workVars
<1>8. CASE OpAdmit(s) \/ OpPrepare(s) \/ OpActivate(s) \/ OpRoute(s)
  <2>1. \A r \in Slot : Candidate(r)' \in {Candidate(r), None}
    BY <1>8, <1>t DEF OpAdmit, OpPrepare, OpActivate, OpRoute, OpEnd, IdleOp, Candidate, OpRec
  <2> QED BY <1>8, <2>1, OwnQuiet DEF Quiet, OpAdmit, OpPrepare, OpActivate, OpRoute,
              slotVars, workVars
<1> QED
  BY <1>1, <1>2, <1>3, <1>4, <1>5, <1>6, <1>7, <1>8, OwnOpCommit DEF Operation

\* Every step keeps the owners apart.
LEMMA OwnStep == TypeInv /\ LockInv /\ TodoInv /\ OwnInv /\ [Next]_vars => OwnInv'
<1> SUFFICES ASSUME TypeInv, LockInv, TodoInv, OwnInv, [Next]_vars PROVE OwnInv'
  OBVIOUS
<1>t. op \in [Slot -> OpRec] /\ tun \in [Tunnel -> TunnelRec]
  BY DEF TypeInv, TypeOK
<1>1. ASSUME NEW t \in Tunnel, TunnelExit(t) \/ Waiter(t) PROVE Quiet
  BY <1>1, <1>t DEF TunnelExit, Waiter, WaiterFail, WaiterDone, Quiet, TunnelRec, Candidate,
      slotVars, workVars
<1>2. ASSUME NEW s \in Slot, NEW n \in Node, Request(s, n) PROVE Quiet
  BY <1>2, <1>t DEF Request, IdleOp, Quiet, Candidate, slotVars, workVars
<1>3. CASE UNCHANGED <<active, draining, standby, op, cand, tun>>
  BY <1>3, OwnQuiet DEF Quiet, Candidate
<1>4. \/ Worker \/ (\E s \in Slot : Operation(s))
      \/ \E t \in Tunnel : TunnelExit(t) \/ Waiter(t)
      \/ \E s \in Slot, n \in Node : Request(s, n)
      \/ UNCHANGED <<active, draining, standby, op, cand, tun>>
  BY DEF Next, vars, CleanStaleNode, Discover, slotVars, workVars
<1> QED BY <1>1, <1>2, <1>3, <1>4, OwnQuiet, OwnWorker, OwnOperation

\* Every tunnel has one owner at most, and no owner's tunnel is ever stopped by
\* somebody else: Stop is called only by the place that gives the tunnel up.
THEOREM OwnershipSafe == Spec => []SoleOwner
BY TypeInit, TypeStep, LockInit, LockStep, TodoInit, TodoStep, OwnInit, OwnStep,
   OwnersApart, PTL DEF Spec
------------------------------------------------------------------------------
(* What a step may do to a tunnel *)

\* The owners in whose name tunnel t may be changed, each where the code does it;
\* the last two are its process and its waiter.
MayTouch(t) ==
    \/ \E s \in Slot : draining[s] = t
    \/ \E s \in Slot : active[s] = t /\ ~override[s]
    \/ \E i \in DOMAIN standby : standby[i] = t
    \/ cand.tun = t
    \/ \E s \in Slot : op[s].pc \in Connected /\ op[s].tun = t
    \/ \E s \in Slot : op[s].pc = "commit" /\ active[s] = t
    \/ tun[t].proc = "free"
    \/ tun'[t].proc = "exited"
    \/ ~Up(t)

\* A tunnel keeps its node until it is stopped, and its exit is only set by the
\* verification of whoever qualifies it.
TunnelStep(t) ==
    /\ tun'[t] = tun[t] \/ MayTouch(t)
    /\ tun[t].proc # "free" /\ tun'[t].proc # "free" =>
         /\ tun'[t].node = tun[t].node
         /\ \/ tun'[t].exit = tun[t].exit
            \/ wpc = "verify" /\ cand.tun = t
            \/ \E s \in Slot : op[s].pc = "verify" /\ op[s].tun = t

\* Stopping a tunnel changes no other.
LEMMA StopsOne ==
    ASSUME tun \in [Tunnel -> TunnelRec], NEW x, tun' = [tun EXCEPT ![x] = FreeTunnel],
           NEW t \in Tunnel, x = t => MayTouch(t)
    PROVE  TunnelStep(t)
BY DEF TunnelStep, FreeTunnel

\* Marking a tunnel changes no other.
LEMMA TouchesOne ==
    ASSUME tun \in [Tunnel -> TunnelRec], NEW x, NEW y, NEW z,
           \/ tun' = [tun EXCEPT ![x].state = y]
           \/ tun' = [tun EXCEPT ![x].stat = y]
           \/ tun' = [tun EXCEPT ![x].state = y, ![x].stat = z],
           NEW t \in Tunnel, x = t => MayTouch(t)
    PROVE  TunnelStep(t)
BY DEF TunnelStep, TunnelRec

\* A measured exit is recorded by the owner of the tunnel that is being verified.
LEMMA ExitOfOne ==
    ASSUME tun \in [Tunnel -> TunnelRec], NEW x, NEW y, NEW z,
           tun' = [tun EXCEPT ![x].exit = y, ![x].stat = z],
           NEW t \in Tunnel,
           x = t => (wpc = "verify" /\ cand.tun = t)
                    \/ \E s \in Slot : op[s].pc = "verify" /\ op[s].tun = t
    PROVE  TunnelStep(t)
<1>1. x = t => MayTouch(t)
  BY DEF MayTouch, Connected
<1> QED BY <1>1 DEF TunnelStep, TunnelRec

\* A tunnel is started where none was.
LEMMA StartsOne ==
    ASSUME tun \in [Tunnel -> TunnelRec], NEW x, NEW y,
           tun[x].proc = "free", tun' = [tun EXCEPT ![x] = y], NEW t \in Tunnel
    PROVE  TunnelStep(t)
BY DEF TunnelStep, MayTouch

\* The worker changes tunnels in these ways only.
LEMMA WorkerTunnels ==
    ASSUME TypeInv, LockInv, TodoInv, Worker, NEW t \in Tunnel
    PROVE  TunnelStep(t)
<1>t. tun \in [Tunnel -> TunnelRec] /\ standby \in Seq(Tunnel)
  BY DEF TypeInv, TypeOK
<1>1. ASSUME NEW s \in Slot, NEW b \in BOOLEAN, CleanupStop(s, b) PROVE TunnelStep(t)
  BY <1>1, <1>t, StopsOne DEF CleanupStop, Stop, MayTouch
<1>2. ASSUME NEW s \in Slot, Retire(s) PROVE TunnelStep(t)
  BY <1>2, <1>t, StopsOne DEF Retire, Unhealthy, Stop, MayTouch
<1>3. ASSUME NEW s \in Slot, FillDrop(s) PROVE TunnelStep(t)
  <2>1. tun' = [tun EXCEPT ![Head(standby)] = FreeTunnel] /\ standby # <<>>
    BY <1>3 DEF FillDrop, Promoting, Stop
  <2>2. Head(standby) = t => MayTouch(t)
    BY <2>1, <1>t, TailElements DEF MayTouch
  <2> QED BY <2>1, <2>2, <1>t, StopsOne
<1>4. CASE QualifyFail
  BY <1>4, <1>t, StopsOne DEF QualifyFail, Stop, MayTouch
<1>5. ASSUME NEW s \in Slot, FillPromote(s) PROVE TunnelStep(t)
  <2>1. Head(standby) = t => MayTouch(t)
    BY <1>5, <1>t, TailElements DEF FillPromote, Promoting, MayTouch
  <2> QED BY <1>5, <2>1, <1>t, TouchesOne DEF FillPromote
<1>6. ASSUME NEW u \in Tunnel, Connect(u) PROVE TunnelStep(t)
  BY <1>6, <1>t, StartsOne DEF Connect, StartTunnel
<1>7. ASSUME NEW s \in Slot, DrainMark(s) PROVE TunnelStep(t)
  BY <1>7, <1>t, TouchesOne DEF DrainMark, Unhealthy, MayTouch
<1>8. CASE DrainRouted \/ DrainRollback
  <2>1. active[run.drain] = t => MayTouch(t)
    BY <1>8 DEF DrainRouted, DrainRollback, LockInv, DrainGuarded, MayTouch
  <2> QED BY <1>8, <2>1, <1>t, TouchesOne DEF DrainRouted, DrainRollback
<1>9. ASSUME NEW p \in Prefix, Verify(p) PROVE TunnelStep(t)
  BY <1>9, <1>t, ExitOfOne DEF Verify
<1>10. CASE Bench \/ Commit
  BY <1>10, <1>t, TouchesOne DEF Bench, Commit, MayTouch
<1>11. CASE tun' = tun
  BY <1>11 DEF TunnelStep
<1>12. \/ \E s \in Slot, b \in BOOLEAN : CleanupStop(s, b)
       \/ \E s \in Slot : Retire(s) \/ FillDrop(s) \/ FillPromote(s) \/ DrainMark(s)
       \/ \E u \in Tunnel : Connect(u)
       \/ \E p \in Prefix : Verify(p)
       \/ QualifyFail \/ DrainRouted \/ DrainRollback \/ Bench \/ Commit
       \/ tun' = tun
  BY DEF Worker, Tick, Refill, CleanupDone, CleanupKeep, HealthPass,
      DrainRefused, HealthDone, FillSkip, FillDone, Sync, CapacityReached, CapacityShort,
      Progress, SelectNone, Select, AdmitDefer, AdmitReject, Admit, ConnectFail,
      VerifyFail, BenchFail, CommitReject
<1> QED
  BY <1>1, <1>2, <1>3, <1>4, <1>5, <1>6, <1>7, <1>8, <1>9, <1>10, <1>11, <1>12

\* So does a manual switch.
LEMMA OperationTunnels ==
    ASSUME TypeInv, LockInv, NEW s \in Slot, Operation(s), NEW t \in Tunnel
    PROVE  TunnelStep(t)
<1>t. tun \in [Tunnel -> TunnelRec]
  BY DEF TypeInv, TypeOK
<1>m. op[s].pc \in Connected /\ op[s].tun = t => MayTouch(t)
  BY DEF MayTouch
<1>1. ASSUME NEW u \in Tunnel, OpConnect(s, u) PROVE TunnelStep(t)
  BY <1>1, <1>t, StartsOne DEF OpConnect, StartTunnel
<1>2. ASSUME NEW p \in Prefix, OpVerify(s, p) PROVE TunnelStep(t)
  <2>1. CASE ValidateLease(s)
    <3>1. /\ tun' = [tun EXCEPT ![op[s].tun].exit = p, ![op[s].tun].stat = Moved(@, "QUALIFIED")]
          /\ op[s].pc = "verify"
      BY <1>2, <2>1 DEF OpVerify
    <3>2. op[s].tun = t => MayTouch(t)
      BY <1>m, <3>1 DEF Connected
    <3> QED BY <3>1, <3>2, <1>t DEF TunnelStep, TunnelRec
  <2>2. CASE ~ValidateLease(s)
    BY <1>2, <2>2, <1>t, <1>m, StopsOne DEF OpVerify, Stop, Connected
  <2> QED BY <2>1, <2>2
<1>3. CASE OpVerifyFail(s) \/ OpActivateFail(s)
  BY <1>3, <1>t, <1>m, StopsOne DEF OpVerifyFail, OpActivateFail, OpAbort, Stop, Connected
<1>4. CASE OpRouteFail(s) \/ OpCommitReject(s)
  BY <1>4, <1>t, <1>m, StopsOne DEF OpRouteFail, OpCommitReject, OpRollback, OpAbort, Stop,
      Connected
<1>5. CASE OpDrainFail(s)
  BY <1>5, <1>t, <1>m, StopsOne DEF OpDrainFail, Committing, OpAbort, Stop, Connected
<1>6. CASE OpFinish(s)
  BY <1>6, <1>t, <1>m, TouchesOne DEF OpFinish, Connected
<1>7. CASE OpCommit(s) /\ active[s] # None
  <2>1. tun' = [tun EXCEPT ![active[s]].state = "DRAINING",
                           ![active[s]].stat = Moved(@, "DRAINING")]
    BY <1>7 DEF OpCommit
  <2>2. active[s] = t => MayTouch(t)
    BY <1>7 DEF OpCommit, Committing, MayTouch
  <2> QED BY <2>1, <2>2, <1>t DEF TunnelStep, TunnelRec
<1>8. CASE tun' = tun
  BY <1>8 DEF TunnelStep
<1>9. OpReject(s) \/ OpConnectFail(s) \/ OpUnlock(s) \/ OpAdmit(s) \/ OpPrepare(s)
      \/ OpActivate(s) \/ OpRoute(s) \/ (OpCommit(s) /\ active[s] = None) => tun' = tun
  BY DEF OpReject, OpConnectFail, OpUnlock, OpAdmit, OpPrepare, OpActivate, OpRoute, OpCommit
<1> QED
  BY <1>1, <1>2, <1>3, <1>4, <1>5, <1>6, <1>7, <1>8, <1>9 DEF Operation

\* Every step of the system, for every tunnel.
LEMMA TunnelSteps ==
    ASSUME TypeInv, LockInv, TodoInv, [Next]_vars, NEW t \in Tunnel
    PROVE  TunnelStep(t)
<1>t. tun \in [Tunnel -> TunnelRec]
  BY DEF TypeInv, TypeOK
<1>1. ASSUME NEW u \in Tunnel, TunnelExit(u) PROVE TunnelStep(t)
  BY <1>1, <1>t DEF TunnelExit, TunnelStep, MayTouch, TunnelRec
<1>2. ASSUME NEW u \in Tunnel, Waiter(u) PROVE TunnelStep(t)
  BY <1>2, <1>t DEF Waiter, WaiterFail, WaiterDone, TunnelStep, MayTouch, Up, TunnelRec
<1>3. CASE tun' = tun
  BY <1>3 DEF TunnelStep
<1>4. \/ Worker \/ (\E s \in Slot : Operation(s))
      \/ \E u \in Tunnel : TunnelExit(u) \/ Waiter(u)
      \/ tun' = tun
  BY DEF Next, vars, Request, CleanStaleNode, Discover
<1> QED BY <1>1, <1>2, <1>3, <1>4, WorkerTunnels, OperationTunnels
------------------------------------------------------------------------------
(* The locals of a switch and of a qualification *)

\* A switch has a tunnel exactly from its connect on, and after its commit that
\* tunnel is the slot's.
SwitchLocals ==
    \A s \in Slot : /\ op[s].pc \notin Connected => op[s].tun = None
                    /\ op[s].pc = "finish" => active[s] = op[s].tun

Started == {"verify", "bench", "commit"}

\* Whoever qualifies a tunnel qualifies it for the node it is a tunnel to.
NodeLocals ==
    /\ \A s \in Slot : op[s].pc \in Connected => tun[op[s].tun].node = op[s].node
    /\ wpc \in Started => tun[cand.tun].node = cand.node

LocalsInv == SwitchLocals /\ NodeLocals

\* They hold initially.
LEMMA LocalsInit == Init => LocalsInv
BY DEF Init, LocalsInv, SwitchLocals, NodeLocals, IdleOp, Connected, Started

\* Each step of a switch keeps its own locals in order.
LEMMA SwitchOwnLocals ==
    ASSUME TypeInv, LockInv, SwitchLocals, NEW s \in Slot, Operation(s)
    PROVE  /\ op'[s].pc \notin Connected => op'[s].tun = None
           /\ op'[s].pc = "finish" => active'[s] = op'[s].tun
<1>t. op \in [Slot -> OpRec] /\ active \in [Slot -> Tunnel \cup {None}]
  BY DEF TypeInv, TypeOK
<1>1. CASE OpEnd(s) \/ OpUnlock(s)
  BY <1>1, <1>t DEF OpEnd, OpUnlock, IdleOp, Connected
<1>2. CASE OpAdmit(s)
  BY <1>2, <1>t DEF OpAdmit, OpRec, Connected, SwitchLocals
<1>3. CASE OpPrepare(s) /\ ~OpEnd(s)
  BY <1>3, <1>t DEF OpPrepare, OpRec, Connected, SwitchLocals
<1>4. ASSUME NEW t \in Tunnel, OpConnect(s, t)
      PROVE  op'[s].pc = "verify"
  BY <1>4, <1>t DEF OpConnect, OpRec
<1>5. ASSUME NEW p \in Prefix, OpVerify(s, p), ~OpEnd(s)
      PROVE  op'[s].pc = "activate"
  BY <1>5, <1>t DEF OpVerify, OpRec
<1>6. CASE OpActivate(s) \/ OpRoute(s)
  BY <1>6, <1>t DEF OpActivate, OpRoute, OpRec, Connected
<1>7. CASE OpCommit(s)
  BY <1>7, <1>t DEF OpCommit, OpRec, Connected
<1>8. OpEnd(s) \/ OpUnlock(s) \/ OpAdmit(s) \/ (OpPrepare(s) /\ ~OpEnd(s))
      \/ (\E t \in Tunnel : OpConnect(s, t)) \/ (\E p \in Prefix : OpVerify(s, p) /\ ~OpEnd(s))
      \/ OpActivate(s) \/ OpRoute(s) \/ OpCommit(s)
  BY DEF Operation, OpReject, OpConnectFail, OpVerifyFail, OpActivateFail, OpRouteFail,
      OpCommitReject, OpRollback, OpDrainFail, OpAbort, OpFinish
<1> QED BY <1>1, <1>2, <1>3, <1>4, <1>5, <1>6, <1>7, <1>8 DEF Connected

\* Every step preserves the locals of the switches.
LEMMA SwitchLocalsStep ==
    ASSUME TypeInv, LockInv, SwitchLocals, [Next]_vars
    PROVE  SwitchLocals'
<1>t. op \in [Slot -> OpRec]
  BY DEF TypeInv, TypeOK
<1>1. CASE Worker
  <2>1. op' = op
    BY <1>1, WorkerFrame
  <2>2. \A s \in Slot : op[s].pc = "finish" => active'[s] = active[s]
    BY <1>1, WorkerSlots DEF WorkerRespects, LockInv, LeaseExclusive
  <2> QED BY <2>1, <2>2 DEF SwitchLocals
<1>2. ASSUME NEW s \in Slot, Operation(s) PROVE SwitchLocals'
  <2>1. \A r \in Slot \ {s} : op'[r] = op[r] /\ active'[r] = active[r]
    BY <1>2, SwitchSteps DEF Switched
  <2> QED BY <1>2, <2>1, SwitchOwnLocals DEF SwitchLocals
<1>3. ASSUME NEW s \in Slot, NEW n \in Node, Request(s, n) PROVE SwitchLocals'
  BY <1>3, <1>t DEF Request, IdleOp, SwitchLocals, Connected, slotVars
<1>4. CASE UNCHANGED <<op, active>>
  BY <1>4 DEF SwitchLocals
<1>5. \/ Worker \/ (\E s \in Slot : Operation(s))
      \/ \E s \in Slot, n \in Node : Request(s, n)
      \/ UNCHANGED <<op, active>>
  BY DEF Next, vars, TunnelExit, Waiter, WaiterFail, WaiterDone, CleanStaleNode, Discover,
      slotVars
<1> QED BY <1>1, <1>2, <1>3, <1>4, <1>5

\* A tunnel somebody owns before and after a step is to the same node.
LEMMA NodeKept ==
    ASSUME TypeInv, LockInv, TodoInv, OwnInv, OwnInv', [Next]_vars,
           NEW t \in Tunnel, Owned(t), Owned(t)'
    PROVE  tun'[t].node = tun[t].node
BY TunnelSteps DEF TunnelStep, OwnInv, OwnedAlive

\* Its exit changes only while the worker or a switch verifies it.
LEMMA ExitKept ==
    ASSUME TypeInv, LockInv, TodoInv, OwnInv, OwnInv', [Next]_vars,
           NEW t \in Tunnel, Owned(t), Owned(t)', cand.tun # t,
           \A s \in Slot : Candidate(s) # t
    PROVE  tun'[t].exit = tun[t].exit
BY TunnelSteps DEF TunnelStep, OwnInv, OwnedAlive, Candidate

\* From one step of a switch to the next its tunnel and its node are the same.
SameSwitch(s) ==
    op'[s].pc \in Connected =>
        \/ /\ op[s].pc \in Connected /\ op'[s].tun = op[s].tun /\ op'[s].node = op[s].node
           /\ op[s].pc = "finish" => op'[s].pc = "finish"
        \/ \E t \in Tunnel : OpConnect(s, t)

\* Every step leaves each switch as it is, or is a step of that switch.
LEMMA SameSwitches ==
    ASSUME TypeInv, [Next]_vars, NEW s \in Slot
    PROVE  SameSwitch(s)
<1>t. op \in [Slot -> OpRec]
  BY DEF TypeInv, TypeOK
<1>1. CASE op' = op
  BY <1>1 DEF SameSwitch
<1>2. ASSUME NEW r \in Slot, NEW n \in Node, Request(r, n) PROVE SameSwitch(s)
  BY <1>2, <1>t DEF Request, IdleOp, SameSwitch, Connected
<1>3. ASSUME NEW r \in Slot, Operation(r), r # s PROVE SameSwitch(s)
  BY <1>3, SwitchSteps DEF Switched, SameSwitch
<1>4. CASE Operation(s)
  <2>1. CASE OpEnd(s) \/ OpUnlock(s)
    BY <2>1, <1>t DEF OpEnd, OpUnlock, IdleOp, Connected, SameSwitch
  <2>2. CASE OpAdmit(s) \/ (OpPrepare(s) /\ ~OpEnd(s))
    BY <2>2, <1>t DEF OpAdmit, OpPrepare, OpRec, Connected, SameSwitch
  <2>3. ASSUME NEW p \in Prefix, OpVerify(s, p), ~OpEnd(s) PROVE SameSwitch(s)
    BY <2>3, <1>t DEF OpVerify, OpRec, Connected, SameSwitch
  <2>4. CASE OpActivate(s) \/ OpRoute(s)
    BY <2>4, <1>t DEF OpActivate, OpRoute, OpRec, Connected, SameSwitch
  <2>5. CASE OpCommit(s)
    BY <2>5, <1>t DEF OpCommit, Committing, OpRec, Connected, SameSwitch
  <2>6. OpEnd(s) \/ OpUnlock(s) \/ OpAdmit(s) \/ (OpPrepare(s) /\ ~OpEnd(s))
        \/ (\E t \in Tunnel : OpConnect(s, t)) \/ (\E p \in Prefix : OpVerify(s, p) /\ ~OpEnd(s))
        \/ OpActivate(s) \/ OpRoute(s) \/ OpCommit(s)
    BY <1>4 DEF Operation, OpReject, OpConnectFail, OpVerifyFail, OpActivateFail, OpRouteFail,
        OpCommitReject, OpRollback, OpDrainFail, OpAbort, OpFinish
  <2> QED BY <2>1, <2>2, <2>3, <2>4, <2>5, <2>6 DEF SameSwitch
<1>5. \/ op' = op \/ (\E r \in Slot : Operation(r))
      \/ \E r \in Slot, n \in Node : Request(r, n)
  BY WorkerFrame DEF Next, vars, TunnelExit, Waiter, WaiterFail, WaiterDone, CleanStaleNode,
      Discover
<1> QED BY <1>1, <1>2, <1>3, <1>4, <1>5

SameCandidate ==
    wpc' \in Started =>
        \/ wpc \in Started /\ cand'.tun = cand.tun /\ cand'.node = cand.node
        \/ \E t \in Tunnel : Connect(t)

\* Likewise the worker's candidate.
LEMMA SameCandidates ==
    ASSUME TypeInv, [Next]_vars
    PROVE  SameCandidate
<1>t. cand \in CandRec
  BY DEF TypeInv, TypeOK
<1>1. ASSUME NEW p \in Prefix, Verify(p) PROVE SameCandidate
  BY <1>1, <1>t DEF Verify, CandRec, SameCandidate, Started
<1>2. CASE Bench
  BY <1>2, <1>t DEF Bench, CandRec, SameCandidate, Started
<1>3. CASE UNCHANGED <<wpc, cand>> \/ wpc' \notin Started
  BY <1>3 DEF SameCandidate
<1>4. CASE Worker
  <2>1. \/ \E p \in Prefix : Verify(p)
        \/ \E t \in Tunnel : Connect(t)
        \/ Bench \/ wpc' \notin Started
    BY <1>4 DEF Worker, Tick, Refill, CleanupDone, CleanupKeep, CleanupStop, HealthPass,
        DrainRefused, Retire, DrainMark, DrainRouted, DrainRollback, HealthDone, FillSkip,
        FillDrop, FillPromote, FillDone, Sync, CapacityReached, CapacityShort, Progress,
        SelectNone, Select, AdmitDefer, AdmitReject, Admit, ConnectFail, VerifyFail,
        BenchFail, CommitReject, Commit, QualifyFail, Leave, BeginReconcile, BeginTail,
        Unhealthy, Promoting, NextToFill, Started
  <2> QED BY <2>1, <1>1, <1>2, <1>3 DEF SameCandidate
<1>5. ASSUME NEW s \in Slot, Operation(s) PROVE UNCHANGED <<wpc, cand>>
  BY <1>5 DEF Operation, OpReject, OpAdmit, OpPrepare, OpConnectFail, OpConnect,
      OpVerifyFail, OpVerify, OpActivateFail, OpActivate, OpRouteFail, OpRoute,
      OpCommitReject, OpCommit, OpDrainFail, OpFinish, OpUnlock, workVars
<1>6. Worker \/ (\E s \in Slot : Operation(s)) \/ UNCHANGED <<wpc, cand>>
  BY DEF Next, vars, Request, TunnelExit, Waiter, WaiterFail, WaiterDone, CleanStaleNode,
      Discover, workVars
<1> QED BY <1>3, <1>4, <1>5, <1>6

\* Every step preserves the locals of the switches and of the worker.
LEMMA LocalsStep ==
    TypeInv /\ LockInv /\ LockInv' /\ TodoInv /\ OwnInv /\ OwnInv' /\ LocalsInv /\ [Next]_vars
    => LocalsInv'
<1> SUFFICES ASSUME TypeInv, LockInv, LockInv', TodoInv, OwnInv, OwnInv', LocalsInv,
                    [Next]_vars
             PROVE  LocalsInv'
  OBVIOUS
<1>t. /\ tun \in [Tunnel -> TunnelRec] /\ op \in [Slot -> OpRec] /\ cand \in CandRec
      /\ active \in [Slot -> Tunnel \cup {None}]
  BY DEF TypeInv, TypeOK
<1>1. SwitchLocals'
  BY SwitchLocalsStep DEF LocalsInv
<1>2. ASSUME NEW s \in Slot, op'[s].pc \in Connected PROVE tun'[op'[s].tun].node = op'[s].node
  <2>1. ASSUME NEW t \in Tunnel, OpConnect(s, t) PROVE tun'[op'[s].tun].node = op'[s].node
    BY <2>1, <1>t DEF OpConnect, StartTunnel, OpRec
  <2>2. CASE op[s].pc \in Connected /\ op'[s].tun = op[s].tun /\ op'[s].node = op[s].node
    <3>1. PICK t \in Tunnel : t = op[s].tun
      BY <2>2 DEF LockInv, SwitchConnected
    <3>2. Owned(t)
      BY <2>2, <3>1 DEF Owned, Candidate, LocalsInv, SwitchLocals
    <3>3. Owned(t)'
      BY <1>1, <1>2, <2>2, <3>1 DEF Owned, Candidate, SwitchLocals
    <3>4. tun'[t].node = tun[t].node
      BY <3>2, <3>3, NodeKept
    <3> QED BY <2>2, <3>1, <3>4 DEF LocalsInv, NodeLocals
  <2> QED BY <1>2, <2>1, <2>2, SameSwitches DEF SameSwitch
<1>3. ASSUME wpc' \in Started PROVE tun'[cand'.tun].node = cand'.node
  <2>1. ASSUME NEW t \in Tunnel, Connect(t) PROVE tun'[cand'.tun].node = cand'.node
    BY <2>1, <1>t DEF Connect, StartTunnel, CandRec
  <2>2. CASE wpc \in Started /\ cand'.tun = cand.tun /\ cand'.node = cand.node
    <3>1. PICK t \in Tunnel : t = cand.tun
      BY <2>2 DEF TypeInv, LocalsTyped, Started
    <3>2. Owned(t) /\ Owned(t)'
      BY <2>2, <3>1 DEF Owned
    <3>3. tun'[t].node = tun[t].node
      BY <3>2, NodeKept
    <3> QED BY <2>2, <3>1, <3>3 DEF LocalsInv, NodeLocals
  <2> QED BY <1>3, <2>1, <2>2, SameCandidates DEF SameCandidate
<1> QED BY <1>1, <1>2, <1>3 DEF LocalsInv, NodeLocals
------------------------------------------------------------------------------
(* The /24 policy *)

Pooled(t) == (\E s \in Slot : active[s] = t) \/ \E i \in DOMAIN standby : standby[i] = t

Diverse(t, u) == tun[t].node # tun[u].node => ~SharePrefix(t, u)

DiverseInv == \A t, u \in Tunnel : Pooled(t) /\ Pooled(u) => Diverse(t, u)

\* It holds initially.
LEMMA DiverseInit == Init => DiverseInv
BY DEF Init, DiverseInv, Pooled

\* It implies the property the run checks.
LEMMA DiversePool == TypeInv /\ DiverseInv => DistinctNodesDiverse
<1> SUFFICES ASSUME TypeInv, DiverseInv, NEW t \in Pool, NEW u \in Pool PROVE Diverse(t, u)
  BY DEF DistinctNodesDiverse, Diverse
<1>1. ASSUME NEW v \in Pool PROVE v \in Tunnel /\ Pooled(v)
  <2>t. active \in [Slot -> Tunnel \cup {None}] /\ standby \in Seq(Tunnel)
    BY DEF TypeInv, TypeOK
  <2>1. CASE \E s \in Occupied(active) : v = active[s]
    BY <2>1, <2>t DEF Occupied, Pooled
  <2>2. CASE \E i \in DOMAIN standby : v = standby[i]
    BY <2>2, <2>t DEF Pooled
  <2> QED BY <1>1, <2>1, <2>2 DEF Pool
<1> QED BY <1>1 DEF DiverseInv

\* A pooled tunnel is nobody's candidate.
LEMMA PooledApart ==
    ASSUME OwnInv, NEW t \in Tunnel, Pooled(t)
    PROVE  /\ Owned(t) /\ cand.tun # t
           /\ \A s \in Slot : Candidate(s) # t
<1>0. t # None
  OBVIOUS
<1> QED BY <1>0 DEF OwnInv, SlotsApart, PoolApart, CandApart, Differ, Pooled, Owned

\* The pool grows only by the worker's commit or a switch's.
LEMMA PoolGrows ==
    ASSUME TypeInv, [Next]_vars, NEW t \in Tunnel, Pooled(t)'
    PROVE  \/ Pooled(t)
           \/ Commit /\ t = cand.tun
           \/ \E s \in Slot : OpCommit(s) /\ t = op[s].tun
<1>t. active \in [Slot -> Tunnel \cup {None}] /\ standby \in Seq(Tunnel) /\ t # None
  BY DEF TypeInv, TypeOK
<1>1. ASSUME NEW s \in Slot, Retire(s) PROVE Pooled(t)
  BY <1>1, <1>t DEF Retire, Pooled
<1>2. CASE DrainRouted
  BY <1>2, <1>t DEF DrainRouted, Pooled
<1>3. ASSUME NEW s \in Slot, FillDrop(s) \/ FillPromote(s) PROVE Pooled(t)
  <2>1. standby # <<>> /\ standby' = Tail(standby)
    BY <1>3 DEF FillDrop, FillPromote, Promoting
  <2>2. /\ Head(standby) = standby[1] /\ 1 \in DOMAIN standby
        /\ \A i \in DOMAIN standby' : i + 1 \in DOMAIN standby /\ standby'[i] = standby[i + 1]
    BY <2>1, <1>t, TailElements
  <2>3. \A r \in Slot : active'[r] \in {active[r], Head(standby)}
    BY <1>3, <1>t DEF FillDrop, FillPromote
  <2> QED BY <2>2, <2>3 DEF Pooled
<1>4. CASE Commit
  <2>1. cand.tun \in Tunnel /\ standby' = Append(standby, cand.tun) /\ active' = active
    BY <1>4 DEF Commit, TypeInv, LocalsTyped
  <2>2. \A i \in DOMAIN standby' :
          (i \in DOMAIN standby /\ standby'[i] = standby[i]) \/ standby'[i] = cand.tun
    BY <2>1, <1>t, AppendElements
  <2> QED BY <1>4, <2>1, <2>2 DEF Pooled
<1>5. ASSUME NEW s \in Slot, OpCommit(s), t # op[s].tun PROVE Pooled(t)
  BY <1>5, <1>t DEF OpCommit, Pooled
<1>6. CASE UNCHANGED <<active, standby>>
  BY <1>6 DEF Pooled
<1>7. CASE Worker
  <2>1. \/ \E s \in Slot : Retire(s) \/ FillDrop(s) \/ FillPromote(s)
        \/ DrainRouted \/ Commit \/ UNCHANGED <<active, standby>>
    BY <1>7 DEF Worker, Tick, Refill, CleanupDone, CleanupKeep, CleanupStop, HealthPass,
        DrainRefused, DrainMark, DrainRollback, HealthDone, FillSkip, FillDone,
        Sync, CapacityReached, CapacityShort, Progress, SelectNone, Select, AdmitDefer,
        AdmitReject, Admit, ConnectFail, Connect, VerifyFail, Verify, BenchFail, Bench,
        CommitReject, QualifyFail, slotVars
  <2> QED BY <2>1, <1>1, <1>2, <1>3, <1>4, <1>6
<1>8. ASSUME NEW s \in Slot, Operation(s) PROVE OpCommit(s) \/ UNCHANGED <<active, standby>>
  BY <1>8 DEF Operation, OpReject, OpAdmit, OpPrepare, OpConnectFail, OpConnect,
      OpVerifyFail, OpVerify, OpActivateFail, OpActivate, OpRouteFail, OpRoute,
      OpCommitReject, OpDrainFail, OpFinish, OpUnlock, slotVars
<1>9. Worker \/ (\E s \in Slot : Operation(s)) \/ UNCHANGED <<active, standby>>
  BY DEF Next, vars, Request, TunnelExit, Waiter, WaiterFail, WaiterDone, CleanStaleNode,
      Discover, slotVars
<1> QED BY <1>5, <1>6, <1>7, <1>8, <1>9

\* The worker's last /24 check and its append are under one lock, so the check
\* still holds of everything pooled by then.
LEMMA DiverseCommit ==
    ASSUME TypeInv, LocalsInv, Commit,
           NEW t \in Tunnel, t = cand.tun, NEW u \in Tunnel, Pooled(u)
    PROVE  Diverse(t, u) /\ Diverse(u, t)
<1>1. tun[t].node = cand.node
  BY DEF Commit, LocalsInv, NodeLocals, Started
<1>2. ~PrefixConflict(cand.node, tun[t].exit, u)
  BY DEF Commit, CheckPrefixDiversity, Occupied, Pooled
<1> QED BY <1>1, <1>2 DEF PrefixConflict, Diverse, SharePrefix

\* So are a switch's; the tunnel it replaces leaves the pool.
LEMMA DiverseOpCommit ==
    ASSUME TypeInv, LocalsInv, NEW s \in Slot, OpCommit(s),
           NEW t \in Tunnel, t = op[s].tun, NEW u \in Tunnel, Pooled(u), u # active[s]
    PROVE  Diverse(t, u) /\ Diverse(u, t)
<1>1. tun[t].node = op[s].node
  BY DEF OpCommit, Committing, LocalsInv, NodeLocals, Connected
<1>2. ~PrefixConflict(op[s].node, tun[t].exit, u)
  BY DEF OpCommit, Committing, CheckPrefixDiversity, Occupied, Pooled
<1> QED BY <1>1, <1>2 DEF PrefixConflict, Diverse, SharePrefix

\* A commit changes no tunnel's node or exit.
LEMMA CommitKeeps ==
    ASSUME TypeInv, Commit \/ \E s \in Slot : OpCommit(s), NEW t \in Tunnel
    PROVE  tun'[t].node = tun[t].node /\ tun'[t].exit = tun[t].exit
<1>t. tun \in [Tunnel -> TunnelRec]
  BY DEF TypeInv, TypeOK
<1>1. CASE Commit
  BY <1>1, <1>t DEF Commit, TunnelRec
<1>2. ASSUME NEW s \in Slot, OpCommit(s)
      PROVE  tun'[t].node = tun[t].node /\ tun'[t].exit = tun[t].exit
  <2>1. CASE active[s] = None
    BY <1>2, <2>1 DEF OpCommit
  <2>2. CASE active[s] # None
    <3>1. tun' = [tun EXCEPT ![active[s]].state = "DRAINING",
                             ![active[s]].stat = Moved(@, "DRAINING")]
      BY <1>2, <2>2 DEF OpCommit
    <3> QED BY <3>1, <1>t DEF TunnelRec
  <2> QED BY <2>1, <2>2
<1> QED BY <1>1, <1>2

\* One commit at a time, and what a switch replaces leaves the pool.
LEMMA OneCommit ==
    ASSUME TypeInv, LockInv, OwnInv, NEW s \in Slot, OpCommit(s)
    PROVE  /\ ~Commit
           /\ \A r \in Slot : OpCommit(r) => r = s
           /\ \A u \in Tunnel : u = active[s] => ~Pooled(u)'
<1>t. op \in [Slot -> OpRec] /\ active \in [Slot -> Tunnel \cup {None}]
  BY DEF TypeInv, TypeOK
<1>1. ~Commit
  BY DEF Commit, OpCommit, Leave, workVars
<1>2. ASSUME NEW r \in Slot, OpCommit(r) PROVE r = s
  <2>1. op[r].pc = "commit" /\ op'[r].pc = "finish"
    BY <1>2, <1>t DEF OpCommit, Committing, OpRec
  <2> QED BY <2>1, <1>t DEF OpCommit
<1>3. ASSUME NEW u \in Tunnel, u = active[s] PROVE ~Pooled(u)'
  <2>1. u # None /\ Candidate(s) = op[s].tun
    BY DEF OpCommit, Committing, Candidate
  <2>2. u # op[s].tun /\ (\A r \in Slot \ {s} : u # active[r]) /\ \A i \in DOMAIN standby : standby[i] # u
    BY <1>3, <2>1 DEF OwnInv, SlotsApart, PoolApart, Differ
  <2> QED BY <2>2, <1>t DEF OpCommit, Pooled
<1> QED BY <1>1, <1>2, <1>3

\* Every step keeps the policy.
LEMMA DiverseStep ==
    TypeInv /\ LockInv /\ TodoInv /\ OwnInv /\ OwnInv' /\ LocalsInv /\ DiverseInv /\ [Next]_vars
    => DiverseInv'
<1> SUFFICES ASSUME TypeInv, LockInv, TodoInv, OwnInv, OwnInv', LocalsInv, DiverseInv,
                    [Next]_vars
             PROVE  DiverseInv'
  OBVIOUS
<1>0. ASSUME NEW t \in Tunnel, NEW u \in Tunnel, Diverse(t, u),
             tun'[t].node = tun[t].node, tun'[t].exit = tun[t].exit,
             tun'[u].node = tun[u].node, tun'[u].exit = tun[u].exit
      PROVE  Diverse(t, u)'
  BY <1>0 DEF Diverse, SharePrefix
<1>1. ASSUME NEW t \in Tunnel, Pooled(t), Pooled(t)'
      PROVE  tun'[t].node = tun[t].node /\ tun'[t].exit = tun[t].exit
  <2>1. Owned(t) /\ cand.tun # t /\ \A s \in Slot : Candidate(s) # t
    BY <1>1, PooledApart
  <2>2. Owned(t)'
    BY <1>1 DEF Pooled, Owned
  <2> QED BY <2>1, <2>2, NodeKept, ExitKept
<1>2. ASSUME NEW t \in Tunnel, NEW u \in Tunnel, Pooled(t)', Pooled(u)' PROVE Diverse(t, u)'
  <2>1. CASE Pooled(t) /\ Pooled(u)
    BY <1>0, <1>1, <1>2, <2>1 DEF DiverseInv
  <2>2. CASE t = u
    BY <2>2 DEF Diverse
  <2>3. CASE Commit
    <3>1. (Pooled(t) \/ t = cand.tun) /\ (Pooled(u) \/ u = cand.tun)
      BY <1>2, <2>3, PoolGrows, OneCommit
    <3>2. (Pooled(t) /\ u = cand.tun) \/ (Pooled(u) /\ t = cand.tun) => Diverse(t, u)
      BY <2>3, DiverseCommit
    <3>3. /\ tun'[t].node = tun[t].node /\ tun'[t].exit = tun[t].exit
          /\ tun'[u].node = tun[u].node /\ tun'[u].exit = tun[u].exit
      BY <2>3, CommitKeeps
    <3>4. CASE Diverse(t, u)
      BY <1>0, <3>3, <3>4
    <3>5. t = u \/ (Pooled(t) /\ Pooled(u)) \/ Diverse(t, u)
      BY <3>1, <3>2
    <3> QED BY <2>1, <2>2, <3>4, <3>5
  <2>4. ASSUME NEW s \in Slot, OpCommit(s) PROVE Diverse(t, u)'
    <3>1. (Pooled(t) \/ t = op[s].tun) /\ (Pooled(u) \/ u = op[s].tun)
      BY <1>2, <2>4, PoolGrows, OneCommit
    <3>2. t # active[s] /\ u # active[s]
      BY <1>2, <2>4, OneCommit
    <3>3. (Pooled(t) /\ u = op[s].tun) \/ (Pooled(u) /\ t = op[s].tun) => Diverse(t, u)
      BY <2>4, <3>2, DiverseOpCommit
    <3>4. /\ tun'[t].node = tun[t].node /\ tun'[t].exit = tun[t].exit
          /\ tun'[u].node = tun[u].node /\ tun'[u].exit = tun[u].exit
      BY <2>4, CommitKeeps
    <3>5. CASE Diverse(t, u)
      BY <1>0, <3>4, <3>5
    <3>6. t = u \/ (Pooled(t) /\ Pooled(u)) \/ Diverse(t, u)
      BY <3>1, <3>3
    <3> QED BY <2>1, <2>2, <3>5, <3>6
  <2> QED BY <1>2, <2>1, <2>3, <2>4, PoolGrows
<1> QED BY <1>2 DEF DiverseInv

\* Two tunnels clients are, or may next be, sent to are never to two nodes that
\* share a /24, however the qualifications of the worker and of the switches
\* interleave: each check is repeated under the lock of the commit it is for.
THEOREM DiversitySafe == Spec => []DistinctNodesDiverse
BY TypeInit, TypeStep, LockInit, LockStep, TodoInit, TodoStep, OwnInit, OwnStep,
   LocalsInit, LocalsStep, DiverseInit, DiverseStep, DiversePool, PTL DEF Spec
------------------------------------------------------------------------------
(* Where the slots' tables lead *)

\* The one tunnel a slot's table may lead to: between the cutover of a switch and
\* its commit the switch's own, otherwise the slot's, or what is left draining.
Target(s) ==
    IF op[s].pc = "commit" THEN op[s].tun
    ELSE IF active[s] # None THEN active[s] ELSE draining[s]

RouteInv == \A s \in Slot : slotTable[s] \in {None, Unreachable, Target(s)}

\* It holds initially.
LEMMA RouteInit == Init => RouteInv
BY DEF Init, RouteInv

\* Outside a switch that is the slot's own tunnel or the one it drains.
LEMMA RouteMisroute == LockInv /\ RouteInv => NoMisroute
BY DEF LockInv, LeaseExclusive, RouteInv, Target, NoMisroute

\* A step that moves no tunnel and writes no table may still lose routes.
LEMMA RouteLoses ==
    ASSUME RouteInv, NEW s \in Slot, Target(s)' = Target(s),
           slotTable'[s] \in {slotTable[s], None, Unreachable}
    PROVE  slotTable'[s] \in {None, Unreachable, Target(s)'}
BY DEF RouteInv

\* ClearSlotRouting leaves the other slots' tables alone, and its own unreachable or,
\* when a command fails, without a route or as it was.
LEMMA ClearedRoutes ==
    ASSUME NEW table \in Tables, NEW r \in Slot, NEW s \in Slot, NEW st \in Cleared(table, r)
    PROVE  /\ st \in Tables /\ st[s] \in {table[s], None, Unreachable}
           /\ s # r => st[s] = table[s]
BY FailureTypes DEF Cleared, Tables

\* SetupSlotRouting that fails leaves its own table without a route or as it was.
LEMMA FailedRoutes ==
    ASSUME NEW table \in Tables, NEW r \in Slot, NEW s \in Slot, NEW t,
           NEW st \in RouteFailures(table, r, t)
    PROVE  /\ st \in Tables /\ st[s] \in {table[s], None}
           /\ s # r => st[s] = table[s]
<1>1. st \in {[table EXCEPT ![r] = None], table}
  BY DEF RouteFailures
<1>2. [table EXCEPT ![r] = None] \in Tables
  BY DEF Tables
<1> QED BY <1>1, <1>2 DEF Tables

\* A promotion that fails does not leave a route to the tunnel it has stopped.
LEMMA FillDropTable ==
    ASSUME TypeInv, NEW r \in Slot, FillDrop(r), NEW s \in Slot
    PROVE  slotTable'[s] \in {slotTable[s], None, Unreachable}
<1>1. slotTable \in Tables /\ Head(standby) \in Tunnel
  BY DEF FillDrop, Promoting, TypeInv, TypeOK, Tables
<1>2. CASE Stop(Head(standby), slotTable, drainTable)
  BY <1>2 DEF Stop, Unrouted
<1>3. ASSUME NEW st \in RouteFailures(slotTable, r, Head(standby)),
             Stop(Head(standby), st, drainTable)
      PROVE  slotTable'[s] \in {slotTable[s], None, Unreachable}
  BY <1>1, <1>3, FailedRoutes DEF Stop, Unrouted
<1>4. ASSUME NEW st \in Cleared([slotTable EXCEPT ![r] = Head(standby)], r),
             Stop(Head(standby), st, drainTable)
      PROVE  slotTable'[s] \in {slotTable[s], None, Unreachable}
  <2>1. [slotTable EXCEPT ![r] = Head(standby)] \in Tables
    BY <1>1 DEF Tables
  <2>2. st[s] \in {[slotTable EXCEPT ![r] = Head(standby)][s], None, Unreachable}
    BY <2>1, ClearedRoutes
  <2> QED BY <1>1, <1>4, <2>2 DEF Stop, Unrouted, Tables
<1> QED BY <1>2, <1>3, <1>4 DEF FillDrop

\* A step of the worker leaves every slot's table on its target.
LEMMA RouteWorker ==
    ASSUME TypeInv, LockInv, TodoInv, RouteInv, Worker, NEW s \in Slot
    PROVE  slotTable'[s] \in {None, Unreachable, Target(s)'}
<1>t. /\ active \in [Slot -> Tunnel \cup {None}] /\ draining \in [Slot -> Tunnel \cup {None}]
      /\ slotTable \in [Slot -> Tunnel \cup {None, Unreachable}]
  BY DEF TypeInv, TypeOK
<1>o. op' = op /\ (~override[s] => op[s].pc = "idle")
  BY WorkerFrame DEF LockInv, LeaseExclusive
<1>1. ASSUME NEW r \in Slot, NEW b \in BOOLEAN, CleanupStop(r, b)
      PROVE  slotTable'[s] \in {None, Unreachable, Target(s)'}
  <2>0. PICK st \in IF b /\ active[r] = None THEN Cleared(slotTable, r) ELSE {slotTable} :
            Stop(draining[r], st, [drainTable EXCEPT ![r] = None])
    BY <1>1 DEF CleanupStop
  <2>1. /\ slotTable'[s] = IF st[s] = draining[r] THEN None ELSE st[s]
        /\ draining' = [draining EXCEPT ![r] = None] /\ active' = active
    BY <1>1, <2>0 DEF CleanupStop, Stop, Unrouted
  <2>2. st[s] \in {slotTable[s], None, Unreachable}
    BY <1>t, <2>0, ClearedRoutes DEF Tables
  <2>3. CASE s # r
    BY <2>1, <2>2, <2>3, <1>t, <1>o, RouteLoses DEF Target
  <2>4. CASE s = r /\ (op[s].pc = "commit" \/ active[s] # None)
    BY <2>1, <2>2, <2>4, <1>t, <1>o, RouteLoses DEF Target
  <2>5. CASE s = r /\ op[s].pc # "commit" /\ active[s] = None
    <3>1. slotTable[s] \in {None, Unreachable, draining[s]}
      BY <2>5 DEF RouteInv, Target
    <3> QED BY <2>1, <2>2, <2>5, <3>1
  <2> QED BY <2>3, <2>4, <2>5
<1>2. ASSUME NEW r \in Slot, Retire(r)
      PROVE  slotTable'[s] \in {None, Unreachable, Target(s)'}
  <2>0. PICK st \in Cleared(slotTable, r) : Stop(active[r], st, drainTable)
    BY <1>2 DEF Retire
  <2>1. /\ active' = [active EXCEPT ![r] = None] /\ draining' = draining
        /\ slotTable'[s] = IF st[s] = active[r] THEN None ELSE st[s]
        /\ ~override[r]
    BY <1>2, <2>0 DEF Retire, Unhealthy, Stop, Unrouted
  <2>2. st[s] \in {slotTable[s], None, Unreachable} /\ (s # r => st[s] = slotTable[s])
    BY <1>t, <2>0, ClearedRoutes DEF Tables
  <2> QED BY <2>1, <2>2, <1>t, <1>o DEF RouteInv, Target
<1>3. CASE DrainRouted
  <2>1. run.drain \in Slot /\ ~override[run.drain] /\ active[run.drain] # None
    BY <1>3 DEF DrainRouted, LockInv, DrainGuarded, TodoInv
  <2>2. slotTable' = slotTable
    BY <1>3 DEF DrainRouted
  <2>3. Target(s)' = Target(s)
    BY <1>3, <2>1, <1>t, <1>o DEF DrainRouted, Target
  <2> QED BY <2>2, <2>3, RouteLoses
<1>4. ASSUME NEW r \in Slot, FillDrop(r)
      PROVE  slotTable'[s] \in {None, Unreachable, Target(s)'}
  <2>1. slotTable'[s] \in {slotTable[s], None, Unreachable}
    BY <1>4, FillDropTable
  <2>2. Target(s)' = Target(s)
    BY <1>4, <1>o DEF FillDrop, Target
  <2> QED BY <2>1, <2>2, RouteLoses
<1>5. ASSUME NEW r \in Slot, FillPromote(r)
      PROVE  slotTable'[s] \in {None, Unreachable, Target(s)'}
  <2>1. CASE s = r
    <3>1. /\ slotTable'[s] = Head(standby) /\ active'[s] = Head(standby) /\ op[s].pc = "idle"
      BY <1>5, <2>1, <1>t, <1>o DEF FillPromote, Promoting
    <3>2. Head(standby) \in Tunnel
      BY <1>5 DEF FillPromote, Promoting, TypeInv, TypeOK
    <3> QED BY <3>1, <3>2, <1>o DEF Target
  <2>2. CASE s # r
    BY <1>5, <2>2, <1>t, <1>o DEF FillPromote, RouteInv, Target
  <2> QED BY <2>1, <2>2
<1>6. CASE QualifyFail
  BY <1>6, <1>t, <1>o, RouteLoses DEF QualifyFail, Stop, Unrouted, Target, slotVars
<1>7. CASE UNCHANGED <<active, draining, slotTable>>
  BY <1>7, <1>o, RouteLoses DEF Target
<1>8. \/ \E r \in Slot, b \in BOOLEAN : CleanupStop(r, b)
      \/ \E r \in Slot : Retire(r) \/ FillDrop(r) \/ FillPromote(r)
      \/ DrainRouted \/ QualifyFail \/ UNCHANGED <<active, draining, slotTable>>
  BY DEF Worker, Tick, Refill, CleanupDone, CleanupKeep, HealthPass, DrainRefused, DrainMark,
      DrainRollback, HealthDone, FillSkip, FillDone, Sync, CapacityReached, CapacityShort,
      Progress, SelectNone, Select, AdmitDefer, AdmitReject, Admit, ConnectFail, Connect,
      VerifyFail, Verify, BenchFail, Bench, CommitReject, Commit, slotVars, kernVars
<1> QED BY <1>1, <1>2, <1>3, <1>4, <1>5, <1>6, <1>7, <1>8

\* A rollback puts its slot's table right for the slot's own tunnel, which is still
\* what the switch remembered, fails closed, leaves it empty or leaves it alone.
LEMMA RollbackTable ==
    ASSUME TypeInv, LockInv, NEW r \in Slot, op[r].pc \in {"route", "commit"}, OpRollback(r),
           NEW s \in Slot
    PROVE  \E x \in {slotTable[s], None, Unreachable, active[s]} :
              /\ slotTable'[s] = IF x = op[r].tun THEN None ELSE x
              /\ s # r => x = slotTable[s]
              /\ \/ x \in {slotTable[s], None}
                 \/ x = Unreachable /\ active[s] = None
                 \/ x = active[s] /\ active[s] # None
<1>1. active[r] = op[r].cur
  BY DEF LockInv, RollbackTargetFresh
<1>2. /\ slotTable \in Tables /\ active[r] \in Tunnel \cup {None}
      /\ Unreachable \notin Tunnel \cup {None} /\ None \notin Tunnel
  BY EgressAssumption DEF TypeInv, TypeOK, Tables
<1>3. ASSUME NEW st \in Tables, OpAbort(r, st, drainTable)
      PROVE  slotTable'[s] = IF st[s] = op[r].tun THEN None ELSE st[s]
  BY <1>3 DEF OpAbort, Stop, Unrouted
<1>4. CASE op[r].cur # None
  <2>1. CASE OpAbort(r, [slotTable EXCEPT ![r] = op[r].cur], drainTable)
    <3>1. [slotTable EXCEPT ![r] = op[r].cur] \in Tables
      BY <1>1, <1>2 DEF Tables
    <3>2. [slotTable EXCEPT ![r] = op[r].cur][s] = IF s = r THEN active[s] ELSE slotTable[s]
      BY <1>1, <1>2 DEF Tables
    <3> QED BY <1>1, <1>2, <1>3, <1>4, <2>1, <3>1, <3>2
  <2>2. ASSUME NEW st \in RouteFailures(slotTable, r, op[r].cur), OpAbort(r, st, drainTable)
        PROVE  \E x \in {slotTable[s], None} :
                  /\ slotTable'[s] = IF x = op[r].tun THEN None ELSE x
                  /\ s # r => x = slotTable[s]
    <3>1. st \in Tables /\ st[s] \in {slotTable[s], None} /\ (s # r => st[s] = slotTable[s])
      BY <1>2, FailedRoutes
    <3> QED BY <1>3, <2>2, <3>1
  <2>3. \/ OpAbort(r, [slotTable EXCEPT ![r] = op[r].cur], drainTable)
        \/ \E st \in RouteFailures(slotTable, r, op[r].cur) : OpAbort(r, st, drainTable)
    BY <1>4 DEF OpRollback
  <2> QED BY <1>2, <2>1, <2>2, <2>3
<1>5. CASE op[r].cur = None
  <2>1. PICK st \in Cleared(slotTable, r) : OpAbort(r, st, drainTable)
    BY <1>5 DEF OpRollback
  <2>2. /\ st \in Tables /\ st[s] \in {slotTable[s], None, Unreachable}
        /\ s # r => st[s] = slotTable[s]
    <3>1. slotTable \in Tables
      BY <1>2
    <3> HIDE <1>1, <1>2, <1>3, <1>5
    <3> QED BY <2>1, <3>1, ClearedRoutes
  <2>3. slotTable'[s] = IF st[s] = op[r].tun THEN None ELSE st[s]
    BY <1>3, <2>1, <2>2
  <2> QED BY <1>1, <1>2, <1>5, <2>2, <2>3
<1> QED BY <1>4, <1>5

\* So it leads to the slot's own tunnel, to what the slot is draining, or nowhere.
LEMMA RouteRollback ==
    ASSUME TypeInv, LockInv, RouteInv, NEW s \in Slot, op[s].pc \in {"route", "commit"},
           OpRollback(s)
    PROVE  \/ slotTable'[s] \in {None, Unreachable}
           \/ slotTable'[s] = active[s] /\ active[s] # None
           \/ slotTable'[s] = draining[s] /\ active[s] = None
<1>1. PICK x \in {slotTable[s], None, Unreachable, active[s]} :
          /\ slotTable'[s] = IF x = op[s].tun THEN None ELSE x
          /\ \/ x \in {slotTable[s], None}
             \/ x = Unreachable /\ active[s] = None
             \/ x = active[s] /\ active[s] # None
  BY RollbackTable
<1> QED BY <1>1 DEF RouteInv, Target

\* When the old tunnel cannot be drained, its slot's table leads to it again, is
\* empty or is left alone.
LEMMA DrainFailTable ==
    ASSUME TypeInv, NEW r \in Slot, OpDrainFail(r), NEW s \in Slot
    PROVE  \E x \in {slotTable[s], None, active[s]} :
              /\ slotTable'[s] = IF x = op[r].tun THEN None ELSE x
              /\ s # r => x = slotTable[s]
<1>1. slotTable \in Tables /\ active[r] \in Tunnel /\ active[r] # None
  BY DEF TypeInv, TypeOK, Tables, OpDrainFail
<1>2. [slotTable EXCEPT ![r] = active[r]] \in Tables
  BY <1>1 DEF Tables
<1>3. PICK st \in {[slotTable EXCEPT ![r] = active[r]]}
                      \cup RouteFailures(slotTable, r, active[r]) : \E dt : OpAbort(r, st, dt)
  BY DEF OpDrainFail
<1>4. slotTable'[s] = IF st[s] = op[r].tun THEN None ELSE st[s]
  BY <1>3 DEF OpAbort, Stop, Unrouted
<1>5. CASE st = [slotTable EXCEPT ![r] = active[r]]
  <2>1. st[s] = IF s = r THEN active[s] ELSE slotTable[s]
    BY <1>1, <1>5 DEF Tables
  <2> QED BY <1>4, <2>1
<1>6. CASE st \in RouteFailures(slotTable, r, active[r])
  <2>1. st[s] \in {slotTable[s], None} /\ (s # r => st[s] = slotTable[s])
    BY <1>1, <1>6, FailedRoutes
  <2> QED BY <1>4, <2>1
<1> QED BY <1>3, <1>5, <1>6

\* A step of a switch does too, for its own slot and for the others.
LEMMA RouteOperation ==
    ASSUME TypeInv, LockInv, RouteInv, NEW r \in Slot, Operation(r), NEW s \in Slot
    PROVE  slotTable'[s] \in {None, Unreachable, Target(s)'}
<1>t. /\ active \in [Slot -> Tunnel \cup {None}] /\ draining \in [Slot -> Tunnel \cup {None}]
      /\ slotTable \in [Slot -> Tunnel \cup {None, Unreachable}] /\ op \in [Slot -> OpRec]
  BY DEF TypeInv, TypeOK
<1>1. CASE s # r
  <2>1. op'[s] = op[s] /\ active'[s] = active[s]
    BY <1>1, SwitchSteps DEF Switched
  <2>2. draining'[s] = draining[s]
    BY <1>1, <1>t DEF Operation, OpReject, OpAdmit, OpPrepare, OpConnectFail, OpConnect,
      OpVerifyFail, OpVerify, OpActivateFail, OpActivate, OpRouteFail, OpRoute,
      OpCommitReject, OpCommit, OpDrainFail, OpFinish, OpUnlock, slotVars
  <2>3. slotTable'[s] \in {slotTable[s], None}
    <3>1. CASE OpRouteFail(r) \/ OpCommitReject(r)
      <4>1. op[r].pc \in {"route", "commit"} /\ OpRollback(r)
        BY <3>1 DEF OpRouteFail, OpCommitReject
      <4>2. PICK x \in {slotTable[s], None, Unreachable, active[s]} :
              /\ slotTable'[s] = IF x = op[r].tun THEN None ELSE x
              /\ s # r => x = slotTable[s]
        BY <4>1, RollbackTable
      <4> QED BY <1>1, <4>2
    <3>2. CASE OpDrainFail(r)
      <4>1. PICK x \in {slotTable[s], None, active[s]} :
              /\ slotTable'[s] = IF x = op[r].tun THEN None ELSE x
              /\ s # r => x = slotTable[s]
        BY <3>2, DrainFailTable
      <4> QED BY <1>1, <4>1
    <3>3. CASE ~(OpRouteFail(r) \/ OpCommitReject(r) \/ OpDrainFail(r))
      BY <1>1, <1>t, <3>3 DEF Operation, OpReject, OpAdmit, OpPrepare, OpConnectFail, OpConnect,
        OpVerifyFail, OpVerify, OpActivateFail, OpActivate, OpRoute, OpCommit, OpFinish,
        OpUnlock, OpAbort, Stop, Unrouted, kernVars
    <3> QED BY <3>1, <3>2, <3>3
  <2> QED BY <2>1, <2>2, <2>3, RouteLoses DEF Target
<1>2. CASE s = r
  <2>1. CASE OpRouteFail(s) \/ OpCommitReject(s)
    <3>1. op[s].pc \in {"route", "commit"} /\ OpRollback(s) /\ UNCHANGED <<active, draining>>
      BY <2>1 DEF OpRouteFail, OpCommitReject, slotVars
    <3>2. op'[s].pc = "unlock"
      BY <3>1, <1>t DEF OpRollback, OpAbort, OpEnd, IdleOp
    <3> QED BY <3>1, <3>2, RouteRollback DEF Target
  <2>2. CASE OpDrainFail(s)
    <3>1. op'[s].pc = "unlock" /\ active'[s] = active[s] /\ active[s] # None
      BY <2>2, <1>t DEF OpDrainFail, OpAbort, OpEnd, IdleOp, slotVars
    <3>2. op[s].pc = "commit"
      BY <2>2 DEF OpDrainFail, Committing
    <3>3. slotTable'[s] \in {None, Unreachable, active[s]}
      BY <2>2, <3>2, DrainFailTable DEF RouteInv, Target
    <3> QED BY <3>1, <3>3 DEF Target
  <2>3. CASE OpRoute(s)
    BY <2>3, <1>t DEF OpRoute, OpRec, Target
  <2>4. CASE OpCommit(s)
    <3>1. op[s].pc = "commit" /\ op[s].tun # None
      BY <2>4 DEF OpCommit, Committing, LockInv, SwitchConnected, Connected
    <3>2. /\ active'[s] = op[s].tun /\ op'[s].pc = "finish" /\ slotTable' = slotTable
      BY <2>4, <1>t DEF OpCommit, OpRec
    <3> QED BY <3>1, <3>2 DEF RouteInv, Target
  <2>5. CASE /\ op[s].pc # "commit" /\ op'[s].pc # "commit"
             /\ UNCHANGED <<active, draining>> /\ slotTable'[s] \in {slotTable[s], None}
    BY <2>5, RouteLoses DEF Target
  <2>6. CASE OpVerifyFail(s) \/ OpActivateFail(s) \/ OpReject(s) \/ OpConnectFail(s) \/ OpFinish(s)
    BY <2>6, <2>5, <1>t DEF OpVerifyFail, OpActivateFail, OpReject, OpConnectFail, OpFinish,
        OpAbort, OpEnd, IdleOp, Stop, Unrouted, slotVars, kernVars
  <2>7. CASE OpAdmit(s) \/ OpPrepare(s) \/ OpActivate(s) \/ OpUnlock(s)
    BY <2>7, <2>5, <1>t DEF OpAdmit, OpPrepare, OpActivate, OpUnlock, OpEnd, IdleOp, OpRec,
        slotVars, kernVars
  <2>8. ASSUME NEW t \in Tunnel, OpConnect(s, t)
        PROVE  slotTable'[s] \in {None, Unreachable, Target(s)'}
    BY <2>8, <2>5, <1>t DEF OpConnect, OpRec, slotVars, kernVars
  <2>9. ASSUME NEW p \in Prefix, OpVerify(s, p)
        PROVE  slotTable'[s] \in {None, Unreachable, Target(s)'}
    BY <2>9, <2>5, <1>t DEF OpVerify, OpEnd, IdleOp, Stop, Unrouted, OpRec, slotVars, kernVars
  <2> QED
    BY <1>2, <2>1, <2>2, <2>3, <2>4, <2>6, <2>7, <2>8, <2>9 DEF Operation
<1> QED BY <1>1, <1>2

\* Every step does.
LEMMA RouteStep == TypeInv /\ LockInv /\ TodoInv /\ RouteInv /\ [Next]_vars => RouteInv'
<1> SUFFICES ASSUME TypeInv, LockInv, TodoInv, RouteInv, [Next]_vars, NEW s \in Slot
             PROVE  slotTable'[s] \in {None, Unreachable, Target(s)'}
  BY DEF RouteInv
<1>t. slotTable \in [Slot -> Tunnel \cup {None, Unreachable}] /\ op \in [Slot -> OpRec]
  BY DEF TypeInv, TypeOK
<1>1. ASSUME NEW t \in Tunnel, TunnelExit(t)
      PROVE  slotTable'[s] \in {None, Unreachable, Target(s)'}
  BY <1>1, <1>t, RouteLoses DEF TunnelExit, Unrouted, Target, slotVars
<1>2. ASSUME NEW r \in Slot, NEW n \in Node, Request(r, n)
      PROVE  slotTable'[s] \in {None, Unreachable, Target(s)'}
  <2>1. UNCHANGED <<active, draining, slotTable>> /\ (op[s].pc = "commit" <=> op'[s].pc = "commit")
        /\ (op[s].pc = "commit" => op'[s] = op[s])
    BY <1>2, <1>t DEF Request, slotVars, kernVars, IdleOp
  <2> QED BY <2>1, RouteLoses DEF Target
<1>3. CASE UNCHANGED <<active, draining, slotTable, op>>
  BY <1>3, RouteLoses DEF Target
<1>4. \/ Worker \/ (\E r \in Slot : Operation(r))
      \/ \E t \in Tunnel : TunnelExit(t)
      \/ \E r \in Slot, n \in Node : Request(r, n)
      \/ UNCHANGED <<active, draining, slotTable, op>>
  BY DEF Next, vars, Waiter, WaiterFail, WaiterDone, CleanStaleNode, Discover, slotVars,
      kernVars
<1> QED BY <1>1, <1>2, <1>3, <1>4, RouteWorker, RouteOperation

\* Outside a switch a slot's traffic never leaves through a standby tunnel, a
\* candidate or a tunnel of another slot: the table follows every move of a
\* tunnel, and every failed cutover takes back what it wrote.
THEOREM RoutesSafe == Spec => []NoMisroute
BY TypeInit, TypeStep, LockInit, LockStep, TodoInit, TodoStep, RouteInit, RouteStep,
   RouteMisroute, PTL DEF Spec
------------------------------------------------------------------------------
(* What Xray balances over *)

Cutover == {"route", "commit"}

\* A slot Xray balances over after a step has a tunnel, is in the cutover of a
\* switch, was empty and balanced over before, or is one that Xray refused to
\* drop when a cutover was rolled back, by then with no route if the flush worked.
Balanced(s) ==
    s \in xact' =>
        \/ active'[s] # None
        \/ op'[s].pc \in Cutover
        \/ /\ s \in xact /\ active[s] = None /\ op[s].pc \notin Cutover
           /\ slotTable'[s] \in {slotTable[s], None, Unreachable}
           /\ draining'[s] \in {draining[s], None}
        \/ "xray" \in Faults /\ ("flush" \in Faults \/ slotTable'[s] \in {None, Unreachable})

\* The worker gives Xray only slots with a tunnel, and takes the tunnel only out
\* of a slot Xray has dropped.
LEMMA BalancedWorker ==
    ASSUME TypeInv, LockInv, TodoInv, Worker, NEW s \in Slot
    PROVE  Balanced(s)
<1>t. /\ active \in [Slot -> Tunnel \cup {None}] /\ draining \in [Slot -> Tunnel \cup {None}]
      /\ slotTable \in [Slot -> Tunnel \cup {None, Unreachable}]
  BY DEF TypeInv, TypeOK
<1> SUFFICES ASSUME s \in xact', active'[s] = None, op[s].pc \notin Cutover
             PROVE  /\ s \in xact /\ active[s] = None
                    /\ slotTable'[s] \in {slotTable[s], None, Unreachable}
                    /\ draining'[s] \in {draining[s], None}
  BY WorkerFrame DEF Balanced
<1>1. active[s] = None
  BY WorkerSlots DEF WorkerRespects
<1>2. ASSUME NEW r \in Slot, NEW b \in BOOLEAN, CleanupStop(r, b)
      PROVE  /\ slotTable'[s] \in {slotTable[s], None, Unreachable}
             /\ draining'[s] \in {draining[s], None} /\ xact' = xact
  <2>1. PICK st \in IF b /\ active[r] = None THEN Cleared(slotTable, r) ELSE {slotTable} :
            Stop(draining[r], st, [drainTable EXCEPT ![r] = None])
    BY <1>2 DEF CleanupStop
  <2>2. st[s] \in {slotTable[s], None, Unreachable}
    BY <1>t, <2>1, ClearedRoutes DEF Tables
  <2> QED BY <1>2, <1>t, <2>1, <2>2 DEF CleanupStop, Stop, Unrouted
<1>3. ASSUME NEW r \in Slot, Retire(r)
      PROVE  /\ slotTable'[s] \in {slotTable[s], None, Unreachable}
             /\ draining'[s] = draining[s] /\ xact' \subseteq xact
  <2>1. PICK st \in Cleared(slotTable, r) : Stop(active[r], st, drainTable)
    BY <1>3 DEF Retire
  <2>2. st[s] \in {slotTable[s], None, Unreachable}
    BY <1>t, <2>1, ClearedRoutes DEF Tables
  <2> QED BY <1>3, <1>t, <2>1, <2>2 DEF Retire, Stop, Unrouted, DrainingSlot
<1>4. CASE DrainRouted \/ DrainRollback
  <2>1. s # run.drain
    BY <1>1, <1>4 DEF DrainRouted, DrainRollback, TodoInv
  <2> QED BY <1>1, <1>4, <2>1, <1>t DEF DrainRouted, DrainRollback, ActivateSlot, slotVars
<1>5. ASSUME NEW r \in Slot, FillDrop(r)
      PROVE  /\ slotTable'[s] \in {slotTable[s], None, Unreachable}
             /\ draining'[s] = draining[s] /\ xact' = xact
  BY <1>5, <1>t, FillDropTable DEF FillDrop
<1>6. ASSUME NEW r \in Slot, FillPromote(r)
      PROVE  /\ slotTable'[s] = slotTable[s] /\ draining'[s] = draining[s] /\ s \in xact
  <2>1. Head(standby) \in Tunnel
    BY <1>6 DEF FillPromote, Promoting, TypeInv, TypeOK
  <2>2. s # r
    BY <1>6, <2>1, <1>t DEF FillPromote
  <2> QED BY <1>6, <2>2, <1>t DEF FillPromote, ActivateSlot
<1>7. CASE QualifyFail
  BY <1>1, <1>7, <1>t DEF QualifyFail, Stop, Unrouted, slotVars
<1>8. CASE Sync
  BY <1>1, <1>8 DEF Sync, LiveSlots, Occupied, slotVars, kernVars
<1>9. CASE UNCHANGED <<draining, slotTable>> /\ xact' \subseteq xact
  BY <1>1, <1>9
<1>10. \/ \E r \in Slot, b \in BOOLEAN : CleanupStop(r, b)
       \/ \E r \in Slot : Retire(r) \/ FillDrop(r) \/ FillPromote(r)
       \/ DrainRouted \/ DrainRollback \/ QualifyFail \/ Sync
       \/ UNCHANGED <<draining, slotTable>> /\ xact' \subseteq xact
  BY DEF Worker, Tick, Refill, CleanupDone, CleanupKeep, HealthPass, DrainRefused, DrainMark,
      DrainingSlot, HealthDone, FillSkip, FillDone, CapacityReached, CapacityShort,
      Progress, SelectNone, Select, AdmitDefer, AdmitReject, Admit, ConnectFail, Connect,
      VerifyFail, Verify, BenchFail, Bench, CommitReject, Commit, slotVars, kernVars
<1> QED BY <1>1, <1>2, <1>3, <1>4, <1>5, <1>6, <1>7, <1>8, <1>9, <1>10

\* Outside its own cutover a switch writes no route and no draining slot.
LEMMA OperationRoutes ==
    ASSUME TypeInv, LockInv, NEW r \in Slot, Operation(r), NEW s \in Slot,
           s # r \/ op[r].pc \notin Cutover
    PROVE  slotTable'[s] \in {slotTable[s], None} /\ draining'[s] = draining[s]
<1>t. draining \in [Slot -> Tunnel \cup {None}]
      /\ slotTable \in [Slot -> Tunnel \cup {None, Unreachable}]
  BY DEF TypeInv, TypeOK
<1>1. slotTable'[s] \in {slotTable[s], None}
  <2>1. CASE OpRouteFail(r) \/ OpCommitReject(r)
    <3>1. op[r].pc \in {"route", "commit"} /\ OpRollback(r) /\ s # r
      BY <2>1 DEF OpRouteFail, OpCommitReject, Cutover
    <3>2. PICK x \in {slotTable[s], None, Unreachable, active[s]} :
            /\ slotTable'[s] = IF x = op[r].tun THEN None ELSE x
            /\ s # r => x = slotTable[s]
      BY <3>1, RollbackTable
    <3> QED BY <3>1, <3>2
  <2>2. CASE OpDrainFail(r)
    <3>1. s # r
      BY <2>2 DEF OpDrainFail, Committing, Cutover
    <3>2. PICK x \in {slotTable[s], None, active[s]} :
            /\ slotTable'[s] = IF x = op[r].tun THEN None ELSE x
            /\ s # r => x = slotTable[s]
      BY <2>2, DrainFailTable
    <3> QED BY <3>1, <3>2
  <2>3. CASE ~(OpRouteFail(r) \/ OpCommitReject(r) \/ OpDrainFail(r))
    BY <1>t, <2>3 DEF Operation, OpReject, OpAdmit, OpPrepare, OpConnectFail, OpConnect,
      OpVerifyFail, OpVerify, OpActivateFail, OpActivate, OpRoute, OpCommit, OpFinish,
      OpUnlock, OpAbort, Stop, Unrouted, Cutover, kernVars
  <2> QED BY <2>1, <2>2, <2>3
<1>2. draining'[s] = draining[s]
  BY <1>t DEF Operation, OpReject, OpAdmit, OpPrepare, OpConnectFail, OpConnect,
      OpVerifyFail, OpVerify, OpActivateFail, OpActivate, OpRouteFail, OpRoute,
      OpCommitReject, OpCommit, OpDrainFail, OpFinish, OpUnlock, Committing, Cutover, slotVars
<1> QED BY <1>1, <1>2

\* A switch gives Xray its slot just before the cutover, and takes an empty one
\* back when the cutover fails.
LEMMA BalancedOperation ==
    ASSUME TypeInv, LockInv, NEW r \in Slot, Operation(r), NEW s \in Slot
    PROVE  Balanced(s)
<1>t. active \in [Slot -> Tunnel \cup {None}] /\ op \in [Slot -> OpRec]
      /\ slotTable \in [Slot -> Tunnel \cup {None, Unreachable}]
  BY DEF TypeInv, TypeOK
<1>s. Switched(r)
  BY SwitchSteps
<1>1. CASE s # r
  BY <1>1, <1>s, OperationRoutes DEF Switched, Balanced
<1>2. CASE s = r /\ op[s].pc \notin Cutover
  <2>1. op[s].pc = "activate" => op'[s].pc = "route" \/ xact' = xact
    BY <1>2, <1>t DEF Operation, OpReject, OpAdmit, OpPrepare, OpConnectFail, OpConnect,
      OpVerifyFail, OpVerify, OpActivateFail, OpActivate, OpRouteFail, OpRoute,
      OpCommitReject, OpCommit, Committing, OpDrainFail, OpFinish, OpUnlock, OpRec
  <2>2. active'[s] = active[s]
    BY <1>2, <1>s DEF Switched, Cutover
  <2> QED BY <1>2, <2>1, <2>2, <1>s, OperationRoutes DEF Switched, Balanced, Cutover
<1>3. CASE s = r /\ op[s].pc \in Cutover
  <2>1. CASE OpRouteFail(s) \/ OpCommitReject(s)
    <3>1. OpRollback(s) /\ active'[s] = active[s] /\ active[s] = op[s].cur
      BY <2>1 DEF OpRouteFail, OpCommitReject, slotVars, LockInv, RollbackTargetFresh
    <3>2. CASE op[s].cur # None
      BY <3>1, <3>2 DEF Balanced
    <3>3. CASE op[s].cur = None
      <4>1. PICK st \in Cleared(slotTable, s) : OpAbort(s, st, drainTable)
        BY <3>1, <3>3 DEF OpRollback
      <4>2. s \in xact' => "xray" \in Faults
        BY <3>1, <3>3 DEF OpRollback, DrainingSlot, DrainingMayFail
      <4>3. "flush" \notin Faults => st[s] \in {None, Unreachable}
        BY <1>t, <4>1 DEF Cleared
      <4>4. slotTable'[s] = IF st[s] = op[s].tun THEN None ELSE st[s]
        BY <4>1 DEF OpAbort, Stop, Unrouted
      <4> QED BY <4>2, <4>3, <4>4 DEF Balanced
    <3> QED BY <3>2, <3>3
  <2>2. CASE OpRoute(s)
    BY <2>2, <1>t DEF OpRoute, OpRec, Balanced, Cutover
  <2>3. CASE OpCommit(s)
    BY <2>3, <1>t DEF OpCommit, Committing, LockInv, SwitchConnected, Connected, Balanced
  <2>4. CASE OpDrainFail(s)
    BY <2>4, <1>t DEF OpDrainFail, slotVars, Balanced
  <2> QED
    BY <1>3, <2>1, <2>2, <2>3, <2>4 DEF Operation, OpReject, OpAdmit, OpPrepare,
        OpConnectFail, OpConnect, OpVerifyFail, OpVerify, OpActivateFail, OpActivate,
        OpFinish, OpUnlock, Cutover
<1> QED BY <1>1, <1>2, <1>3

\* Every step is of one of these kinds, for every slot.
LEMMA BalancedSteps ==
    ASSUME TypeInv, LockInv, TodoInv, [Next]_vars, NEW s \in Slot
    PROVE  Balanced(s)
<1>t. slotTable \in [Slot -> Tunnel \cup {None, Unreachable}] /\ op \in [Slot -> OpRec]
  BY DEF TypeInv, TypeOK
<1>1. CASE /\ UNCHANGED <<active, draining, xact>> /\ slotTable'[s] \in {slotTable[s], None}
           /\ op[s].pc \in Cutover => op'[s].pc \in Cutover
  BY <1>1 DEF Balanced
<1>2. ASSUME NEW r \in Slot, NEW n \in Node, Request(r, n) PROVE Balanced(s)
  <2>1. op[s].pc \in Cutover => op'[s].pc \in Cutover
    BY <1>2, <1>t DEF Request, Cutover
  <2> QED BY <1>2, <2>1, <1>1 DEF Request, slotVars, kernVars
<1>3. ASSUME NEW t \in Tunnel, TunnelExit(t) PROVE Balanced(s)
  BY <1>3, <1>1, <1>t DEF TunnelExit, Unrouted, slotVars
<1>4. \/ Worker \/ (\E r \in Slot : Operation(r))
      \/ \E r \in Slot, n \in Node : Request(r, n)
      \/ \E t \in Tunnel : TunnelExit(t)
      \/ UNCHANGED <<active, draining, xact, slotTable, op>>
  BY DEF Next, vars, Waiter, WaiterFail, WaiterDone, CleanStaleNode, Discover, slotVars,
      kernVars
<1> QED BY <1>1, <1>2, <1>3, <1>4, BalancedWorker, BalancedOperation

\* Without a failure of Xray every step preserves NoBlackhole.
LEMMA BlackholeStep ==
    TypeInv /\ LockInv /\ TodoInv /\ NoBlackhole /\ [Next]_vars => NoBlackhole'
<1> SUFFICES ASSUME TypeInv, LockInv, TodoInv, NoBlackhole, [Next]_vars, "xray" \notin Faults,
                    NEW s \in xact'
             PROVE  active'[s] # None \/ op'[s].pc \in {"route", "commit"}
  BY DEF NoBlackhole
<1>1. s \in Slot
  BY TypeStep DEF TypeInv, TypeOK
<1> QED BY <1>1, BalancedSteps DEF Balanced, Cutover, NoBlackhole

\* While Xray accepts changes, a slot it balances over has a tunnel, or is in the
\* cutover of a switch into an empty slot.
THEOREM BlackholeFree == Spec => []NoBlackhole
<1>1. Init => NoBlackhole
  BY DEF Init, NoBlackhole
<1> QED
  BY TypeInit, TypeStep, LockInit, LockStep, TodoInit, TodoStep, <1>1, BlackholeStep, PTL
  DEF Spec

\* A slot with a tunnel, or in its cutover, does not lead to what it drains; an
\* empty one that stays with Xray gets no route it did not have.
LEMMA AvoidStep ==
    /\ TypeInv /\ TypeInv' /\ LockInv /\ TodoInv /\ OwnInv' /\ RouteInv'
    /\ NewConnectionsAvoidDraining /\ [Next]_vars
    => NewConnectionsAvoidDraining'
<1> SUFFICES ASSUME TypeInv, TypeInv', LockInv, TodoInv, OwnInv', RouteInv',
                    NewConnectionsAvoidDraining, [Next]_vars,
                    NEW s \in xact', ~({"xray", "flush"} \subseteq Faults), op'[s].pc # "route"
             PROVE  draining'[s] = None \/ slotTable'[s] # draining'[s]
  BY DEF NewConnectionsAvoidDraining
<1>1. s \in Slot /\ draining'[s] \in Tunnel \cup {None}
  BY DEF TypeInv, TypeOK
<1>2. CASE active'[s] # None \/ op'[s].pc = "commit"
  <2>1. CASE op'[s].pc = "commit"
    BY <1>1, <2>1 DEF RouteInv, Target, OwnInv, SlotsApart, Candidate, Differ
  <2>2. CASE op'[s].pc # "commit"
    BY <1>1, <1>2, <2>2 DEF RouteInv, Target, OwnInv, SlotsApart, Differ
  <2> QED BY <2>1, <2>2
<1>3. CASE slotTable'[s] \in {None, Unreachable}
  BY <1>1, <1>3
<1>4. CASE /\ s \in xact /\ op[s].pc \notin Cutover
           /\ slotTable'[s] = slotTable[s] /\ draining'[s] \in {draining[s], None}
  BY <1>4 DEF NewConnectionsAvoidDraining, Cutover
<1>5. ~("xray" \in Faults /\ "flush" \in Faults)
  OBVIOUS
<1> QED BY <1>1, <1>2, <1>3, <1>4, <1>5, BalancedSteps DEF Balanced, Cutover

\* New connections never reach a tunnel that is draining, except between steps 4a
\* and 4b of a switch: whatever else puts a slot back into Xray's balance has
\* given it a tunnel, and its table leads there or nowhere.
THEOREM DrainingAvoided == Spec => []NewConnectionsAvoidDraining
<1>1. Init => NewConnectionsAvoidDraining
  BY DEF Init, NewConnectionsAvoidDraining
<1> QED
  BY TypeInit, TypeStep, LockInit, LockStep, TodoInit, TodoStep, OwnInit, OwnStep,
     RouteInit, RouteStep, <1>1, AvoidStep, PTL DEF Spec
------------------------------------------------------------------------------
(* The guarantee of a manual switch *)

\* A live tunnel that is a slot's is marked ACTIVE, unless the worker is draining
\* it; so is a live candidate of a switch.
StateInv ==
    \A s \in Slot :
        /\ active[s] # None /\ Up(active[s]) /\ tun[active[s]].state # "ACTIVE" =>
              wpc = "drain" /\ run.drain = s
        /\ Candidate(s) # None /\ Up(Candidate(s)) => tun[Candidate(s)].state = "ACTIVE"

\* It holds initially.
LEMMA StateInit == Init => StateInv
BY DEF Init, StateInv, Candidate, IdleOp

\* Only the drain of the worker and the commit of a switch mark a live tunnel.
MarkStep(t) ==
    tun'[t].proc = "up" /\ tun'[t].state # "ACTIVE" =>
        \/ Up(t) /\ tun[t].state # "ACTIVE" /\ (DrainRollback => active[run.drain] # t)
        \/ \E s \in Slot : DrainMark(s) /\ active[s] = t
        \/ \E s \in Slot : OpCommit(s) /\ active[s] = t

\* The worker marks tunnels in no other way.
LEMMA MarkWorker ==
    ASSUME TypeInv, Worker, NEW t \in Tunnel
    PROVE  MarkStep(t)
<1>t. tun \in [Tunnel -> TunnelRec]
  BY DEF TypeInv, TypeOK
<1>1. ASSUME NEW x, tun' = [tun EXCEPT ![x] = FreeTunnel], ~DrainRollback PROVE MarkStep(t)
  BY <1>1, <1>t DEF MarkStep, FreeTunnel, Up
<1>2. ASSUME NEW x, NEW y, tun' = [tun EXCEPT ![x].stat = y], ~DrainRollback PROVE MarkStep(t)
  BY <1>2, <1>t DEF MarkStep, TunnelRec, Up
<1>3. ASSUME NEW s \in Slot, DrainMark(s) PROVE MarkStep(t)
  <2>1. ~DrainRollback
    BY <1>3 DEF DrainMark, Unhealthy, DrainRollback
  <2> QED BY <1>3, <2>1, <1>t DEF DrainMark, MarkStep, Up
<1>4. CASE DrainRollback
  BY <1>4, <1>t DEF DrainRollback, MarkStep, TunnelRec, Up
<1>5. CASE Commit
  BY <1>5, <1>t DEF Commit, DrainRollback, MarkStep, TunnelRec, Up
<1>6. ASSUME NEW u \in Tunnel, Connect(u) PROVE MarkStep(t)
  BY <1>6, <1>t DEF Connect, StartTunnel, DrainRollback, MarkStep, Up
<1>7. ASSUME NEW p \in Prefix, Verify(p) PROVE MarkStep(t)
  BY <1>7, <1>t DEF Verify, DrainRollback, MarkStep, TunnelRec, Up
<1>8. CASE tun' = tun /\ ~DrainRollback
  BY <1>8 DEF MarkStep, Up
<1>9. ASSUME NEW s \in Slot, NEW b \in BOOLEAN, CleanupStop(s, b) PROVE MarkStep(t)
  BY <1>9, <1>1 DEF CleanupStop, Stop, DrainRollback
<1>10. ASSUME NEW s \in Slot, Retire(s) \/ FillDrop(s) PROVE MarkStep(t)
  BY <1>10, <1>1 DEF Retire, Unhealthy, FillDrop, Promoting, NextToFill, Stop, DrainRollback
<1>11. CASE VerifyFail \/ BenchFail \/ CommitReject
  BY <1>11, <1>1 DEF VerifyFail, BenchFail, CommitReject, QualifyFail, Stop, DrainRollback
<1>12. CASE DrainRouted
  <2>1. CASE DrainRollback
    BY <1>4, <2>1
  <2> QED BY <1>12, <1>2, <2>1 DEF DrainRouted
<1>13. CASE Bench
  BY <1>13, <1>2 DEF Bench, DrainRollback
<1>14. ASSUME NEW s \in Slot, FillPromote(s) PROVE MarkStep(t)
  BY <1>14, <1>2 DEF FillPromote, Promoting, NextToFill, DrainRollback
<1>15. \/ \E s \in Slot, b \in BOOLEAN : CleanupStop(s, b)
       \/ \E s \in Slot : Retire(s) \/ FillDrop(s) \/ FillPromote(s) \/ DrainMark(s)
       \/ \E u \in Tunnel : Connect(u)
       \/ \E p \in Prefix : Verify(p)
       \/ VerifyFail \/ BenchFail \/ CommitReject \/ DrainRouted \/ DrainRollback \/ Bench \/ Commit
       \/ tun' = tun
  BY DEF Worker, Tick, Refill, CleanupDone, CleanupKeep, HealthPass,
      DrainRefused, HealthDone, FillSkip, FillDone, Sync, CapacityReached, CapacityShort,
      Progress, SelectNone, Select, AdmitDefer, AdmitReject, Admit, ConnectFail
<1> QED
  BY <1>3, <1>4, <1>5, <1>6, <1>7, <1>8, <1>9, <1>10, <1>11, <1>12, <1>13, <1>14, <1>15

\* Neither does a switch.
LEMMA MarkOperation ==
    ASSUME TypeInv, NEW s \in Slot, Operation(s), NEW t \in Tunnel
    PROVE  MarkStep(t)
<1>t. tun \in [Tunnel -> TunnelRec]
  BY DEF TypeInv, TypeOK
<1>d. ~DrainRollback
  BY SwitchSteps DEF Switched, DrainRollback
<1>1. ASSUME NEW x, tun' = [tun EXCEPT ![x] = FreeTunnel] PROVE MarkStep(t)
  BY <1>1, <1>d, <1>t DEF MarkStep, FreeTunnel, Up
<1>2. ASSUME NEW u \in Tunnel, OpConnect(s, u) PROVE MarkStep(t)
  BY <1>2, <1>d, <1>t DEF OpConnect, StartTunnel, MarkStep, Up
<1>3. ASSUME NEW p \in Prefix, OpVerify(s, p) PROVE MarkStep(t)
  <2>1. CASE ValidateLease(s)
    <3>1. tun' = [tun EXCEPT ![op[s].tun].exit = p, ![op[s].tun].stat = Moved(@, "QUALIFIED")]
      BY <1>3, <2>1 DEF OpVerify
    <3> QED BY <3>1, <1>d, <1>t DEF MarkStep, TunnelRec, Up
  <2>2. CASE ~ValidateLease(s)
    BY <1>3, <2>2, <1>1 DEF OpVerify, Stop
  <2> QED BY <2>1, <2>2
<1>4. CASE OpVerifyFail(s) \/ OpActivateFail(s) \/ OpRouteFail(s) \/ OpCommitReject(s) \/ OpDrainFail(s)
  BY <1>4, <1>1 DEF OpVerifyFail, OpActivateFail, OpRouteFail, OpCommitReject, OpDrainFail,
      OpRollback, OpAbort, Stop
<1>5. CASE OpFinish(s)
  BY <1>5, <1>d, <1>t DEF OpFinish, MarkStep, TunnelRec, Up
<1>6. CASE OpCommit(s) /\ active[s] # None
  <2>1. tun' = [tun EXCEPT ![active[s]].state = "DRAINING",
                           ![active[s]].stat = Moved(@, "DRAINING")]
    BY <1>6 DEF OpCommit
  <2> QED BY <1>6, <2>1, <1>d, <1>t DEF MarkStep, TunnelRec, Up
<1>7. CASE tun' = tun
  BY <1>7, <1>d DEF MarkStep, Up
<1>8. OpReject(s) \/ OpConnectFail(s) \/ OpUnlock(s) \/ OpAdmit(s) \/ OpPrepare(s)
      \/ OpActivate(s) \/ OpRoute(s) \/ (OpCommit(s) /\ active[s] = None) => tun' = tun
  BY DEF OpReject, OpConnectFail, OpUnlock, OpAdmit, OpPrepare, OpActivate, OpRoute, OpCommit
<1> QED
  BY <1>2, <1>3, <1>4, <1>5, <1>6, <1>7, <1>8 DEF Operation

\* Nor does any other step.
LEMMA MarkSteps ==
    ASSUME TypeInv, [Next]_vars, NEW t \in Tunnel
    PROVE  MarkStep(t)
<1>t. tun \in [Tunnel -> TunnelRec]
  BY DEF TypeInv, TypeOK
<1>1. CASE Worker
  BY <1>1, MarkWorker
<1>2. ASSUME NEW s \in Slot, Operation(s) PROVE MarkStep(t)
  BY <1>2, MarkOperation
<1>3. CASE ~Worker
  <2>d. ~DrainRollback
    BY <1>3 DEF Worker
  <2>1. ASSUME NEW u \in Tunnel, TunnelExit(u) \/ Waiter(u) PROVE MarkStep(t)
    BY <2>1, <2>d, <1>t DEF TunnelExit, Waiter, WaiterFail, WaiterDone, MarkStep, TunnelRec, Up
  <2>2. CASE tun' = tun
    BY <2>2, <2>d DEF MarkStep, Up
  <2>3. \/ \E s \in Slot : Operation(s)
        \/ \E u \in Tunnel : TunnelExit(u) \/ Waiter(u)
        \/ tun' = tun
    BY <1>3 DEF Next, vars, Request, CleanStaleNode, Discover
  <2> QED BY <1>2, <2>1, <2>2, <2>3
<1> QED BY <1>1, <1>3

\* A tunnel enters a slot by promotion or by the commit of a switch.
LEMMA SlotTaken ==
    ASSUME TypeInv, [Next]_vars, NEW s \in Slot, active'[s] # active[s], active'[s] # None
    PROVE  \/ FillPromote(s) /\ active'[s] = Head(standby)
           \/ OpCommit(s) /\ active'[s] = op[s].tun
<1>t. active \in [Slot -> Tunnel \cup {None}]
  BY DEF TypeInv, TypeOK
<1>1. ASSUME NEW r \in Slot, Retire(r) PROVE FALSE
  BY <1>1, <1>t DEF Retire
<1>2. CASE DrainRouted
  BY <1>2, <1>t DEF DrainRouted
<1>3. ASSUME NEW r \in Slot, FillPromote(r) PROVE r = s /\ active'[s] = Head(standby)
  BY <1>3, <1>t DEF FillPromote
<1>4. ASSUME NEW r \in Slot, OpCommit(r) PROVE r = s /\ active'[s] = op[s].tun
  BY <1>4, <1>t DEF OpCommit
<1>5. CASE Worker
  <2>1. DrainRouted \/ (\E r \in Slot : Retire(r) \/ FillPromote(r)) \/ active' = active
    BY <1>5 DEF Worker, Tick, Refill, CleanupDone, CleanupKeep, CleanupStop, HealthPass,
      DrainRefused, DrainMark, DrainRollback, HealthDone, FillSkip, FillDrop, FillDone,
      Sync, CapacityReached, CapacityShort, Progress, SelectNone, Select, AdmitDefer,
      AdmitReject, Admit, ConnectFail, Connect, VerifyFail, Verify, BenchFail, Bench,
      CommitReject, Commit, QualifyFail, slotVars
  <2> QED BY <2>1, <1>1, <1>2, <1>3
<1>6. ASSUME NEW r \in Slot, Operation(r) PROVE OpCommit(r) \/ active' = active
  BY <1>6 DEF Operation, OpReject, OpAdmit, OpPrepare, OpConnectFail, OpConnect,
      OpVerifyFail, OpVerify, OpActivateFail, OpActivate, OpRouteFail, OpRoute,
      OpCommitReject, OpDrainFail, OpFinish, OpUnlock, slotVars
<1>7. Worker \/ (\E r \in Slot : Operation(r)) \/ active' = active
  BY DEF Next, vars, Request, TunnelExit, Waiter, WaiterFail, WaiterDone, CleanStaleNode,
      Discover, slotVars
<1> QED BY <1>4, <1>5, <1>6, <1>7

\* Once a drain has begun, only its end moves the worker on.
LEMMA DrainEnds ==
    ASSUME TypeInv, [Next]_vars, wpc = "drain"
    PROVE  DrainRouted \/ DrainRollback \/ UNCHANGED <<wpc, run>>
<1>1. CASE Worker
  BY <1>1 DEF Worker, Tick, Refill, CleanupDone, CleanupKeep, CleanupStop, HealthPass,
      DrainRefused, Retire, DrainMark, HealthDone, FillSkip, FillDrop, FillPromote, FillDone,
      Sync, CapacityReached, CapacityShort, Progress, SelectNone, Select, AdmitDefer,
      AdmitReject, Admit, ConnectFail, Connect, VerifyFail, Verify, BenchFail, Bench,
      CommitReject, Commit, Unhealthy, Promoting, NextToFill
<1>2. ASSUME NEW s \in Slot, Operation(s) PROVE UNCHANGED <<wpc, run>>
  BY <1>2, SwitchSteps DEF Switched
<1>3. Worker \/ (\E s \in Slot : Operation(s)) \/ UNCHANGED <<wpc, run>>
  BY DEF Next, vars, Request, TunnelExit, Waiter, WaiterFail, WaiterDone, CleanStaleNode,
      Discover, workVars
<1> QED BY <1>1, <1>2, <1>3

\* Every step preserves it.
LEMMA StateStep ==
    /\ TypeInv /\ TypeInv' /\ LockInv /\ LockInv' /\ OwnInv /\ OwnInv' /\ LocalsInv /\ LocalsInv'
    /\ StateInv /\ [Next]_vars
    => StateInv'
<1> SUFFICES ASSUME TypeInv, TypeInv', LockInv, LockInv', OwnInv, OwnInv', LocalsInv, LocalsInv',
                    StateInv, [Next]_vars
             PROVE  StateInv'
  OBVIOUS
<1>t. /\ active \in [Slot -> Tunnel \cup {None}] /\ active' \in [Slot -> Tunnel \cup {None}]
      /\ op \in [Slot -> OpRec] /\ op' \in [Slot -> OpRec]
      /\ run \in RunRec /\ draining \in [Slot -> Tunnel \cup {None}] /\ tun \in [Tunnel -> TunnelRec]
  BY DEF TypeInv, TypeOK
<1>m. ASSUME NEW t \in Tunnel, NEW r \in Slot, OpCommit(r), active[r] = t PROVE draining'[r] = t
  BY <1>m, <1>t DEF OpCommit
<1>d. ASSUME NEW r \in Slot, DrainMark(r)
      PROVE  active' = active /\ wpc' = "drain" /\ run'.drain = r
  BY <1>d, <1>t DEF DrainMark, RunRec, slotVars
<1>1. ASSUME NEW s \in Slot, NEW t \in Tunnel, active'[s] = t, tun'[t].proc = "up",
             tun'[t].state # "ACTIVE"
      PROVE  wpc' = "drain" /\ run'.drain = s
  <2>0. t # None
    OBVIOUS
  <2>1. ASSUME NEW r \in Slot, DrainMark(r), active[r] = t PROVE wpc' = "drain" /\ run'.drain = s
    BY <2>0, <2>1, <1>1, <1>d DEF OwnInv, SlotsApart, Differ
  <2>2. ASSUME NEW r \in Slot, OpCommit(r), active[r] = t PROVE FALSE
    BY <2>0, <2>2, <1>1, <1>m DEF OwnInv, SlotsApart, Differ
  <2>3. CASE Up(t) /\ tun[t].state # "ACTIVE" /\ (DrainRollback => active[run.drain] # t)
    <3>1. active[s] = t
      <4>1. CASE FillPromote(s) /\ active'[s] = Head(standby)
        BY <4>1, <1>1, <2>3 DEF FillPromote
      <4>2. CASE OpCommit(s) /\ active'[s] = op[s].tun
        <5>1. Candidate(s) = t
          BY <4>2, <1>1 DEF OpCommit, Committing, Candidate
        <5> QED BY <5>1, <2>0, <2>3 DEF StateInv
      <4> QED BY <4>1, <4>2, <1>1, <2>0, SlotTaken
    <3>2. wpc = "drain" /\ run.drain = s
      BY <3>1, <2>0, <2>3 DEF StateInv
    <3>3. ~DrainRouted
      BY <3>2, <1>1, <1>t, <2>0 DEF DrainRouted
    <3>4. ~DrainRollback
      BY <3>1, <3>2, <2>3
    <3> QED BY <3>2, <3>3, <3>4, DrainEnds
  <2> QED BY <1>1, <2>1, <2>2, <2>3, MarkSteps DEF MarkStep
<1>2. ASSUME NEW s \in Slot, NEW t \in Tunnel, Candidate(s)' = t, tun'[t].proc = "up",
             tun'[t].state # "ACTIVE"
      PROVE  FALSE
  <2>0. t # None
    OBVIOUS
  <2>1. ASSUME NEW r \in Slot, DrainMark(r), active[r] = t PROVE FALSE
    BY <2>0, <2>1, <1>2, <1>d DEF OwnInv, SlotsApart, Differ
  <2>2. ASSUME NEW r \in Slot, OpCommit(r), active[r] = t PROVE FALSE
    BY <2>0, <2>2, <1>2, <1>m DEF OwnInv, SlotsApart, Differ
  <2>3. CASE Up(t) /\ tun[t].state # "ACTIVE"
    <3>1. op'[s].pc \in Connected \ {"finish"} /\ op'[s].tun = t
      BY <1>2, <2>0 DEF Candidate, LocalsInv, SwitchLocals
    <3>2. ASSUME NEW u \in Tunnel, OpConnect(s, u) PROVE FALSE
      <4>1. u = t
        BY <3>1, <3>2, <1>t DEF OpConnect, OpRec
      <4> QED BY <3>2, <4>1, <2>3 DEF OpConnect, StartTunnel, Up
    <3>3. Candidate(s) = t
      BY <3>1, <3>2, SameSwitches DEF SameSwitch, Candidate
    <3> QED BY <2>0, <2>3, <3>3 DEF StateInv
  <2> QED BY <1>2, <2>1, <2>2, <2>3, MarkSteps DEF MarkStep
<1>3. \A s \in Slot : Candidate(s)' \in Tunnel \cup {None}
  BY <1>t DEF Candidate, OpRec
<1> QED BY <1>1, <1>2, <1>3, <1>t DEF StateInv, Up

\* A switch on s that has not reached its cutover.
Preparing(s) == op[s].pc \in Working \ {"route", "commit", "finish"}

\* Nobody touches the live tunnel of a slot whose switch is still preparing.
LEMMA PreparingTunnel ==
    ASSUME TypeInv, LockInv, TodoInv, OwnInv, LocalsInv, [Next]_vars,
           NEW s \in Slot, Preparing(s), NEW t \in Tunnel, active[s] = t, Up(t),
           tun'[t].proc # "exited"
    PROVE  tun'[t] = tun[t]
<1>1. t # None /\ override[s] /\ tun[t].proc # "free"
  BY DEF Preparing, Working, LockInv, LeaseExclusive, Up
<1>2. \A r \in Slot : draining[r] # t /\ Candidate(r) # t /\ (active[r] = t => r = s)
  BY <1>1 DEF OwnInv, SlotsApart, Differ
<1>3. cand.tun # t /\ \A i \in DOMAIN standby : standby[i] # t
  BY <1>1 DEF OwnInv, PoolApart, CandApart, Differ
<1>4. ASSUME NEW r \in Slot, op[r].pc \in Connected, op[r].tun = t PROVE FALSE
  <2>1. CASE op[r].pc = "finish"
    BY <2>1, <1>4, <1>2 DEF LocalsInv, SwitchLocals, Preparing
  <2>2. CASE op[r].pc # "finish"
    BY <2>2, <1>4, <1>2 DEF Candidate
  <2> QED BY <2>1, <2>2
<1>5. \A r \in Slot : op[r].pc = "commit" => active[r] # t
  BY <1>2 DEF Preparing
<1> QED BY <1>1, <1>2, <1>3, <1>4, <1>5, TunnelSteps DEF TunnelStep, MayTouch

\* Its route goes only with the tunnel's process.
LEMMA PreparingRoute ==
    ASSUME TypeInv, LockInv, [Next]_vars,
           NEW s \in Slot, Preparing(s), NEW t \in Tunnel, active[s] = t, slotTable[s] = t
    PROVE  slotTable'[s] = t \/ tun'[t].proc # "up"
<1>t. slotTable \in [Slot -> Tunnel \cup {None, Unreachable}] /\ tun \in [Tunnel -> TunnelRec]
  BY DEF TypeInv, TypeOK
<1>0. t # None /\ override[s]
  BY DEF Preparing, Working, LockInv, LeaseExclusive
<1>s. ASSUME NEW x, NEW st, NEW dt, Stop(x, st, dt), st[s] = t
      PROVE  slotTable'[s] = t \/ tun'[t].proc # "up"
  <2>1. CASE x = t
    BY <1>s, <2>1, <1>t DEF Stop, FreeTunnel
  <2>2. CASE x # t
    BY <1>s, <2>2 DEF Stop, Unrouted
  <2> QED BY <2>1, <2>2
<1>1. ASSUME NEW r \in Slot, NEW b \in BOOLEAN, CleanupStop(r, b)
      PROVE  slotTable'[s] = t \/ tun'[t].proc # "up"
  <2>1. PICK st \in IF b /\ active[r] = None THEN Cleared(slotTable, r) ELSE {slotTable} :
            Stop(draining[r], st, [drainTable EXCEPT ![r] = None])
    BY <1>1 DEF CleanupStop
  <2>2. st[s] = t
    BY <1>0, <1>t, <2>1, ClearedRoutes DEF Tables
  <2> QED BY <2>1, <2>2, <1>s
<1>2. ASSUME NEW r \in Slot, Retire(r) PROVE slotTable'[s] = t \/ tun'[t].proc # "up"
  <2>1. PICK st \in Cleared(slotTable, r) : Stop(active[r], st, drainTable)
    BY <1>2 DEF Retire
  <2>2. r # s
    BY <1>0, <1>2 DEF Retire, Unhealthy
  <2>3. st[s] = t
    BY <1>t, <2>1, <2>2, ClearedRoutes DEF Tables
  <2> QED BY <2>1, <2>3, <1>s
<1>3. ASSUME NEW r \in Slot, FillDrop(r) PROVE slotTable'[s] = t \/ tun'[t].proc # "up"
  <2>1. r # s
    BY <1>0, <1>3 DEF FillDrop, Promoting
  <2>2. /\ slotTable \in Tables
        /\ [slotTable EXCEPT ![r] = Head(standby)] \in Tables
        /\ [slotTable EXCEPT ![r] = Head(standby)][s] = t
    BY <1>3, <2>1, <1>t DEF Tables, FillDrop, Promoting, TypeInv, TypeOK
  <2>3. ASSUME NEW st \in RouteFailures(slotTable, r, Head(standby)) PROVE st[s] = t
    BY <2>1, <2>2, FailedRoutes
  <2>4. ASSUME NEW table \in Tables, table[s] = t, NEW st \in Cleared(table, r) PROVE st[s] = t
    BY <2>1, <2>4 DEF Cleared, Tables
  <2>5. ASSUME NEW st \in Cleared([slotTable EXCEPT ![r] = Head(standby)], r) PROVE st[s] = t
    BY <2>2, <2>4, <2>5
  <2> QED BY <1>3, <2>3, <2>5, <1>s DEF FillDrop
<1>4. ASSUME NEW r \in Slot, FillPromote(r) PROVE slotTable'[s] = t
  BY <1>0, <1>4, <1>t DEF FillPromote, Promoting
<1>5. CASE QualifyFail
  BY <1>5, <1>s DEF QualifyFail
<1>6. CASE slotTable' = slotTable
  BY <1>6
<1>7. CASE Worker
  <2>1. \/ \E r \in Slot, b \in BOOLEAN : CleanupStop(r, b)
        \/ \E r \in Slot : Retire(r) \/ FillDrop(r) \/ FillPromote(r)
        \/ QualifyFail \/ slotTable' = slotTable
    BY <1>7 DEF Worker, Tick, Refill, CleanupDone, CleanupKeep, HealthPass, DrainRefused,
      DrainMark, DrainRouted, DrainRollback, HealthDone, FillSkip, FillDone, Sync,
      CapacityReached, CapacityShort, Progress, SelectNone, Select, AdmitDefer, AdmitReject,
      Admit, ConnectFail, Connect, VerifyFail, Verify, BenchFail, Bench, CommitReject, Commit,
      kernVars
  <2> QED BY <2>1, <1>1, <1>2, <1>3, <1>4, <1>5, <1>6
<1>8. ASSUME NEW r \in Slot, Operation(r) PROVE slotTable'[s] = t \/ tun'[t].proc # "up"
  <2>0. op[r].pc \in Cutover => r # s
    BY DEF Preparing, Cutover
  <2>1. \A y : r # s => [slotTable EXCEPT ![r] = y][s] = t
    BY <1>t
  <2>2. CASE OpVerifyFail(r) \/ OpActivateFail(r)
    BY <2>2, <1>s DEF OpVerifyFail, OpActivateFail, OpAbort
  <2>3. CASE OpRouteFail(r) \/ OpCommitReject(r)
    <3>1. r # s /\ OpRollback(r)
      BY <2>3, <2>0 DEF OpRouteFail, OpCommitReject, Cutover
    <3>2. ASSUME NEW st \in RouteFailures(slotTable, r, op[r].cur) PROVE st[s] = t
      BY <1>t, <3>1, FailedRoutes DEF Tables
    <3>3. ASSUME NEW st \in Cleared(slotTable, r) PROVE st[s] = t
      BY <1>t, <3>1, ClearedRoutes DEF Tables
    <3> QED BY <2>1, <3>1, <3>2, <3>3, <1>s DEF OpRollback, OpAbort
  <2>4. CASE OpDrainFail(r)
    <3>1. r # s
      BY <2>4, <2>0 DEF OpDrainFail, Committing, Cutover
    <3>2. ASSUME NEW st \in RouteFailures(slotTable, r, active[r]) PROVE st[s] = t
      BY <1>t, <3>1, FailedRoutes DEF Tables
    <3> QED BY <2>1, <2>4, <3>1, <3>2, <1>s DEF OpDrainFail, OpAbort
  <2>5. CASE OpRoute(r)
    BY <2>5, <2>0, <2>1 DEF OpRoute, Cutover
  <2>6. ASSUME NEW p \in Prefix, OpVerify(r, p)
        PROVE  slotTable'[s] = t \/ tun'[t].proc # "up"
    BY <2>6, <1>s DEF OpVerify, kernVars
  <2> QED
    BY <1>6, <1>8, <2>2, <2>3, <2>4, <2>5, <2>6 DEF Operation, OpReject, OpAdmit, OpPrepare,
        OpConnectFail, OpConnect, OpActivate, OpCommit, OpFinish, OpUnlock, kernVars
<1>9. ASSUME NEW u \in Tunnel, TunnelExit(u) PROVE slotTable'[s] = t \/ tun'[t].proc # "up"
  BY <1>9, <1>t DEF TunnelExit, Unrouted, TunnelRec
<1>10. \/ Worker \/ (\E r \in Slot : Operation(r))
       \/ (\E u \in Tunnel : TunnelExit(u)) \/ slotTable' = slotTable
  BY DEF Next, vars, Request, Waiter, WaiterFail, WaiterDone, CleanStaleNode, Discover, kernVars
<1> QED BY <1>6, <1>7, <1>8, <1>9, <1>10

\* Xray keeps the slot: the worker's synchronisation finds its tunnel live.
LEMMA PreparingBalanced ==
    ASSUME TypeInv, LockInv, StateInv, [Next]_vars,
           NEW s \in Slot, Preparing(s), NEW t \in Tunnel, active[s] = t, Up(t), s \in xact
    PROVE  s \in xact'
<1>0. t # None /\ override[s]
  BY DEF Preparing, Working, LockInv, LeaseExclusive
<1>1. CASE Sync
  <2>1. tun[t].state = "ACTIVE"
    BY <1>0, <1>1 DEF Sync, StateInv
  <2>2. s \in LiveSlots
    BY <1>0, <2>1 DEF LiveSlots, Occupied, Exited, Up
  <2> QED BY <1>1, <2>2 DEF Sync
<1>2. ASSUME NEW r \in Slot, Retire(r) \/ DrainMark(r) PROVE s \in xact'
  BY <1>0, <1>2 DEF Retire, DrainMark, Unhealthy, DrainingSlot
<1>3. CASE xact \subseteq xact'
  BY <1>3
<1>4. CASE Worker
  <2>1. Sync \/ (\E r \in Slot : Retire(r) \/ DrainMark(r)) \/ xact \subseteq xact'
    BY <1>4 DEF Worker, Tick, Refill, CleanupDone, CleanupKeep, CleanupStop, HealthPass,
      DrainRefused, DrainRouted, DrainRollback, ActivateSlot, HealthDone, FillSkip, FillDrop,
      FillPromote, FillDone, CapacityReached, CapacityShort, Progress, SelectNone, Select,
      AdmitDefer, AdmitReject, Admit, ConnectFail, Connect, VerifyFail, Verify, BenchFail,
      Bench, CommitReject, Commit, QualifyFail
  <2> QED BY <2>1, <1>1, <1>2, <1>3
<1>5. ASSUME NEW r \in Slot, Operation(r) PROVE s \in xact'
  <2>1. CASE OpRouteFail(r) \/ OpCommitReject(r)
    BY <2>1 DEF OpRouteFail, OpCommitReject, OpRollback, DrainingSlot, Preparing
  <2> QED
    BY <1>3, <1>5, <2>1 DEF Operation, OpReject, OpAdmit, OpPrepare, OpConnectFail, OpConnect,
        OpVerifyFail, OpVerify, OpActivateFail, OpActivate, ActivateSlot, OpRoute, OpCommit,
        OpDrainFail, OpFinish, OpUnlock
<1>6. Worker \/ (\E r \in Slot : Operation(r)) \/ xact' = xact
  BY DEF Next, vars, Request, TunnelExit, Waiter, WaiterFail, WaiterDone, CleanStaleNode,
      Discover
<1> QED BY <1>3, <1>4, <1>5, <1>6

\* The slot keeps it.
LEMMA PreparingSlot ==
    ASSUME TypeInv, LockInv, [Next]_vars, NEW s \in Slot, Preparing(s)
    PROVE  active'[s] = active[s]
<1>0. override[s]
  BY DEF Preparing, Working, LockInv, LeaseExclusive
<1>1. CASE Worker
  BY <1>0, <1>1, WorkerSlots DEF WorkerRespects
<1>2. ASSUME NEW r \in Slot, Operation(r) PROVE active'[s] = active[s]
  BY <1>2, SwitchSteps DEF Switched, Preparing
<1>3. Worker \/ (\E r \in Slot : Operation(r)) \/ active' = active
  BY DEF Next, vars, Request, TunnelExit, Waiter, WaiterFail, WaiterDone, CleanStaleNode,
      Discover, slotVars
<1> QED BY <1>1, <1>2, <1>3

\* The GUARANTEE of executeManualSwitch: until its cutover nothing but the death of
\* its own process takes the old tunnel from its slot, changes it, drops its route
\* or takes the slot from Xray, whatever the worker and the other switches do.
THEOREM SwitchNonDestructive == Spec => NonDestructiveSwitch
<1> DEFINE Harmless ==
      \A s \in Slot :
        LET t == active[s] IN
        /\ op[s].pc \in Working \ {"route", "commit", "finish"}
        /\ t # None /\ Up(t) /\ tun'[t].proc # "exited"
        => /\ active'[s] = t
           /\ tun'[t] = tun[t]
           /\ slotTable[s] = t => slotTable'[s] = t
           /\ s \in xact => s \in xact'
<1>1. TypeInv /\ LockInv /\ TodoInv /\ OwnInv /\ LocalsInv /\ StateInv /\ [Next]_vars
      => [Harmless]_vars
  <2> SUFFICES ASSUME TypeInv, LockInv, TodoInv, OwnInv, LocalsInv, StateInv, [Next]_vars
               PROVE  Harmless
    OBVIOUS
  <2>1. ASSUME NEW s \in Slot, Preparing(s), NEW t \in Tunnel, active[s] = t,
               Up(t), tun'[t].proc # "exited"
        PROVE  /\ active'[s] = t
               /\ tun'[t] = tun[t]
               /\ slotTable[s] = t => slotTable'[s] = t
               /\ s \in xact => s \in xact'
    <3>1. active'[s] = t /\ tun'[t] = tun[t]
      BY <2>1, PreparingSlot, PreparingTunnel
    <3>2. slotTable[s] = t => slotTable'[s] = t
      BY <2>1, <3>1, PreparingRoute DEF Up
    <3>3. s \in xact => s \in xact'
      BY <2>1, PreparingBalanced
    <3> QED BY <3>1, <3>2, <3>3
  <2>2. \A s \in Slot : active[s] \in Tunnel \cup {None}
    BY DEF TypeInv, TypeOK
  <2> QED BY <2>1, <2>2 DEF Preparing
<1> QED
  BY TypeInit, TypeStep, LockInit, LockStep, TodoInit, TodoStep, OwnInit, OwnStep,
     LocalsInit, LocalsStep, StateInit, StateStep, <1>1, PTL DEF Spec, NonDestructiveSwitch
------------------------------------------------------------------------------
(* How a tunnel can be lost *)

\* A tunnel nobody can stop any more: the code's only leak (see NoOrphan).
Orphan(t) == tun[t].proc # "free" /\ Owners(t) = {}

\* transitionToDrainingLocked: DrainingSlots[slot] is assigned although it holds t.
Overwritten(t) == \E s \in Slot : draining[s] = t /\ draining'[s] \notin {t, None}

\* A tunnel gets lost in no other way than by being overwritten in the draining
\* map: every other step that gives up a tunnel stops it or hands it over, and
\* whoever starts one owns it.
OrphansOverwritten == [][\A t \in Tunnel : Orphan(t)' => Orphan(t) \/ Overwritten(t)]_vars

\* A step leaves t with an owner if it had one or is new, unless it is stopped.
Tracked(t) ==
    tun'[t].proc # "free" /\ (tun[t].proc = "free" \/ Owned(t)) => Owned(t)' \/ Overwritten(t)

\* Every place that holds t goes on holding it.
Held(t) ==
    /\ \A s \in Slot : /\ active[s] = t => active'[s] = t
                       /\ draining[s] = t => draining'[s] = t
                       /\ Candidate(s) = t => Candidate(s)' = t
    /\ \A i \in DOMAIN standby : standby[i] = t => \E j \in DOMAIN standby' : standby'[j] = t
    /\ cand.tun = t => cand'.tun = t

\* Then it is tracked.
LEMMA HeldTracked ==
    ASSUME NEW t \in Tunnel, Held(t), tun[t].proc = "free" => tun'[t].proc = "free"
    PROVE  Tracked(t)
BY DEF Held, Tracked, Owned

\* So is every tunnel when one is stopped and the places of the others keep them.
LEMMA StoppedTracked ==
    ASSUME tun \in [Tunnel -> TunnelRec], NEW x, tun' = [tun EXCEPT ![x] = FreeTunnel],
           NEW t \in Tunnel, t # x => Held(t)
    PROVE  Tracked(t)
<1>1. CASE t = x
  BY <1>1 DEF Tracked, FreeTunnel
<1>2. CASE t # x
  BY <1>2, HeldTracked
<1> QED BY <1>1, <1>2

\* The worker has no tunnel in hand before Connect and after the commit.
IdleCand == wpc \notin Started => cand.tun = None

\* It holds initially.
LEMMA IdleCandInit == Init => IdleCand
BY DEF Init, IdleCand, NoCand

\* Every step preserves it.
LEMMA IdleCandStep == TypeInv /\ IdleCand /\ [Next]_vars => IdleCand'
<1> SUFFICES ASSUME TypeInv, IdleCand, [Next]_vars PROVE IdleCand'
  OBVIOUS
<1>t. cand \in CandRec
  BY DEF TypeInv, TypeOK
<1>1. CASE cand' = NoCand
  BY <1>1 DEF IdleCand, NoCand
<1>2. CASE cand' = cand /\ (wpc' = wpc \/ wpc \notin Started)
  BY <1>2 DEF IdleCand
<1>3. ASSUME NEW n \in Node, Select(n) PROVE IdleCand'
  BY <1>3 DEF Select, IdleCand, NoCand
<1>4. ASSUME NEW t \in Tunnel, Connect(t) PROVE IdleCand'
  BY <1>4 DEF Connect, IdleCand, Started
<1>5. ASSUME NEW p \in Prefix, Verify(p) PROVE IdleCand'
  BY <1>5 DEF Verify, IdleCand, Started
<1>6. CASE Bench
  BY <1>6 DEF Bench, IdleCand, Started
<1>7. CASE Admit
  BY <1>7, <1>t DEF Admit, IdleCand, Started, CandRec
<1>8. CASE Worker
  <2>1. ASSUME NEW s \in Slot, NEW b \in BOOLEAN,
               CleanupKeep(s) \/ CleanupStop(s, b) \/ HealthPass(s) \/ DrainRefused(s) \/ Retire(s)
        PROVE  cand' = cand /\ wpc \notin Started
    BY <2>1 DEF CleanupKeep, CleanupStop, HealthPass, DrainRefused, Retire, Unhealthy, Started
  <2>2. ASSUME NEW s \in Slot, DrainMark(s) \/ FillSkip(s) \/ FillDrop(s) \/ FillPromote(s)
        PROVE  cand' = cand /\ wpc \notin Started
    BY <2>2 DEF DrainMark, Unhealthy, FillSkip, FillDrop, FillPromote, Promoting, NextToFill, Started
  <2>3. CASE Tick \/ Refill \/ CleanupDone \/ DrainRouted \/ DrainRollback \/ HealthDone
    BY <2>3, <1>2 DEF Tick, Refill, CleanupDone, DrainRouted, DrainRollback, HealthDone, Started
  <2>4. CASE FillDone \/ Sync \/ CapacityReached \/ CapacityShort \/ Progress
    BY <2>4, <1>2 DEF FillDone, Sync, CapacityReached, CapacityShort, Progress, Started
  <2>5. CASE SelectNone \/ AdmitDefer \/ AdmitReject \/ ConnectFail \/ Commit \/ VerifyFail
             \/ BenchFail \/ CommitReject
    BY <2>5, <1>1 DEF SelectNone, AdmitDefer, AdmitReject, ConnectFail, Commit, VerifyFail,
        BenchFail, CommitReject, QualifyFail, Leave
  <2> QED BY <1>8, <2>1, <2>2, <2>3, <2>4, <2>5, <1>2, <1>3, <1>4, <1>5, <1>6, <1>7 DEF Worker
<1>9. ASSUME NEW s \in Slot, Operation(s) PROVE IdleCand'
  <2>1. UNCHANGED <<cand, wpc>>
    BY <1>9 DEF Operation, OpReject, OpAdmit, OpPrepare, OpConnectFail, OpConnect,
      OpVerifyFail, OpVerify, OpActivateFail, OpActivate, OpRouteFail, OpRoute,
      OpCommitReject, OpCommit, OpDrainFail, OpFinish, OpUnlock, workVars
  <2> QED BY <2>1, <1>2
<1>10. \/ Worker \/ (\E s \in Slot : Operation(s)) \/ UNCHANGED <<cand, wpc>>
  BY DEF Next, vars, Request, TunnelExit, Waiter, WaiterFail, WaiterDone, CleanStaleNode,
      Discover, workVars
<1> QED BY <1>2, <1>8, <1>9, <1>10

\* All but the first element of a sequence are in its tail.
LEMMA TailKeeps ==
    ASSUME NEW S, NEW q \in Seq(S), q # <<>>, NEW i \in DOMAIN q, i # 1
    PROVE  i - 1 \in DOMAIN Tail(q) /\ Tail(q)[i - 1] = q[i]
  OBVIOUS

\* Every element stays where it is when one is appended, which comes last.
LEMMA AppendKeeps ==
    ASSUME NEW S, NEW q \in Seq(S), NEW x \in S
    PROVE  /\ \A i \in DOMAIN q : i \in DOMAIN Append(q, x) /\ Append(q, x)[i] = q[i]
           /\ Len(q) + 1 \in DOMAIN Append(q, x) /\ Append(q, x)[Len(q) + 1] = x
  OBVIOUS

\* The worker hands every tunnel over, stops it, or overwrites it in the draining map.
LEMMA TrackWorker ==
    ASSUME TypeInv, TodoInv, IdleCand, Worker, NEW t \in Tunnel
    PROVE  Tracked(t)
<1>t. /\ active \in [Slot -> Tunnel \cup {None}] /\ draining \in [Slot -> Tunnel \cup {None}]
      /\ tun \in [Tunnel -> TunnelRec] /\ cand \in CandRec /\ standby \in Seq(Tunnel)
  BY DEF TypeInv, TypeOK
<1>o. \A s \in Slot : Candidate(s)' = Candidate(s)
  BY WorkerFrame DEF Candidate
<1>n. t # None
  OBVIOUS
<1>1. ASSUME NEW s \in Slot, NEW b \in BOOLEAN, CleanupStop(s, b) PROVE Tracked(t)
  <2>1. t # draining[s] => Held(t)
    BY <1>1, <1>t, <1>o DEF CleanupStop, Held
  <2> QED BY <1>1, <1>t, <2>1, StoppedTracked DEF CleanupStop, Stop
<1>2. ASSUME NEW s \in Slot, Retire(s) PROVE Tracked(t)
  <2>1. t # active[s] => Held(t)
    BY <1>2, <1>t, <1>o DEF Retire, Held
  <2> QED BY <1>2, <1>t, <2>1, StoppedTracked DEF Retire, Stop
<1>3. ASSUME NEW s \in Slot, FillDrop(s) PROVE Tracked(t)
  <2>1. standby # <<>> /\ standby' = Tail(standby) /\ UNCHANGED <<active, draining, cand>>
    BY <1>3 DEF FillDrop, Promoting
  <2>2. ASSUME t # Head(standby), NEW i \in DOMAIN standby, standby[i] = t
        PROVE  \E j \in DOMAIN standby' : standby'[j] = t
    <3>1. i # 1
      BY <1>t, <2>1, <2>2
    <3> QED BY <1>t, <2>1, <2>2, <3>1, TailKeeps
  <2>3. t # Head(standby) => Held(t)
    BY <2>1, <2>2, <1>o DEF Held
  <2>4. tun' = [tun EXCEPT ![Head(standby)] = FreeTunnel]
    BY <1>3 DEF FillDrop, Stop
  <2> QED BY <1>t, <2>3, <2>4, StoppedTracked
<1>4. CASE QualifyFail
  <2>1. t # cand.tun => Held(t)
    BY <1>4, <1>o DEF QualifyFail, Held, slotVars
  <2> QED BY <1>4, <1>t, <2>1, StoppedTracked DEF QualifyFail, Stop
<1>5. ASSUME NEW s \in Slot, FillPromote(s) PROVE Tracked(t)
  <2>1. /\ standby # <<>> /\ standby' = Tail(standby) /\ UNCHANGED <<draining, cand>>
        /\ active[s] = None /\ active' = [active EXCEPT ![s] = Head(standby)]
    BY <1>5 DEF FillPromote, Promoting
  <2>2. tun'[t].proc = tun[t].proc
    BY <1>5, <1>t, ProcKept DEF FillPromote
  <2>3. ASSUME NEW i \in DOMAIN standby, standby[i] = t
        PROVE  Owned(t)'
    <3>1. CASE i = 1
      BY <1>t, <2>1, <2>3, <3>1 DEF Owned
    <3>2. CASE i # 1
      BY <1>t, <2>1, <2>3, <3>2, TailKeeps DEF Owned
    <3> QED BY <3>1, <3>2
  <2>4. ASSUME NEW r \in Slot, active[r] = t PROVE active'[r] = t
    BY <2>1, <2>4, <1>t, <1>n
  <2> QED BY <2>1, <2>2, <2>3, <2>4, <1>o DEF Tracked, Owned
<1>6. ASSUME NEW u \in Tunnel, Connect(u) PROVE Tracked(t)
  <2>1. /\ UNCHANGED <<active, draining, standby>> /\ cand'.tun = u /\ cand.tun = None
        /\ \A v \in Tunnel \ {u} : tun'[v] = tun[v]
    BY <1>6, <1>t DEF Connect, StartTunnel, slotVars, CandRec, IdleCand, Started
  <2>2. CASE t = u
    BY <2>1, <2>2 DEF Tracked, Owned
  <2>3. CASE t # u
    BY <2>1, <2>3, <1>o, <1>n, HeldTracked DEF Held
  <2> QED BY <2>2, <2>3
<1>7. CASE DrainRouted
  <2> DEFINE s == run.drain
  <2>1. s \in Slot /\ active[s] \in Tunnel
    BY <1>7, <1>t DEF TypeInv, LocalsTyped, DrainRouted, TodoInv
  <2>2. /\ active' = [active EXCEPT ![s] = None] /\ draining' = [draining EXCEPT ![s] = active[s]]
        /\ UNCHANGED <<standby, cand>>
    BY <1>7 DEF DrainRouted
  <2>3. tun'[t].proc = tun[t].proc
    BY <1>7, <1>t, ProcKept DEF DrainRouted
  <2>4. active[s] # None
    BY <2>1
  <2> HIDE DEF s
  <2>5. ASSUME NEW r \in Slot, active[r] = t \/ draining[r] = t PROVE Owned(t)' \/ Overwritten(t)
    <3>1. CASE r # s
      BY <3>1, <2>2, <2>5, <1>t DEF Owned
    <3>2. CASE r = s /\ active[s] = t
      BY <3>2, <2>1, <2>2, <1>t DEF Owned
    <3>3. CASE r = s /\ active[s] # t
      BY <3>3, <2>2, <2>4, <2>5, <1>t DEF Overwritten
    <3> QED BY <3>1, <3>2, <3>3
  <2> QED BY <2>2, <2>3, <2>5, <1>o DEF Tracked, Owned
<1>8. CASE Commit
  <2>1. /\ UNCHANGED <<active, draining>> /\ cand.tun \in Tunnel
        /\ standby' = Append(standby, cand.tun)
    BY <1>8 DEF Commit, TypeInv, LocalsTyped
  <2>2. tun'[t].proc = tun[t].proc
    BY <1>8, <1>t, ProcKept DEF Commit
  <2>3. ASSUME cand.tun = t \/ \E i \in DOMAIN standby : standby[i] = t
        PROVE  \E j \in DOMAIN standby' : standby'[j] = t
    BY <1>t, <2>1, <2>3, AppendKeeps
  <2> QED BY <2>1, <2>2, <2>3, <1>o DEF Tracked, Owned
<1>9. CASE /\ UNCHANGED <<active, draining, standby>> /\ cand'.tun \in {cand.tun, None}
           /\ cand.tun = t => cand'.tun = t
           /\ tun'[t].proc = tun[t].proc
  BY <1>9, <1>o, HeldTracked DEF Held
<1>10. ASSUME NEW s \in Slot, DrainMark(s) PROVE Tracked(t)
  BY <1>10, <1>t, <1>9, ProcKept DEF DrainMark, slotVars
<1>11. CASE DrainRollback
  BY <1>11, <1>t, <1>9, ProcKept DEF DrainRollback, slotVars
<1>12. ASSUME NEW p \in Prefix, Verify(p) PROVE Tracked(t)
  BY <1>12, <1>t, <1>9, ProcKeptTwo DEF Verify, CandRec, slotVars
<1>13. CASE Bench
  BY <1>13, <1>t, <1>9, ProcKept DEF Bench, CandRec, slotVars
<1>14. CASE Admit
  BY <1>14, <1>t, <1>9 DEF Admit, CandRec, slotVars
<1>15. CASE UNCHANGED <<tun, active, draining, standby>> /\ (cand' = cand \/ wpc \notin Started)
            /\ cand'.tun \in {cand.tun, None}
  BY <1>15, <1>9, <1>n DEF IdleCand
<1>16. ASSUME NEW n \in Node, Select(n) PROVE Tracked(t)
  BY <1>16, <1>15 DEF Select, NoCand, Started, slotVars
<1>17. CASE SelectNone \/ AdmitDefer \/ AdmitReject \/ ConnectFail
  BY <1>17, <1>15 DEF SelectNone, AdmitDefer, AdmitReject, ConnectFail, Leave, NoCand, Started,
      slotVars
<1>18. \/ \E s \in Slot, b \in BOOLEAN : CleanupStop(s, b)
       \/ \E s \in Slot : Retire(s) \/ FillDrop(s) \/ FillPromote(s) \/ DrainMark(s)
       \/ \E u \in Tunnel : Connect(u)
       \/ \E p \in Prefix : Verify(p)
       \/ \E n \in Node : Select(n)
       \/ QualifyFail \/ DrainRouted \/ DrainRollback \/ Admit \/ Bench \/ Commit
       \/ SelectNone \/ AdmitDefer \/ AdmitReject \/ ConnectFail
       \/ UNCHANGED <<tun, active, draining, standby, cand>>
  BY DEF Worker, Tick, Refill, CleanupDone, CleanupKeep, HealthPass,
      DrainRefused, HealthDone, FillSkip, FillDone, Sync, CapacityReached, CapacityShort,
      Progress, VerifyFail, BenchFail, CommitReject, slotVars
<1> QED BY <1>1, <1>2, <1>3, <1>4, <1>5, <1>6, <1>7, <1>8, <1>10, <1>11, <1>12, <1>13, <1>14,
           <1>15, <1>16, <1>17, <1>18

\* A switch that gives up stops the only tunnel it lets go.
LEMMA TrackAbort ==
    ASSUME TypeInv, NEW s \in Slot, op[s].pc \in Connected \ {"finish"},
           tun' = [tun EXCEPT ![op[s].tun] = FreeTunnel], OpEnd(s),
           UNCHANGED <<active, draining, standby, cand>>, NEW t \in Tunnel
    PROVE  Tracked(t)
<1>1. op \in [Slot -> OpRec] /\ tun \in [Tunnel -> TunnelRec]
  BY DEF TypeInv, TypeOK
<1>2. t # op[s].tun => Held(t)
  BY <1>1 DEF OpEnd, IdleOp, Candidate, Held
<1> QED BY <1>1, <1>2, StoppedTracked

\* A switch hands every tunnel over or stops it; its commit refuses to overwrite
\* a draining tunnel.
LEMMA TrackOperation ==
    ASSUME TypeInv, LockInv, SwitchLocals, NEW s \in Slot, Operation(s), NEW t \in Tunnel
    PROVE  Tracked(t)
<1>t. /\ op \in [Slot -> OpRec] /\ tun \in [Tunnel -> TunnelRec]
      /\ active \in [Slot -> Tunnel \cup {None}] /\ draining \in [Slot -> Tunnel \cup {None}]
  BY DEF TypeInv, TypeOK
<1>n. t # None
  OBVIOUS
<1>1. ASSUME NEW u \in Tunnel, OpConnect(s, u) PROVE Tracked(t)
  <2>1. /\ UNCHANGED <<active, draining, standby, cand>>
        /\ \A v \in Tunnel \ {u} : tun'[v] = tun[v]
    BY <1>1, <1>t DEF OpConnect, StartTunnel, slotVars, workVars
  <2>2. /\ Candidate(s)' = u /\ Candidate(s) = None
        /\ \A r \in Slot \ {s} : Candidate(r)' = Candidate(r)
    BY <1>1, <1>t DEF OpConnect, Candidate, OpRec, SwitchLocals, Connected
  <2>3. CASE t = u
    BY <2>2, <2>3 DEF Tracked, Owned
  <2>4. CASE t # u
    BY <2>1, <2>2, <2>4, <1>n, HeldTracked DEF Held
  <2> QED BY <2>3, <2>4
<1>2. CASE /\ UNCHANGED <<active, draining, standby, cand>> /\ tun'[t].proc = tun[t].proc
           /\ \A r \in Slot : Candidate(r)' = Candidate(r)
  BY <1>2, HeldTracked DEF Held
<1>3. ASSUME NEW p \in Prefix, OpVerify(s, p) PROVE Tracked(t)
  <2>1. CASE ValidateLease(s)
    <3>1. tun'[t].proc = tun[t].proc
      <4>1. tun' = [tun EXCEPT ![op[s].tun].exit = p, ![op[s].tun].stat = Moved(@, "QUALIFIED")]
        BY <1>3, <2>1 DEF OpVerify
      <4> QED BY <1>t, <4>1 DEF TunnelRec
    <3>2. \A r \in Slot : Candidate(r)' = Candidate(r)
      BY <1>3, <2>1, <1>t DEF OpVerify, Candidate, OpRec
    <3> QED BY <1>2, <1>3, <3>1, <3>2 DEF OpVerify, slotVars, workVars
  <2>2. CASE ~ValidateLease(s)
    BY <1>3, <2>2, TrackAbort DEF OpVerify, Stop, Connected, slotVars, workVars
  <2> QED BY <2>1, <2>2
<1>4. CASE OpVerifyFail(s) \/ OpActivateFail(s)
  BY <1>4, TrackAbort DEF OpVerifyFail, OpActivateFail, OpAbort, Stop, Connected, slotVars, workVars
<1>5. CASE OpRouteFail(s) \/ OpCommitReject(s)
  BY <1>5, TrackAbort DEF OpRouteFail, OpCommitReject, OpRollback, OpAbort, Stop, Connected,
      slotVars, workVars
<1>6. CASE OpDrainFail(s)
  BY <1>6, TrackAbort DEF OpDrainFail, Committing, OpAbort, Stop, Connected, slotVars, workVars
<1>7. CASE OpFinish(s)
  <2>1. tun'[t].proc = tun[t].proc
    BY <1>7, <1>t, ProcKept DEF OpFinish
  <2>2. \A r \in Slot : Candidate(r)' = Candidate(r)
    BY <1>7, <1>t DEF OpFinish, OpEnd, IdleOp, Candidate
  <2> QED BY <1>2, <1>7, <2>1, <2>2 DEF OpFinish, slotVars, workVars
<1>8. CASE OpReject(s) \/ OpConnectFail(s) \/ OpUnlock(s)
  <2>1. \A r \in Slot : Candidate(r)' = Candidate(r)
    BY <1>8, <1>t DEF OpReject, OpConnectFail, OpUnlock, OpEnd, IdleOp, Candidate, SwitchLocals,
        Connected
  <2> QED BY <1>2, <1>8, <2>1 DEF OpReject, OpConnectFail, OpUnlock, slotVars, workVars
<1>9. CASE OpAdmit(s) \/ OpPrepare(s) \/ OpActivate(s) \/ OpRoute(s)
  <2>1. CASE OpEnd(s) /\ op[s].pc = "prepare"
    <3>1. \A r \in Slot : Candidate(r)' = Candidate(r)
      BY <2>1, <1>t DEF OpEnd, IdleOp, Candidate, SwitchLocals, Connected
    <3> QED BY <1>2, <1>9, <3>1 DEF OpAdmit, OpPrepare, OpActivate, OpRoute, slotVars, workVars
  <2>2. CASE ~(OpEnd(s) /\ op[s].pc = "prepare")
    <3>1. /\ op[s].pc # "finish" /\ op'[s].pc # "finish" /\ op'[s].tun = op[s].tun
          /\ \A r \in Slot \ {s} : op'[r] = op[r]
      BY <1>9, <2>2, <1>t DEF OpAdmit, OpPrepare, OpActivate, OpRoute, OpRec
    <3>2. \A r \in Slot : Candidate(r)' = Candidate(r)
      BY <3>1 DEF Candidate
    <3> QED BY <1>2, <1>9, <3>2 DEF OpAdmit, OpPrepare, OpActivate, OpRoute, slotVars, workVars
  <2> QED BY <2>1, <2>2
<1>10. CASE OpCommit(s)
  <2> DEFINE new == op[s].tun
             old == active[s]
  <2>1. op[s].pc = "commit" /\ new \in Tunnel
    BY <1>10, <1>t DEF OpCommit, Committing, LockInv, SwitchConnected, Connected
  <2>2. /\ \A r \in Slot \ {s} : Candidate(r)' = Candidate(r) /\ Candidate(s) = new
        /\ active' = [active EXCEPT ![s] = new] /\ UNCHANGED <<standby, cand>>
    BY <1>10, <1>t, <2>1 DEF OpCommit, Candidate, OpRec, workVars
  <2>3. /\ \A r \in Slot : draining[r] = t => draining'[r] = t
        /\ old = t => draining'[s] = t
    BY <1>10, <1>t, <1>n DEF OpCommit
  <2>4. tun'[t].proc = tun[t].proc
    <3>1. CASE old = None
      BY <1>10, <3>1 DEF OpCommit
    <3>2. CASE old # None
      <4>1. tun' = [tun EXCEPT ![old].state = "DRAINING", ![old].stat = Moved(@, "DRAINING")]
        BY <1>10, <3>2 DEF OpCommit
      <4> QED BY <1>t, <4>1 DEF TunnelRec
    <3> QED BY <3>1, <3>2
  <2>5. ASSUME NEW r \in Slot, active[r] = t \/ draining[r] = t \/ Candidate(r) = t
        PROVE  Owned(t)'
    <3>1. CASE draining[r] = t
      BY <3>1, <2>3 DEF Owned
    <3>2. CASE active[r] = t
      BY <3>2, <2>2, <2>3, <1>t DEF Owned
    <3>3. CASE Candidate(r) = t /\ r # s
      BY <3>3, <2>2 DEF Owned
    <3>4. CASE Candidate(r) = t /\ r = s
      <4>1. new = t
        BY <3>4, <2>1 DEF Candidate
      <4> QED BY <3>4, <4>1, <2>2, <1>t DEF Owned
    <3> QED BY <2>5, <3>1, <3>2, <3>3, <3>4
  <2> QED BY <2>2, <2>4, <2>5 DEF Tracked, Owned
<1> QED
  BY <1>1, <1>3, <1>4, <1>5, <1>6, <1>7, <1>8, <1>9, <1>10 DEF Operation

\* So does every other step.
LEMMA TrackStep ==
    ASSUME TypeInv, LockInv, TodoInv, SwitchLocals, IdleCand, [Next]_vars, NEW t \in Tunnel
    PROVE  Tracked(t)
<1>t. op \in [Slot -> OpRec] /\ tun \in [Tunnel -> TunnelRec]
  BY DEF TypeInv, TypeOK
<1>1. CASE /\ UNCHANGED <<active, draining, standby, cand>>
           /\ tun[t].proc = "free" => tun'[t].proc = "free"
           /\ \A r \in Slot : Candidate(r)' = Candidate(r)
  BY <1>1, HeldTracked DEF Held
<1>2. ASSUME NEW u \in Tunnel, TunnelExit(u) \/ Waiter(u) PROVE Tracked(t)
  BY <1>1, <1>2, <1>t DEF TunnelExit, Waiter, WaiterFail, WaiterDone, Up, TunnelRec, Candidate,
      slotVars, workVars
<1>3. ASSUME NEW s \in Slot, NEW n \in Node, Request(s, n) PROVE Tracked(t)
  BY <1>1, <1>3, <1>t DEF Request, IdleOp, Candidate, SwitchLocals, Connected, slotVars, workVars
<1>4. CASE UNCHANGED <<active, draining, standby, op, cand, tun>>
  BY <1>1, <1>4 DEF Candidate
<1>5. \/ Worker \/ (\E s \in Slot : Operation(s))
      \/ \E u \in Tunnel : TunnelExit(u) \/ Waiter(u)
      \/ \E s \in Slot, n \in Node : Request(s, n)
      \/ UNCHANGED <<active, draining, standby, op, cand, tun>>
  BY DEF Next, vars, CleanStaleNode, Discover, slotVars, workVars
<1> QED BY <1>2, <1>3, <1>4, <1>5, TrackWorker, TrackOperation

\* The places are those NoOrphan counts.
OwnersAgree == \A t \in Tunnel : Owned(t) <=> Owners(t) # {}

\* They always are.
LEMMA OwnedOwners == OwnersAgree
<1> SUFFICES ASSUME NEW t \in Tunnel PROVE Owned(t) <=> Owners(t) # {}
  BY DEF OwnersAgree
<1>1. /\ \A s \in Slot : active[s] = t => <<"active", s>> \in Owners(t)
      /\ \A s \in Slot : draining[s] = t => <<"draining", s>> \in Owners(t)
  BY DEF Owners
<1>2. /\ \A s \in Slot : op[s].tun = t /\ op[s].pc # "finish" => <<"op", s>> \in Owners(t)
      /\ \A i \in DOMAIN standby : standby[i] = t => <<"standby", i>> \in Owners(t)
      /\ cand.tun = t => <<"worker", 0>> \in Owners(t)
  BY DEF Owners
<1>3. \A s \in Slot : Candidate(s) = t => op[s].tun = t /\ op[s].pc # "finish"
  BY DEF Candidate
<1>4. Owned(t) => Owners(t) # {}
  BY <1>1, <1>2, <1>3 DEF Owned
<1>5. ASSUME Owners(t) # {} PROVE Owned(t)
  BY <1>5 DEF Owners, Owned, Candidate
<1> QED BY <1>4, <1>5

\* The complement of the leak that NoOrphan shows: whatever fails, dies or races,
\* a running tunnel loses its last owner only by being overwritten in the
\* draining map.
THEOREM OrphansExplained == Spec => OrphansOverwritten
<1> DEFINE Inv == TypeInv /\ LockInv /\ TodoInv /\ OwnInv /\ LocalsInv /\ IdleCand
           Explained == \A t \in Tunnel : Orphan(t)' => Orphan(t) \/ Overwritten(t)
<1>1. Init => Inv
  BY TypeInit, LockInit, TodoInit, OwnInit, LocalsInit, IdleCandInit
<1>2. Inv /\ [Next]_vars => Inv'
  BY TypeStep, LockStep, TodoStep, OwnStep, LocalsStep, IdleCandStep
<1>3. Inv /\ OwnersAgree /\ OwnersAgree' /\ [Next]_vars => Explained
  <2> SUFFICES ASSUME Inv, OwnersAgree, OwnersAgree', [Next]_vars, NEW t \in Tunnel,
                      Orphan(t)', ~Orphan(t)
               PROVE  Overwritten(t)
    OBVIOUS
  <2>1. Tracked(t)
    BY TrackStep DEF LocalsInv
  <2>2. tun[t].proc = "free" \/ Owned(t)
    BY DEF Orphan, OwnersAgree
  <2>3. tun'[t].proc # "free" /\ ~Owned(t)'
    BY DEF Orphan, OwnersAgree
  <2> QED BY <2>1, <2>2, <2>3 DEF Tracked
<1> HIDE DEF Inv, Explained
<1>4. Spec => [][Explained]_vars
  BY <1>1, <1>2, <1>3, OwnedOwners, PTL DEF Spec
<1> QED BY <1>4 DEF OrphansOverwritten, Explained
------------------------------------------------------------------------------
(* What it takes to lose a route *)

\* No OpenVPN process dies by itself and every "ip route" command works.
Lossless == {"exit", "route", "flush"} \cap Faults = {}

\* Then a slot Xray balances over always has a route, outside a switch.
ClosedWhileLossless == Lossless => FailsClosed

AllUp == \A t \in Tunnel : tun[t].proc \in {"free", "up"}

\* Setting any other field of a tunnel, stopping it or starting it leaves all up.
LEMMA UpKept ==
    ASSUME tun \in [Tunnel -> TunnelRec], AllUp, NEW x, NEW y, NEW z,
           \/ tun' = [tun EXCEPT ![x] = FreeTunnel]
           \/ tun' = [tun EXCEPT ![x].state = y]
           \/ tun' = [tun EXCEPT ![x].stat = y]
           \/ tun' = [tun EXCEPT ![x].state = y, ![x].stat = z]
           \/ tun' = [tun EXCEPT ![x].exit = y, ![x].stat = z]
           \/ y.proc = "up" /\ tun' = [tun EXCEPT ![x] = y]
    PROVE  AllUp'
BY DEF AllUp, TunnelRec, FreeTunnel

\* Only TunnelExit and the waiters take a process anywhere else.
LEMMA UpStep == TypeInv /\ Lossless /\ AllUp /\ [Next]_vars => AllUp'
<1> SUFFICES ASSUME TypeInv, Lossless, AllUp, [Next]_vars PROVE AllUp'
  OBVIOUS
<1>t. tun \in [Tunnel -> TunnelRec]
  BY DEF TypeInv, TypeOK
<1>0. CASE tun' = tun
  BY <1>0 DEF AllUp
<1>1. CASE Worker
  <2>1. ASSUME NEW s \in Slot, NEW b \in BOOLEAN, CleanupStop(s, b) PROVE AllUp'
    BY <2>1, <1>t, UpKept DEF CleanupStop, Stop
  <2>2. ASSUME NEW s \in Slot, Retire(s) \/ DrainMark(s) PROVE AllUp'
    BY <2>2, <1>t, UpKept DEF Retire, Stop, DrainMark
  <2>3. ASSUME NEW s \in Slot, FillDrop(s) \/ FillPromote(s) PROVE AllUp'
    BY <2>3, <1>t, UpKept DEF FillDrop, Stop, FillPromote
  <2>4. CASE DrainRouted \/ DrainRollback \/ QualifyFail
    BY <2>4, <1>t, UpKept DEF DrainRouted, DrainRollback, QualifyFail, Stop
  <2>5. ASSUME NEW t \in Tunnel, Connect(t) PROVE AllUp'
    BY <2>5, <1>t, UpKept DEF Connect, StartTunnel
  <2>6. ASSUME NEW p \in Prefix, Verify(p) PROVE AllUp'
    BY <2>6, <1>t, UpKept DEF Verify
  <2>7. CASE Bench \/ Commit
    BY <2>7, <1>t, UpKept DEF Bench, Commit
  <2>8. \/ \E s \in Slot, b \in BOOLEAN : CleanupStop(s, b)
        \/ \E s \in Slot : Retire(s) \/ FillDrop(s) \/ FillPromote(s) \/ DrainMark(s)
        \/ \E t \in Tunnel : Connect(t)
        \/ \E p \in Prefix : Verify(p)
        \/ QualifyFail \/ DrainRouted \/ DrainRollback \/ Bench \/ Commit \/ tun' = tun
    BY <1>1 DEF Worker, Tick, Refill, CleanupDone, CleanupKeep, HealthPass, Select, Admit,
      DrainRefused, HealthDone, FillSkip, FillDone, Sync, CapacityReached, CapacityShort,
      Progress, SelectNone, AdmitDefer, AdmitReject, ConnectFail, VerifyFail, BenchFail,
      CommitReject
  <2> QED BY <1>0, <2>1, <2>2, <2>3, <2>4, <2>5, <2>6, <2>7, <2>8
<1>2. ASSUME NEW s \in Slot, Operation(s) PROVE AllUp'
  <2>1. ASSUME NEW t \in Tunnel, OpConnect(s, t) PROVE AllUp'
    BY <2>1, <1>t, UpKept DEF OpConnect, StartTunnel
  <2>2. ASSUME NEW p \in Prefix, OpVerify(s, p) PROVE AllUp'
    <3>1. CASE ValidateLease(s)
      BY <2>2, <3>1, <1>t DEF OpVerify, AllUp, TunnelRec
    <3>2. CASE ~ValidateLease(s)
      BY <2>2, <3>2, <1>t, UpKept DEF OpVerify, Stop
    <3> QED BY <3>1, <3>2
  <2>3. CASE OpCommit(s)
    BY <2>3, <1>t DEF OpCommit, AllUp, TunnelRec
  <2>4. CASE OpFinish(s)
    BY <2>4, <1>t, UpKept DEF OpFinish
  <2>5. CASE \E st, dt : OpAbort(s, st, dt)
    BY <2>5, <1>t, UpKept DEF OpAbort, Stop
  <2>6. \/ \E t \in Tunnel : OpConnect(s, t)
        \/ \E p \in Prefix : OpVerify(s, p)
        \/ OpCommit(s) \/ OpFinish(s) \/ (\E st, dt : OpAbort(s, st, dt)) \/ tun' = tun
    BY <1>2 DEF Operation, OpReject, OpAdmit, OpPrepare, OpConnectFail, OpVerifyFail,
      OpActivateFail, OpActivate, OpRouteFail, OpRoute, OpCommitReject, OpDrainFail, OpUnlock,
      OpRollback
  <2> QED BY <1>0, <2>1, <2>2, <2>3, <2>4, <2>5, <2>6
<1>3. ASSUME NEW t \in Tunnel PROVE ~TunnelExit(t) /\ ~Waiter(t)
  BY DEF TunnelExit, Lossless, Waiter, WaiterFail, WaiterDone, AllUp
<1>4. \/ Worker \/ (\E s \in Slot : Operation(s)) \/ (\E t \in Tunnel : TunnelExit(t) \/ Waiter(t))
      \/ tun' = tun
  BY DEF Next, vars, Request, CleanStaleNode, Discover
<1> QED BY <1>0, <1>1, <1>2, <1>3, <1>4

\* A slot that has a tunnel or that Xray balances over has a route, but for the
\* cutover of a switch into an empty slot.
Closed(s) ==
    /\ active[s] # None \/ s \in xact =>
         slotTable[s] # None \/ (op[s].pc = "route" /\ active[s] = None)
    /\ op[s].pc = "commit" => slotTable[s] # None

ClosedInv == \A s \in Slot : Closed(s)

\* It holds initially.
LEMMA ClosedInit == Init => AllUp /\ ClosedInv
BY DEF Init, AllUp, ClosedInv, Closed, FreeTunnel, IdleOp

\* Then clearing a table makes it unreachable, and routing through a tunnel that is
\* up does not fail.
LEMMA LosslessTables ==
    ASSUME Lossless, NEW table, NEW s, NEW t
    PROVE  /\ Cleared(table, s) = {[table EXCEPT ![s] = Unreachable]}
           /\ Up(t) => RouteFailures(table, s, t) = {}
BY DEF Lossless, Cleared, RouteFailures, RouteMayFail

\* A table never leads to a tunnel that belongs elsewhere.
LEMMA RouteElsewhere ==
    ASSUME TypeInv, OwnInv, RouteInv, NEW s \in Slot, NEW x \in Tunnel,
           \/ cand.tun = x
           \/ \E i \in DOMAIN standby : standby[i] = x
           \/ \E r \in Slot \ {s} : active[r] = x \/ draining[r] = x \/ Candidate(r) = x
           \/ Candidate(s) = x /\ op[s].pc # "commit"
    PROVE  slotTable[s] # x
<1> SUFFICES ASSUME slotTable[s] = x PROVE FALSE
  OBVIOUS
<1>1. x # None /\ x = Target(s)
  BY DEF RouteInv
<1>2. CASE op[s].pc = "commit"
  <2>1. Candidate(s) = x
    BY <1>1, <1>2 DEF Target, Candidate
  <2> QED BY <1>1, <1>2, <2>1 DEF OwnInv, SlotsApart, PoolApart, CandApart, Differ
<1>3. CASE op[s].pc # "commit"
  <2>1. active[s] = x \/ draining[s] = x
    BY <1>1, <1>3 DEF Target
  <2> QED BY <1>1, <2>1 DEF OwnInv, SlotsApart, PoolApart, CandApart, Differ
<1> QED BY <1>2, <1>3

\* A step that leaves the slot's route and switch alone and gives neither it nor
\* Xray anything new.
LEMMA ClosedKept ==
    ASSUME NEW s \in Slot, Closed(s), slotTable'[s] = slotTable[s], op'[s] = op[s],
           active'[s] # None => active[s] # None,
           s \in xact' => s \in xact \/ active[s] # None
    PROVE  Closed(s)'
BY DEF Closed

\* The worker takes a route only from a slot that Xray has dropped.
LEMMA ClosedWorker ==
    ASSUME TypeInv, LockInv, TodoInv, OwnInv, RouteInv, NewConnectionsAvoidDraining, Lossless,
           AllUp, Worker, NEW s \in Slot, Closed(s)
    PROVE  Closed(s)'
<1>t. /\ active \in [Slot -> Tunnel \cup {None}] /\ draining \in [Slot -> Tunnel \cup {None}]
      /\ slotTable \in [Slot -> Tunnel \cup {None, Unreachable}] /\ standby \in Seq(Tunnel)
      /\ cand \in CandRec /\ wtodo \subseteq Slot
  BY DEF TypeInv, TypeOK
<1>o. op' = op
  BY WorkerFrame
<1>l. \A table, r : Cleared(table, r) = {[table EXCEPT ![r] = Unreachable]}
  BY LosslessTables
<1>1. ASSUME NEW r \in Slot, NEW b \in BOOLEAN, CleanupStop(r, b) PROVE Closed(s)'
  <2>1. /\ draining[r] \in Tunnel /\ UNCHANGED <<active, xact>>
    BY <1>1, <1>t DEF CleanupStop, TodoInv
  <2>2. CASE s # r
    <3>1. slotTable[s] # draining[r]
      BY <2>1, <2>2, RouteElsewhere
    <3>2. slotTable'[s] = slotTable[s]
      BY <1>1, <1>l, <1>t, <2>2, <3>1 DEF CleanupStop, Stop, Unrouted
    <3> QED BY <2>1, <3>2, <1>o, ClosedKept
  <2>3. CASE s = r /\ slotTable[s] # draining[s]
    <3>1. slotTable'[s] \in {slotTable[s], Unreachable}
      BY <1>1, <1>l, <1>t, <2>1, <2>3 DEF CleanupStop, Stop, Unrouted
    <3> QED BY <2>1, <3>1, <1>o DEF Closed
  <2>4. CASE s = r /\ slotTable[s] = draining[s]
    <3>1. draining[s] = Target(s) /\ draining[s] # None
      BY <2>1, <2>4 DEF RouteInv
    <3>2. op[s].pc # "commit"
      BY <3>1 DEF Target, Candidate, OwnInv, SlotsApart, Differ
    <3>3. active[s] = None
      BY <3>1, <3>2 DEF Target, OwnInv, SlotsApart, Differ
    <3>4. s \in xact => op[s].pc = "route"
      BY <2>4, <3>1 DEF NewConnectionsAvoidDraining, Lossless
    <3> QED BY <2>1, <3>2, <3>3, <3>4, <1>o DEF Closed
  <2> QED BY <2>2, <2>3, <2>4
<1>2. ASSUME NEW r \in Slot, Retire(r) PROVE Closed(s)'
  <2>1. active[r] \in Tunnel /\ xact' \subseteq xact /\ active' = [active EXCEPT ![r] = None]
    BY <1>2, <1>t DEF Retire, Unhealthy, DrainingSlot, TodoInv
  <2>2. CASE s # r
    <3>1. slotTable[s] # active[r]
      BY <2>1, <2>2, RouteElsewhere
    <3>2. slotTable'[s] = slotTable[s]
      BY <1>2, <1>l, <1>t, <2>2, <3>1 DEF Retire, Stop, Unrouted
    <3> QED BY <2>1, <2>2, <3>2, <1>o, <1>t, ClosedKept
  <2>3. CASE s = r
    <3>1. slotTable'[s] = Unreachable
      BY <1>2, <1>l, <1>t, <2>1, <2>3 DEF Retire, Stop, Unrouted
    <3> QED BY <3>1 DEF Closed
  <2> QED BY <2>2, <2>3
<1>3. ASSUME NEW r \in Slot, FillDrop(r) PROVE Closed(s)'
  <2>1. /\ standby # <<>> /\ Head(standby) = standby[1] /\ 1 \in DOMAIN standby
        /\ Head(standby) \in Tunnel /\ UNCHANGED <<active, xact>>
    BY <1>3, <1>t DEF FillDrop, Promoting
  <2>2. slotTable[s] # Head(standby)
    BY <2>1, RouteElsewhere
  <2>3. RouteFailures(slotTable, r, Head(standby)) = {}
    BY <2>1, LosslessTables DEF AllUp, OwnInv, OwnedAlive, Owned, Up
  <2>4. slotTable'[s] \in {slotTable[s], Unreachable}
    <3>1. CASE Stop(Head(standby), slotTable, drainTable)
      BY <1>t, <2>1, <2>2, <3>1 DEF Stop, Unrouted
    <3>2. CASE Stop(Head(standby), [[slotTable EXCEPT ![r] = Head(standby)] EXCEPT ![r] = Unreachable],
                    drainTable)
      BY <1>t, <2>1, <2>2, <3>2 DEF Stop, Unrouted
    <3> QED BY <1>3, <1>l, <2>3, <3>1, <3>2 DEF FillDrop
  <2> QED BY <2>1, <2>4, <1>o DEF Closed
<1>4. ASSUME NEW r \in Slot, FillPromote(r) PROVE Closed(s)'
  <2>1. /\ Head(standby) \in Tunnel /\ xact' = xact \cup {r}
        /\ active' = [active EXCEPT ![r] = Head(standby)]
        /\ slotTable' = [slotTable EXCEPT ![r] = Head(standby)]
    BY <1>4, <1>t DEF FillPromote, Promoting, ActivateSlot
  <2>2. CASE s = r
    BY <2>1, <2>2, <1>t DEF Closed
  <2>3. CASE s # r
    BY <2>1, <2>3, <1>o, <1>t, ClosedKept
  <2> QED BY <2>2, <2>3
<1>5. CASE QualifyFail
  <2>1. cand.tun \in Tunnel => slotTable[s] # cand.tun
    BY RouteElsewhere
  <2>2. slotTable'[s] = slotTable[s] /\ UNCHANGED <<active, xact>>
    BY <1>5, <1>t, <2>1 DEF QualifyFail, Stop, Unrouted, CandRec, slotVars
  <2> QED BY <2>2, <1>o, ClosedKept
<1>6. CASE DrainRouted
  <2>1. run.drain \in Slot
    BY <1>6 DEF DrainRouted, LockInv, DrainGuarded
  <2> QED BY <1>6, <2>1, <1>o, <1>t, ClosedKept DEF DrainRouted
<1>7. CASE DrainRollback
  <2>1. active[run.drain] # None
    BY <1>7 DEF DrainRollback, TodoInv
  <2> QED BY <1>7, <2>1, <1>o, ClosedKept DEF DrainRollback, ActivateSlot, slotVars
<1>8. ASSUME NEW r \in Slot, DrainMark(r) PROVE Closed(s)'
  BY <1>8, <1>o, ClosedKept DEF DrainMark, DrainingSlot, slotVars, kernVars
<1>9. CASE Sync
  BY <1>9, <1>o, ClosedKept DEF Sync, LiveSlots, Occupied, slotVars, kernVars
<1>10. CASE UNCHANGED <<active, slotTable, xact>>
  BY <1>10, <1>o, ClosedKept
<1>11. \/ \E r \in Slot, b \in BOOLEAN : CleanupStop(r, b)
       \/ \E r \in Slot : Retire(r) \/ FillDrop(r) \/ FillPromote(r) \/ DrainMark(r)
       \/ QualifyFail \/ DrainRouted \/ DrainRollback \/ Sync
       \/ UNCHANGED <<active, slotTable, xact>>
  BY DEF Worker, Tick, Refill, CleanupDone, CleanupKeep, HealthPass, DrainRefused,
      HealthDone, FillSkip, FillDone, CapacityReached, CapacityShort,
      Progress, SelectNone, Select, AdmitDefer, AdmitReject, Admit, ConnectFail, Connect,
      VerifyFail, Verify, BenchFail, Bench, CommitReject, Commit, slotVars, kernVars
<1> QED BY <1>1, <1>2, <1>3, <1>4, <1>5, <1>6, <1>7, <1>8, <1>9, <1>10, <1>11

\* A switch writes the slot's table before it commits, and its rollbacks write
\* the old tunnel back or make the table unreachable.
LEMMA ClosedOperation ==
    ASSUME TypeInv, LockInv, OwnInv, RouteInv, Lossless, AllUp, NEW r \in Slot, Operation(r),
           NEW s \in Slot, Closed(s)
    PROVE  Closed(s)'
<1>t. /\ active \in [Slot -> Tunnel \cup {None}] /\ op \in [Slot -> OpRec]
      /\ slotTable \in [Slot -> Tunnel \cup {None, Unreachable}]
  BY DEF TypeInv, TypeOK
<1>c. op[r].pc \in Connected \ {"finish"} => op[r].tun \in Tunnel /\ Candidate(r) = op[r].tun
  BY DEF LockInv, SwitchConnected, Candidate
<1>u. op[r].pc \in Connected \ {"finish"} => Up(op[r].tun)
  BY <1>c DEF AllUp, OwnInv, OwnedAlive, Owned, Up
<1>a. ASSUME active[r] # None PROVE active[r] \in Tunnel /\ Up(active[r])
  BY <1>a, <1>t DEF AllUp, OwnInv, OwnedAlive, Owned, Up
<1>l. /\ \A table, x : Cleared(table, x) = {[table EXCEPT ![x] = Unreachable]}
      /\ \A table, x, t : Up(t) => RouteFailures(table, x, t) = {}
  BY LosslessTables
<1>f. ~OpRouteFail(r)
  BY <1>u, <1>l DEF OpRouteFail, Connected
<1>b. ASSUME OpRollback(r), op[r].pc \in {"route", "commit"}
      PROVE  /\ active[r] = op[r].cur
             /\ OpAbort(r, [slotTable EXCEPT ![r] = IF active[r] = None THEN Unreachable ELSE active[r]],
                        drainTable)
  <2>1. active[r] = op[r].cur
    BY <1>b DEF LockInv, RollbackTargetFresh
  <2>2. CASE active[r] = None
    BY <1>b, <1>l, <2>1, <2>2 DEF OpRollback
  <2>3. CASE active[r] # None
    <3>1. RouteFailures(slotTable, r, op[r].cur) = {}
      BY <1>a, <1>l, <2>1, <2>3
    <3> QED BY <1>b, <2>1, <2>3, <3>1 DEF OpRollback
  <2> QED BY <2>1, <2>2, <2>3
<1>d. ASSUME OpDrainFail(r)
      PROVE  /\ active[r] # None /\ op[r].pc = "commit"
             /\ \E dt : OpAbort(r, [slotTable EXCEPT ![r] = active[r]], dt)
  <2>1. active[r] # None /\ op[r].pc = "commit"
    BY <1>d DEF OpDrainFail, Committing
  <2>2. RouteFailures(slotTable, r, active[r]) = {}
    BY <1>a, <1>l, <2>1
  <2> QED BY <1>d, <2>1, <2>2 DEF OpDrainFail
<1>1. CASE s # r
  <2>1. op'[s] = op[s] /\ active'[s] = active[s] /\ (s \in xact' => s \in xact)
    BY <1>1, SwitchSteps DEF Switched
  <2>2. slotTable'[s] = slotTable[s]
    <3>1. op[r].pc \in Connected \ {"finish"} => slotTable[s] # op[r].tun
      BY <1>1, <1>c, RouteElsewhere
    <3>2. CASE OpVerifyFail(r) \/ OpActivateFail(r)
      BY <1>1, <1>t, <3>1, <3>2 DEF OpVerifyFail, OpActivateFail, OpAbort, Stop, Unrouted, Connected
    <3>6. CASE OpCommitReject(r)
      <4>1. OpRollback(r) /\ op[r].pc = "commit"
        BY <3>6 DEF OpCommitReject
      <4> QED BY <1>1, <1>b, <1>t, <3>1, <4>1 DEF OpAbort, Stop, Unrouted, Connected
    <3>7. CASE OpDrainFail(r)
      BY <1>1, <1>d, <1>t, <3>1, <3>7 DEF OpAbort, Stop, Unrouted, Connected
    <3>3. ASSUME NEW p \in Prefix, OpVerify(r, p) PROVE slotTable'[s] = slotTable[s]
      BY <1>1, <1>t, <3>1, <3>3 DEF OpVerify, Stop, Unrouted, Connected, kernVars
    <3>4. CASE OpRoute(r)
      BY <1>1, <1>t, <3>4 DEF OpRoute
    <3> QED
      BY <1>f, <3>2, <3>3, <3>4, <3>6, <3>7 DEF Operation, OpReject, OpAdmit, OpPrepare, OpConnectFail,
          OpConnect, OpActivate, OpCommit, OpFinish, OpUnlock, kernVars
  <2> QED BY <2>1, <2>2, ClosedKept
<1>2. CASE s = r
  <2>1. CASE /\ slotTable'[s] = slotTable[s] /\ UNCHANGED <<active, xact>>
             /\ op[s].pc # "route" /\ op'[s].pc # "commit"
    BY <2>1 DEF Closed
  <2>2. CASE OpVerifyFail(s) \/ OpActivateFail(s)
    <3>1. slotTable[s] # op[s].tun
      BY <1>2, <1>c, <2>2, RouteElsewhere DEF OpVerifyFail, OpActivateFail, Connected
    <3> QED BY <2>1, <2>2, <3>1, <1>t DEF OpVerifyFail, OpActivateFail, OpAbort, OpEnd, IdleOp,
                Stop, Unrouted, slotVars
  <2>3. ASSUME NEW p \in Prefix, OpVerify(s, p) PROVE Closed(s)'
    <3>1. slotTable[s] # op[s].tun
      BY <1>2, <1>c, <2>3, RouteElsewhere DEF OpVerify, Connected
    <3> QED BY <2>1, <2>3, <3>1, <1>t DEF OpVerify, OpEnd, IdleOp, OpRec, Stop, Unrouted,
                slotVars, kernVars
  <2>4. CASE OpCommitReject(s)
    <3>1. active[s] = op[s].cur /\ op[s].pc = "commit" /\ OpRollback(s)
      BY <2>4 DEF OpCommitReject, LockInv, RollbackTargetFresh
    <3>2. active[s] # op[s].tun
      BY <1>2, <1>c, <3>1 DEF OwnInv, SlotsApart, Differ, Connected
    <3>3. slotTable'[s] # None
      <4>1. Unreachable # op[s].tun /\ Unreachable # None
        BY <1>2, <1>c, <3>1, EgressAssumption DEF Connected
      <4> QED BY <1>2, <1>b, <1>t, <3>1, <3>2, <4>1 DEF OpAbort, Stop, Unrouted
    <3> QED BY <3>3 DEF Closed
  <2>5. CASE OpDrainFail(s)
    <3>1. active[s] # None /\ op[s].pc = "commit"
      BY <2>5 DEF OpDrainFail, Committing
    <3>2. active[s] # op[s].tun
      BY <1>2, <1>c, <3>1 DEF OwnInv, SlotsApart, Differ, Connected
    <3>3. slotTable'[s] = active[s]
      BY <1>2, <1>d, <2>5, <1>t, <3>2 DEF OpAbort, Stop, Unrouted
    <3> QED BY <3>1, <3>3 DEF Closed
  <2>6. CASE OpRoute(s)
    <3>1. slotTable'[s] \in Tunnel
      BY <1>2, <1>c, <1>t, <2>6 DEF OpRoute, Connected
    <3> QED BY <3>1 DEF Closed
  <2>7. CASE OpCommit(s)
    BY <2>7, <1>t DEF OpCommit, Committing, OpRec, Closed
  <2>8. CASE OpActivate(s)
    BY <2>8, <1>t DEF OpActivate, OpRec, Closed, slotVars, kernVars
  <2>9. CASE OpReject(s) \/ OpConnectFail(s) \/ OpFinish(s) \/ OpUnlock(s)
    BY <2>1, <2>9, <1>t DEF OpReject, OpConnectFail, OpFinish, OpUnlock, OpEnd, IdleOp,
        slotVars, kernVars
  <2>10. CASE OpAdmit(s) \/ OpPrepare(s)
    BY <2>1, <2>10, <1>t DEF OpAdmit, OpPrepare, OpEnd, IdleOp, OpRec, slotVars, kernVars
  <2>11. ASSUME NEW t \in Tunnel, OpConnect(s, t) PROVE Closed(s)'
    BY <2>1, <2>11, <1>t DEF OpConnect, OpRec, slotVars, kernVars
  <2> QED BY <1>2, <1>f, <2>2, <2>3, <2>4, <2>5, <2>6, <2>7, <2>8, <2>9, <2>10, <2>11
          DEF Operation
<1> QED BY <1>1, <1>2

\* Every step preserves it.
LEMMA ClosedStep ==
    /\ TypeInv /\ LockInv /\ TodoInv /\ OwnInv /\ RouteInv /\ NewConnectionsAvoidDraining
    /\ Lossless /\ AllUp /\ ClosedInv /\ [Next]_vars
    => ClosedInv'
<1> SUFFICES ASSUME TypeInv, LockInv, TodoInv, OwnInv, RouteInv, NewConnectionsAvoidDraining,
                    Lossless, AllUp, ClosedInv, [Next]_vars, NEW s \in Slot
             PROVE  Closed(s)'
  BY DEF ClosedInv
<1>c. Closed(s)
  BY DEF ClosedInv
<1>t. op \in [Slot -> OpRec]
  BY DEF TypeInv, TypeOK
<1>1. ASSUME NEW r \in Slot, NEW n \in Node, Request(r, n) PROVE Closed(s)'
  BY <1>1, <1>c, <1>t DEF Request, IdleOp, Closed, slotVars, kernVars
<1>2. ASSUME NEW t \in Tunnel PROVE ~TunnelExit(t)
  BY DEF TunnelExit, Lossless
<1>3. CASE UNCHANGED <<active, slotTable, xact, op>>
  BY <1>3, <1>c, ClosedKept
<1>4. \/ Worker \/ (\E r \in Slot : Operation(r))
      \/ \E t \in Tunnel : TunnelExit(t)
      \/ \E r \in Slot, n \in Node : Request(r, n)
      \/ UNCHANGED <<active, slotTable, xact, op>>
  BY DEF Next, vars, Waiter, WaiterFail, WaiterDone, CleanStaleNode, Discover, slotVars, kernVars
<1> QED BY <1>1, <1>2, <1>3, <1>4, <1>c, ClosedWorker, ClosedOperation

\* The complement of the leak that FailsClosed shows: outside a switch and between
\* the commands of one SetupSlotRouting, packets of a slot Xray uses fall through an
\* empty table only after a tunnel's process has died or an "ip route" command has
\* failed, whatever else goes wrong.
THEOREM RoutesLostByFaults == Spec => []ClosedWhileLossless
<1> DEFINE Base == /\ TypeInv /\ LockInv /\ TodoInv /\ OwnInv /\ RouteInv
                   /\ NewConnectionsAvoidDraining
           Loss == Lossless => AllUp /\ ClosedInv
<1>1. Init => Base /\ Loss
  BY TypeInit, LockInit, TodoInit, OwnInit, RouteInit, ClosedInit
     DEF Init, NewConnectionsAvoidDraining
<1>2. Base /\ [Next]_vars => Base'
  BY TypeStep, LockStep, TodoStep, OwnStep, RouteStep, AvoidStep
<1>3. Base /\ Loss /\ [Next]_vars => Loss'
  BY UpStep, ClosedStep DEF Lossless
<1>4. Base /\ Loss => ClosedWhileLossless
  BY DEF ClosedWhileLossless, FailsClosed, ClosedInv, Closed, LockInv, LeaseExclusive, TypeInv,
         TypeOK
<1> HIDE DEF Base, Loss
<1> QED BY <1>1, <1>2, <1>3, <1>4, PTL DEF Spec
=============================================================================
