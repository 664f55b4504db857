-------------------------- MODULE TunnelHostProofs --------------------------
(***************************************************************************)
(* The safety properties of TunnelHost for any number of tunnels, servers  *)
(* and uplinks, and every set of faults.  They need each other: the route  *)
(* of an address outlives a release only because the reference count is    *)
(* exact, and the count is exact only because a goroutine that cleans up   *)
(* for the first time cleans up for a tunnel that holds its address.       *)
(***************************************************************************)
EXTENDS TunnelHost, FiniteSetTheorems, TLAPS

\* How far the starter, the waiter and Stop of one tunnel may be apart.
Shape ==
    \A t \in Tunnel :
        /\ pc[t] # "free" => ip[t] \in Ip
        /\ pc[t] \in {"free", "acquire", "exec"} => waiter[t] = "none" /\ ~cleaned[t]
        /\ pc[t] \in {"poll", "run", "stopping"} => waiter[t] # "none"
        /\ pc[t] = "gone" => waiter[t] = "none" \/ cleaned[t]
        /\ waiter[t] = "none" <=> proc[t] = "none"
        /\ proc[t] = "alive" => waiter[t] = "waiting"
        /\ waiter[t] = "done" => cleaned[t]
        /\ stop[t] # "idle" => pc[t] = "stopping"

\* A held address is routed, which is more than RunningBypassed says.
Bypassed == \A t \in Tunnel : Holding(t) => route[ip[t]] \in Uplink \/ ip[t] \in lost

IInv == TypeOK /\ Shape /\ CredentialsWiped /\ RefCountExact /\ Bypassed
-----------------------------------------------------------------------------
(* Reference counts *)

\* The holders of an address are finitely many.
LEMMA HoldersFinite ==
    ASSUME NEW i \in Ip
    PROVE  IsFiniteSet(Holders(i)) /\ Cardinality(Holders(i)) \in Nat
<1>1. IsFiniteSet(Tunnel) /\ Holders(i) \subseteq Tunnel
  BY TunnelHostAssumption DEF Holders
<1>2. IsFiniteSet(Holders(i))
  BY <1>1, FS_Subset
<1> QED BY <1>2, FS_CardinalityType

\* A step that changes neither who holds what nor the counts keeps them equal.
LEMMA SameHolders ==
    ASSUME RefCountExact, refCounts' = refCounts,
           \A t \in Tunnel : Holding(t)' = Holding(t),
           \A t \in Tunnel : Holding(t) => ip'[t] = ip[t]
    PROVE  RefCountExact'
<1>1. \A i \in Ip : Holders(i)' = Holders(i)
  BY DEF Holders
<1> QED BY <1>1 DEF RefCountExact

\* A tunnel that starts to hold its address adds one.
LEMMA HolderAdded ==
    ASSUME TypeOK, RefCountExact, NEW t \in Tunnel, ip[t] \in Ip, ip' = ip,
           ~Holding(t), Holding(t)',
           \A u \in Tunnel \ {t} : Holding(u)' = Holding(u),
           refCounts' = [refCounts EXCEPT ![ip[t]] = @ + 1]
    PROVE  RefCountExact'
<1> SUFFICES ASSUME NEW i \in Ip PROVE refCounts'[i] = Cardinality(Holders(i)')
  BY DEF RefCountExact
<1>1. refCounts[i] = Cardinality(Holders(i))
  BY DEF RefCountExact
<1>2. CASE i = ip[t]
  <2>1. t \notin Holders(i) /\ Holders(i)' = Holders(i) \cup {t}
    BY <1>2 DEF Holders
  <2>2. Cardinality(Holders(i)') = Cardinality(Holders(i)) + 1
    BY <2>1, HoldersFinite, FS_AddElement
  <2> QED BY <1>1, <1>2, <2>2 DEF TypeOK
<1>3. CASE i # ip[t]
  <2>1. Holders(i)' = Holders(i)
    BY <1>3 DEF Holders
  <2> QED BY <1>1, <1>3, <2>1 DEF TypeOK
<1> QED BY <1>2, <1>3

\* ReleaseEndpoint for a tunnel that holds its address: the count goes down with
\* the holders, and the route goes only with the last of them.
LEMMA Released ==
    ASSUME TypeOK, Shape, RefCountExact, Bypassed, NEW t \in Tunnel, ip' = ip,
           Holding(t), ~Holding(t)',
           \A u \in Tunnel \ {t} : Holding(u)' = Holding(u),
           ReleaseEndpoint(ip[t])
    PROVE  /\ RefCountExact' /\ Bypassed'
           /\ refCounts' \in [Ip -> Nat] /\ route' \in [Ip -> Uplink \cup {None, ViaTun}]
           /\ lost' \subseteq Ip /\ cached' \in Uplink \cup {None}
<1> DEFINE j == ip[t]
<1>0. \A u \in Tunnel : Holding(u) => ip[u] \in Ip
  BY DEF Shape, Holding
<1>1. refCounts[j] = Cardinality(Holders(j)) /\ t \in Holders(j) /\ j \in Ip
  BY <1>0 DEF RefCountExact, Holders
<1>2. /\ IsFiniteSet(Holders(j) \ {t})
      /\ Cardinality(Holders(j) \ {t}) = Cardinality(Holders(j)) - 1
      /\ Cardinality(Holders(j) \ {t}) \in Nat
  BY <1>1, HoldersFinite, FS_RemoveElement, FS_CardinalityType
<1>3. refCounts[j] \in Nat /\ refCounts[j] >= 1
  BY <1>1, <1>2, HoldersFinite
<1>4. refCounts' = [refCounts EXCEPT ![j] = refCounts[j] - 1]
  <2>1. ~(refCounts[j] <= 0)
    BY <1>3
  <2> QED BY <2>1, Zenon DEF ReleaseEndpoint
<1>5. RefCountExact'
  <2> SUFFICES ASSUME NEW i \in Ip PROVE refCounts'[i] = Cardinality(Holders(i)')
    BY DEF RefCountExact
  <2>1. CASE i = j
    <3>1. Holders(i)' = Holders(i) \ {t}
      BY <2>1 DEF Holders
    <3> QED BY <1>1, <1>2, <1>4, <2>1, <3>1 DEF TypeOK
  <2>2. CASE i # j
    <3>1. Holders(i)' = Holders(i)
      BY <2>2 DEF Holders
    <3> QED BY <1>4, <2>2, <3>1 DEF TypeOK, RefCountExact
  <2> QED BY <2>1, <2>2
<1>6. refCounts' \in [Ip -> Nat]
  <2>1. refCounts[j] - 1 \in Nat
    BY <1>3
  <2> QED BY <1>4, <2>1 DEF TypeOK
<1>7. CASE refCounts[j] # 1
  <2>1. route' = route /\ lost' = lost /\ cached' = cached
    BY <1>7 DEF ReleaseEndpoint
  <2>2. Bypassed'
    BY <2>1 DEF Bypassed
  <2> QED BY <1>5, <1>6, <2>1, <2>2 DEF TypeOK
<1>8. CASE refCounts[j] = 1
  <2>1. \A u \in Tunnel : Holding(u)' => u # t /\ Holding(u) /\ ip[u] # j
    <3> SUFFICES ASSUME NEW u \in Tunnel, Holding(u)', ip[u] = j PROVE FALSE
      OBVIOUS
    <3>1. u \in Holders(j) \ {t}
      BY DEF Holders
    <3>2. Cardinality(Holders(j) \ {t}) = 0
      BY <1>1, <1>2, <1>8
    <3> QED BY <1>2, <3>1, <3>2, FS_EmptySet
  <2>2. PICK g \in Uplink \cup {None} :
          /\ GetDefaultGateway(g)
          /\ lost' = lost \ {j}
          /\ \/ route' = [route EXCEPT ![j] = IF g = None \/ @ = g THEN None ELSE @]
             \/ "ip" \in Faults /\ UNCHANGED route
    BY <1>8 DEF ReleaseEndpoint
  <2>3. cached' \in Uplink \cup {None}
    BY <2>2 DEF GetDefaultGateway, TypeOK
  <2>4. route' \in [Ip -> Uplink \cup {None, ViaTun}] /\ lost' \subseteq Ip
    BY <2>2 DEF TypeOK
  <2>5. \A i \in Ip : i # j => route'[i] = route[i] /\ (i \in lost => i \in lost')
    BY <2>2 DEF TypeOK
  <2>6. Bypassed'
    <3> SUFFICES ASSUME NEW u \in Tunnel, Holding(u)'
                 PROVE  route'[ip[u]] \in Uplink \/ ip[u] \in lost'
      BY DEF Bypassed
    <3>1. Holding(u) /\ ip[u] # j
      BY <2>1
    <3> QED BY <1>0, <2>5, <3>1 DEF Bypassed
  <2> QED BY <1>5, <1>6, <2>3, <2>4, <2>6
<1> QED BY <1>7, <1>8

\* Tunnel.cleanup for a tunnel whose first cleanup finds it holding its address.
LEMMA CleanedUp ==
    ASSUME TypeOK, Shape, CredentialsWiped, RefCountExact, Bypassed,
           NEW t \in Tunnel, ip' = ip, Cleanup(t),
           cleaned[t] \/ Holding(t),
           pc' = pc \/ pc' = [pc EXCEPT ![t] = "gone"]
    PROVE  /\ RefCountExact' /\ Bypassed' /\ CredentialsWiped'
           /\ cleaned' = [cleaned EXCEPT ![t] = TRUE]
           /\ refCounts' \in [Ip -> Nat] /\ route' \in [Ip -> Uplink \cup {None, ViaTun}]
           /\ lost' \subseteq Ip /\ cached' \in Uplink \cup {None}
           /\ conf' \in [Tunnel -> BOOLEAN]
<1>1. /\ cleaned' = [cleaned EXCEPT ![t] = TRUE]
      /\ conf' = [conf EXCEPT ![t] = FALSE]
  <2>1. CASE cleaned[t]
    BY <2>1 DEF Cleanup, TypeOK, CredentialsWiped, Holding, Shape
  <2>2. CASE ~cleaned[t]
    BY <2>2 DEF Cleanup
  <2> QED BY <2>1, <2>2
<1>2. ~Holding(t)' /\ \A u \in Tunnel \ {t} : Holding(u)' = Holding(u) /\ pc'[u] = pc[u]
  BY <1>1 DEF Holding, TypeOK
<1>3. CredentialsWiped'
  BY <1>1, <1>2 DEF CredentialsWiped, TypeOK
<1>4. conf' \in [Tunnel -> BOOLEAN]
  BY <1>1 DEF TypeOK
<1>5. CASE cleaned[t]
  <2>1. UNCHANGED <<refCounts, route, lost, cached>> /\ ~Holding(t)
    BY <1>5 DEF Cleanup, Holding
  <2>2. \A u \in Tunnel : Holding(u)' = Holding(u)
    BY <1>2, <2>1 DEF Holding
  <2>3. RefCountExact'
    BY <2>1, <2>2, SameHolders
  <2>4. Bypassed'
    BY <2>1, <2>2 DEF Bypassed
  <2> QED BY <1>1, <1>3, <1>4, <2>1, <2>3, <2>4 DEF TypeOK
<1>6. CASE ~cleaned[t]
  <2>1. ReleaseEndpoint(ip[t]) /\ Holding(t)
    BY <1>6 DEF Cleanup
  <2>2. \A u \in Tunnel \ {t} : Holding(u)' = Holding(u)
    BY <1>2
  <2> QED BY <1>1, <1>2, <1>3, <1>4, <2>1, <2>2, Released
<1> QED BY <1>5, <1>6
-----------------------------------------------------------------------------
(* The inductive invariant *)

\* The inductive invariant holds initially.
LEMMA InitIInv == Init => IInv
<1> SUFFICES ASSUME Init PROVE IInv
  OBVIOUS
<1>1. TypeOK
  <2>1. /\ refCounts \in [Ip -> Nat] /\ route \in [Ip -> Uplink \cup {None, ViaTun}]
        /\ lost \subseteq Ip /\ uplink \in Uplink \cup {None} /\ cached \in Uplink \cup {None}
        /\ changes \in 0 .. MaxChanges
    BY TunnelHostAssumption DEF Init
  <2>2. /\ pc \in [Tunnel -> Pc] /\ ip \in [Tunnel -> Ip \cup {None}]
        /\ owner \in [Tunnel -> {"worker", "switch", None}]
        /\ proc \in [Tunnel -> ProcState] /\ waiter \in [Tunnel -> WaiterPc]
        /\ stop \in [Tunnel -> StopPc]
    BY DEF Init, Pc, ProcState, WaiterPc, StopPc
  <2>3. /\ cleaned \in [Tunnel -> BOOLEAN] /\ conf \in [Tunnel -> BOOLEAN]
        /\ ctxDone \in BOOLEAN /\ sweep \in {"none", "on", "over"} /\ exited \in BOOLEAN
    BY DEF Init
  <2> QED BY <2>1, <2>2, <2>3 DEF TypeOK
<1>2. \A t \in Tunnel : ~Holding(t)
  BY DEF Init, Holding
<1>3. Shape /\ CredentialsWiped /\ Bypassed
  BY <1>2 DEF Init, Shape, CredentialsWiped, Bypassed
<1>4. RefCountExact
  <2>1. \A i \in Ip : Holders(i) = {}
    BY <1>2 DEF Holders
  <2> QED BY <2>1, FS_EmptySet DEF Init, RefCountExact
<1> QED BY <1>1, <1>3, <1>4 DEF IInv

\* The steps of one tunnel that leave the endpoint manager alone.
LEMMA QuietStep ==
    ASSUME IInv, NEW t \in Tunnel,
           \/ \E i \in Ip, who \in {"worker", "switch"} : StartTunnel(t, i, who)
           \/ Exec(t) \/ PollReady(t) \/ PollExited(t) \/ PollGiveUp(t)
           \/ WaiterReap(t) \/ Stop(t) \/ StopKill(t) \/ StopWaited(t)
           \/ Commit(t) \/ ProcessExit(t)
    PROVE  IInv'
<1> USE DEF IInv
<1>0. UNCHANGED <<refCounts, netVars, cleaned, ctxDone, sweep, exited>>
  BY DEF StartTunnel, Exec, PollReady, PollExited, PollGiveUp, WaiterReap, Stop, StopKill,
         StopWaited, Commit, ProcessExit, procVars, endVars, hostVars
<1>1. TypeOK'
  <2> USE <1>0 DEF TypeOK, Pc, ProcState, WaiterPc, StopPc, netVars, procVars, hostVars
  <2>1. CASE \E i \in Ip, who \in {"worker", "switch"} : StartTunnel(t, i, who)
    BY <2>1 DEF StartTunnel
  <2>2. CASE Exec(t) \/ PollReady(t) \/ PollExited(t) \/ PollGiveUp(t)
    BY <2>2 DEF Exec, PollReady, PollExited, PollGiveUp
  <2>3. CASE WaiterReap(t) \/ Stop(t) \/ StopKill(t) \/ StopWaited(t)
    BY <2>3 DEF WaiterReap, Stop, StopKill, StopWaited
  <2>4. CASE Commit(t) \/ ProcessExit(t)
    BY <2>4 DEF Commit, ProcessExit
  <2> QED BY <2>1, <2>2, <2>3, <2>4
<1>2. Shape'
  <2> USE <1>0 DEF Shape, TypeOK, Pc, ProcState, WaiterPc, StopPc, netVars, procVars, hostVars
  <2>1. CASE \E i \in Ip, who \in {"worker", "switch"} : StartTunnel(t, i, who)
    BY <2>1 DEF StartTunnel
  <2>2. CASE Exec(t) \/ PollReady(t) \/ PollExited(t) \/ PollGiveUp(t)
    BY <2>2 DEF Exec, PollReady, PollExited, PollGiveUp
  <2>3. CASE WaiterReap(t) \/ Stop(t) \/ StopKill(t) \/ StopWaited(t)
    BY <2>3 DEF WaiterReap, Stop, StopKill, StopWaited
  <2>4. CASE Commit(t) \/ ProcessExit(t)
    BY <2>4 DEF Commit, ProcessExit
  <2> QED BY <2>1, <2>2, <2>3, <2>4
<1>3. /\ \A u \in Tunnel : Holding(u)' = Holding(u)
      /\ \A u \in Tunnel : Holding(u) => ip'[u] = ip[u]
      /\ \A u \in Tunnel : conf'[u] => conf[u] \/ pc'[u] = "acquire"
      /\ \A u \in Tunnel : pc[u] = "acquire" => pc'[u] = "acquire"
  <2> USE <1>0 DEF Holding, Shape, TypeOK, netVars, procVars, hostVars
  <2>1. CASE \E i \in Ip, who \in {"worker", "switch"} : StartTunnel(t, i, who)
    BY <2>1 DEF StartTunnel
  <2>2. CASE Exec(t) \/ PollReady(t) \/ PollGiveUp(t)
    BY <2>2 DEF Exec, PollReady, PollGiveUp
  <2>3. CASE PollExited(t)
    BY <2>3 DEF PollExited
  <2>4. CASE WaiterReap(t) \/ Stop(t) \/ StopKill(t) \/ StopWaited(t)
    BY <2>4 DEF WaiterReap, Stop, StopKill, StopWaited
  <2>5. CASE Commit(t) \/ ProcessExit(t)
    BY <2>5 DEF Commit, ProcessExit
  <2> QED BY <2>1, <2>2, <2>3, <2>4, <2>5
<1>4. CredentialsWiped'
  BY <1>3 DEF CredentialsWiped
<1>5. RefCountExact'
  BY <1>0, <1>3, SameHolders
<1>6. Bypassed'
  BY <1>0, <1>3 DEF Bypassed, netVars
<1> QED BY <1>1, <1>2, <1>4, <1>5, <1>6

\* AcquireEndpoint: the first holder installs the route, the others find it.
LEMMA AcquireStep ==
    ASSUME IInv, NEW t \in Tunnel, Acquire(t)
    PROVE  IInv'
<1> USE DEF IInv
<1> DEFINE j == ip[t]
<1>1. /\ j \in Ip /\ ~Holding(t) /\ Holding(t)'
      /\ ip' = ip /\ pc' = [pc EXCEPT ![t] = "exec"] /\ pc[t] = "acquire"
      /\ \A u \in Tunnel \ {t} : Holding(u)' = Holding(u)
      /\ refCounts' = [refCounts EXCEPT ![j] = @ + 1]
      /\ UNCHANGED <<uplink, changes, hostVars, procVars, endVars>>
  BY DEF Acquire, Shape, Holding, TypeOK, hostVars, procVars
<1>2. RefCountExact'
  BY <1>1, HolderAdded
<1>3. /\ route' \in [Ip -> Uplink \cup {None, ViaTun}] /\ lost' \subseteq Ip
      /\ cached' \in Uplink \cup {None}
      /\ route'[j] \in Uplink \/ j \in lost'
      /\ \A i \in Ip : i # j => route'[i] = route[i] /\ (i \in lost => i \in lost')
  <2>1. CASE refCounts[j] > 0
    <3>1. UNCHANGED <<route, lost, cached>>
      BY <2>1 DEF Acquire
    <3>2. \E u \in Tunnel : Holding(u) /\ ip[u] = j
      <4>1. Cardinality(Holders(j)) # 0
        BY <1>1, <2>1 DEF RefCountExact
      <4>2. Holders(j) # {}
        BY <4>1, FS_EmptySet
      <4> QED BY <4>2 DEF Holders
    <3> QED BY <3>1, <3>2 DEF Bypassed, TypeOK
  <2>2. CASE ~(refCounts[j] > 0)
    <3>1. PICK g \in Uplink : /\ GetDefaultGateway(g)
                              /\ route' = Installed(j, g) /\ lost' = Found(j, g)
      BY <2>2 DEF Acquire, EnsureEndpointBypassRoute
    <3>2. cached' \in Uplink \cup {None}
      BY <3>1 DEF GetDefaultGateway, TypeOK
    <3> QED BY <1>1, <3>1, <3>2 DEF Installed, Found, Directed, TypeOK
  <2> QED BY <2>1, <2>2
<1>4. Bypassed'
  <2>1. \A u \in Tunnel : Holding(u) => ip[u] \in Ip
    BY DEF Shape, Holding
  <2> SUFFICES ASSUME NEW u \in Tunnel, Holding(u)'
               PROVE  route'[ip[u]] \in Uplink \/ ip[u] \in lost'
    BY <1>1 DEF Bypassed
  <2>2. CASE ip[u] = j
    BY <1>3, <2>2
  <2>3. CASE ip[u] # j
    BY <1>1, <1>3, <2>1, <2>3 DEF Bypassed
  <2> QED BY <2>2, <2>3
<1>5. refCounts' \in [Ip -> Nat]
  BY <1>1 DEF TypeOK
<1>6. TypeOK'
  BY <1>1, <1>3, <1>5 DEF TypeOK, Pc, hostVars, procVars, endVars
<1>7. Shape'
  BY <1>1 DEF Shape, TypeOK, hostVars, procVars
<1>8. CredentialsWiped'
  BY <1>1 DEF CredentialsWiped, TypeOK, hostVars
<1> QED BY <1>2, <1>4, <1>6, <1>7, <1>8

\* A failed acquire may change the route of an address nobody holds.
LEMMA AcquireFailStep ==
    ASSUME IInv, NEW t \in Tunnel, AcquireFail(t)
    PROVE  IInv'
<1> USE DEF IInv
<1> DEFINE j == ip[t]
<1>1. /\ j \in Ip /\ refCounts[j] = 0 /\ refCounts' = refCounts
      /\ ip' = ip /\ pc' = [pc EXCEPT ![t] = "gone"] /\ pc[t] = "acquire"
      /\ conf' = [conf EXCEPT ![t] = FALSE]
      /\ UNCHANGED <<uplink, changes, owner, procVars, endVars>>
  BY DEF AcquireFail, Shape
<1>2. \A u \in Tunnel : Holding(u)' = Holding(u)
  BY <1>1 DEF Holding, TypeOK, procVars
<1>3. RefCountExact'
  BY <1>1, <1>2, SameHolders
<1>4. /\ route' \in [Ip -> Uplink \cup {None, ViaTun}] /\ lost' \subseteq Ip
      /\ cached' \in Uplink \cup {None}
      /\ \A i \in Ip : i # j => route'[i] = route[i] /\ (i \in lost => i \in lost')
  <2>1. PICK g \in Uplink \cup {None} :
          /\ GetDefaultGateway(g)
          /\ \/ UNCHANGED <<route, lost>>
             \/ g # None /\ route' = Installed(j, g) /\ lost' = Found(j, g)
    BY DEF AcquireFail, EnsureFails
  <2>2. cached' \in Uplink \cup {None}
    BY <2>1 DEF GetDefaultGateway, TypeOK
  <2> QED BY <1>1, <2>1, <2>2 DEF Installed, Found, TypeOK
<1>5. \A u \in Tunnel : Holding(u) => ip[u] \in Ip /\ ip[u] # j
  <2>1. Holders(j) = {}
    <3>1. Cardinality(Holders(j)) = 0 /\ IsFiniteSet(Holders(j))
      BY <1>1, HoldersFinite DEF RefCountExact
    <3> QED BY <3>1, FS_EmptySet
  <2> QED BY <2>1 DEF Holders, Shape, Holding
<1>6. Bypassed'
  BY <1>1, <1>2, <1>4, <1>5 DEF Bypassed
<1>7. TypeOK'
  BY <1>1, <1>4 DEF TypeOK, Pc, procVars, endVars
<1>8. Shape'
  BY <1>1 DEF Shape, TypeOK, procVars
<1>9. CredentialsWiped'
  BY <1>1, <1>2 DEF CredentialsWiped, TypeOK
<1> QED BY <1>3, <1>6, <1>7, <1>8, <1>9

\* The three places that let go of an address.
LEMMA ReleaseStep ==
    ASSUME IInv, NEW t \in Tunnel, ExecFail(t) \/ WaiterCleanup(t) \/ StopCleanup(t)
    PROVE  IInv'
<1> USE DEF IInv
<1>1. CASE ExecFail(t)
  <2>1. /\ Holding(t) /\ ~Holding(t)' /\ pc[t] = "exec"
        /\ ip' = ip /\ pc' = [pc EXCEPT ![t] = "gone"]
        /\ conf' = [conf EXCEPT ![t] = FALSE]
        /\ \A u \in Tunnel \ {t} : Holding(u)' = Holding(u)
        /\ ReleaseEndpoint(ip[t])
        /\ UNCHANGED <<uplink, changes, owner, procVars, endVars>>
    BY <1>1 DEF ExecFail, Holding, Shape, TypeOK, procVars
  <2>2. /\ RefCountExact' /\ Bypassed'
        /\ refCounts' \in [Ip -> Nat] /\ route' \in [Ip -> Uplink \cup {None, ViaTun}]
        /\ lost' \subseteq Ip /\ cached' \in Uplink \cup {None}
    BY <2>1, Released
  <2>3. TypeOK'
    BY <2>1, <2>2 DEF TypeOK, Pc, procVars, endVars
  <2>4. Shape'
    BY <2>1 DEF Shape, TypeOK, procVars
  <2>5. CredentialsWiped'
    BY <2>1 DEF CredentialsWiped, TypeOK
  <2> QED BY <2>2, <2>3, <2>4, <2>5
<1>2. CASE WaiterCleanup(t)
  <2>1. /\ cleaned[t] \/ Holding(t)
        /\ ip' = ip /\ pc' = pc /\ waiter[t] = "cleanup"
        /\ waiter' = [waiter EXCEPT ![t] = "done"]
        /\ Cleanup(t)
        /\ UNCHANGED <<uplink, changes, owner, proc, stop, endVars>>
    BY <1>2 DEF WaiterCleanup, Shape, Holding, TypeOK, Pc
  <2>2. /\ RefCountExact' /\ Bypassed' /\ CredentialsWiped'
        /\ cleaned' = [cleaned EXCEPT ![t] = TRUE]
        /\ refCounts' \in [Ip -> Nat] /\ route' \in [Ip -> Uplink \cup {None, ViaTun}]
        /\ lost' \subseteq Ip /\ cached' \in Uplink \cup {None}
        /\ conf' \in [Tunnel -> BOOLEAN]
    BY <2>1, CleanedUp
  <2>3. TypeOK'
    BY <2>1, <2>2 DEF TypeOK, WaiterPc, endVars
  <2>4. Shape'
    BY <2>1, <2>2 DEF Shape, TypeOK
  <2> QED BY <2>2, <2>3, <2>4
<1>3. CASE StopCleanup(t)
  <2>1. /\ cleaned[t] \/ Holding(t)
        /\ ip' = ip /\ pc' = [pc EXCEPT ![t] = "gone"] /\ stop' = [stop EXCEPT ![t] = "idle"]
        /\ Cleanup(t)
        /\ UNCHANGED <<uplink, changes, owner, proc, waiter, endVars>>
    BY <1>3 DEF StopCleanup, Shape, Holding, TypeOK
  <2>2. /\ RefCountExact' /\ Bypassed' /\ CredentialsWiped'
        /\ cleaned' = [cleaned EXCEPT ![t] = TRUE]
        /\ refCounts' \in [Ip -> Nat] /\ route' \in [Ip -> Uplink \cup {None, ViaTun}]
        /\ lost' \subseteq Ip /\ cached' \in Uplink \cup {None}
        /\ conf' \in [Tunnel -> BOOLEAN]
    BY <2>1, CleanedUp
  <2>3. TypeOK'
    BY <2>1, <2>2 DEF TypeOK, Pc, StopPc, endVars
  <2>4. Shape'
    <3>1. pc'[t] = "gone" /\ stop'[t] = "idle" /\ cleaned'[t]
      BY <2>1, <2>2 DEF TypeOK
    <3>2. \A u \in Tunnel \ {t} : UNCHANGED <<pc[u], stop[u], cleaned[u]>>
      BY <2>1, <2>2 DEF TypeOK
    <3>3. pc[t] # "free"
      BY <1>3 DEF StopCleanup, Shape
    <3>4. UNCHANGED <<ip, proc, waiter>>
      BY <2>1
    <3> QED BY <3>1, <3>2, <3>3, <3>4 DEF Shape
  <2> QED BY <2>2, <2>3, <2>4
<1> QED BY <1>1, <1>2, <1>3

\* The network and the shutdown: an interface that goes down takes routes along,
\* and these are the ones in lost.
LEMMA HostStep ==
    ASSUME IInv,
           \/ \E u \in Uplink \cup {None}, down \in BOOLEAN : UplinkChange(u, down)
           \/ CacheExpire \/ Shutdown \/ SweepBegin \/ SweepEnd \/ MainReturns
    PROVE  IInv'
<1> USE DEF IInv
<1>1. UNCHANGED <<refCounts, pc, hostVars, procVars>>
  BY DEF UplinkChange, CacheExpire, Shutdown, SweepBegin, SweepEnd, MainReturns
<1>2. \A t \in Tunnel : Holding(t)' = Holding(t) /\ ip'[t] = ip[t]
  BY <1>1 DEF Holding, procVars, hostVars
<1>3. RefCountExact'
  BY <1>1, <1>2, SameHolders
<1>4. Shape' /\ CredentialsWiped'
  BY <1>1, <1>2 DEF Shape, CredentialsWiped, procVars, hostVars
<1>5. CASE \E u \in Uplink \cup {None}, down \in BOOLEAN : UplinkChange(u, down)
  <2>1. PICK u \in Uplink \cup {None}, down \in BOOLEAN : UplinkChange(u, down)
    BY <1>5
  <2> DEFINE gone == {i \in Ip : /\ down /\ uplink # None /\ route[i] \in Uplink
                                 /\ Iface[route[i]] = Iface[uplink]
                                 /\ (u = None \/ Iface[u] # Iface[uplink])}
  <2>2. /\ changes < MaxChanges /\ changes' = changes + 1 /\ uplink' = u
        /\ route' = [i \in Ip |-> IF i \in gone THEN None ELSE route[i]]
        /\ lost' = lost \cup gone /\ cached' = cached
        /\ UNCHANGED endVars
    BY <2>1 DEF UplinkChange
  <2> HIDE DEF gone
  <2>3. gone \subseteq Ip
    BY DEF gone
  <2>4. route' \in [Ip -> Uplink \cup {None, ViaTun}] /\ lost' \subseteq Ip
    BY <2>2, <2>3 DEF TypeOK
  <2>5. changes' \in 0 .. MaxChanges /\ uplink' \in Uplink \cup {None}
    BY <2>2, TunnelHostAssumption DEF TypeOK
  <2>6. TypeOK'
    BY <1>1, <2>2, <2>4, <2>5 DEF TypeOK, hostVars, procVars, endVars
  <2>7. Bypassed'
    <3>1. \A t \in Tunnel : Holding(t) => ip[t] \in Ip
      BY DEF Shape, Holding
    <3> QED BY <1>2, <2>2, <3>1 DEF Bypassed
  <2> QED BY <1>3, <1>4, <2>6, <2>7
<1>6. CASE CacheExpire \/ Shutdown \/ SweepBegin \/ SweepEnd \/ MainReturns
  <2>1. UNCHANGED <<route, lost, uplink, changes>> /\ cached' \in {cached, None}
    BY <1>6 DEF CacheExpire, Shutdown, SweepBegin, SweepEnd, MainReturns, netVars
  <2>2. ctxDone' \in BOOLEAN /\ sweep' \in {"none", "on", "over"} /\ exited' \in BOOLEAN
    BY <1>6 DEF CacheExpire, Shutdown, SweepBegin, SweepEnd, MainReturns, endVars, TypeOK
  <2>3. TypeOK'
    BY <1>1, <2>1, <2>2 DEF TypeOK, hostVars, procVars
  <2>4. Bypassed'
    BY <1>2, <2>1 DEF Bypassed
  <2> QED BY <1>3, <1>4, <2>3, <2>4
<1> QED BY <1>5, <1>6

\* Every step keeps the inductive invariant.
LEMMA NextIInv == IInv /\ [Next]_vars => IInv'
<1> SUFFICES ASSUME IInv, [Next]_vars PROVE IInv'
  OBVIOUS
<1>1. CASE UNCHANGED vars
  <2>1. \A t \in Tunnel : Holding(t)' = Holding(t) /\ ip'[t] = ip[t]
    BY <1>1 DEF vars, Holding, procVars, hostVars
  <2>2. RefCountExact'
    BY <1>1, <2>1, SameHolders DEF vars, IInv
  <2>3. TypeOK' /\ Shape'
    BY <1>1 DEF vars, netVars, hostVars, procVars, endVars, IInv, TypeOK, Shape
  <2>4. CredentialsWiped' /\ Bypassed'
    BY <1>1, <2>1 DEF vars, netVars, hostVars, procVars, IInv, CredentialsWiped, Bypassed
  <2> QED BY <2>2, <2>3, <2>4 DEF IInv
<1>2. ASSUME NEW t \in Tunnel,
             \/ \E i \in Ip, who \in {"worker", "switch"} : StartTunnel(t, i, who)
             \/ Starter(t) \/ Waiter(t) \/ Stopper(t)
             \/ Stop(t) \/ Commit(t) \/ ProcessExit(t)
      PROVE  IInv'
  BY <1>2, QuietStep, AcquireStep, AcquireFailStep, ReleaseStep DEF Starter, Waiter, Stopper
<1>3. CASE \/ \E u \in Uplink \cup {None}, down \in BOOLEAN : UplinkChange(u, down)
           \/ CacheExpire \/ Shutdown \/ SweepBegin \/ SweepEnd \/ MainReturns
  BY <1>3, HostStep
<1> QED BY <1>1, <1>2, <1>3 DEF Next
-----------------------------------------------------------------------------
(* Theorems *)

\* The inductive invariant holds throughout.
THEOREM Invariance == Spec => []IInv
BY InitIInv, NextIInv, PTL DEF Spec

\* Type correctness; in particular no reference count ever goes below zero.
THEOREM TypeCorrect == Spec => []TypeOK
<1>1. IInv => TypeOK
  BY DEF IInv
<1> QED BY <1>1, Invariance, PTL

\* The reference count of an address is the number of the tunnels that hold it,
\* however StartTunnel, the waiters and Stop interleave.
THEOREM RefCountsExact == Spec => []RefCountExact
<1>1. IInv => RefCountExact
  BY DEF IInv
<1> QED BY <1>1, Invariance, PTL

\* The server of a running tunnel stays routed by a physical interface, unless the
\* interface of the route has gone down.
THEOREM RunningTunnelsBypassed == Spec => []RunningBypassed
<1>1. IInv => RunningBypassed
  <2> SUFFICES ASSUME IInv, NEW t \in Tunnel, proc[t] = "alive", ~cleaned[t]
               PROVE  route[ip[t]] \in Uplink \/ ip[t] \in lost
    BY DEF RunningBypassed
  <2>1. Holding(t)
    BY DEF IInv, Shape, Holding, TypeOK, Pc
  <2> QED BY <2>1 DEF IInv, Bypassed
<1> QED BY <1>1, Invariance, PTL

\* No path leaves the file with the credentials behind.
THEOREM CredentialsAlwaysWiped == Spec => []CredentialsWiped
<1>1. IInv => CredentialsWiped
  BY DEF IInv
<1> QED BY <1>1, Invariance, PTL
=============================================================================
