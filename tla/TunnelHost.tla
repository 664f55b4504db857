----------------------------- MODULE TunnelHost -----------------------------
(***************************************************************************)
(* What an OpenVPN tunnel owns on the host, from StartTunnel to Stop and   *)
(* to the shutdown of the manager: its process, the temporary              *)
(* configuration with its credentials, and its share of the host route     *)
(* that keeps the tunnel's own packets out of the tunnels                  *)
(* (EndpointManager).  EgressSlots takes all of this as one step of        *)
(* StartTunnel or Stop; here the goroutines inside them interleave: the    *)
(* caller of StartTunnel, the one that waits for the process, and Stop.    *)
(*                                                                         *)
(* EndpointManager.mu is held for the whole of an acquire or a release, so *)
(* each of them is one step, the `ip` commands it runs included.           *)
(***************************************************************************)
EXTENDS Naturals, FiniteSets

CONSTANTS
    Tunnel,      \* Tunnel objects: bounds the calls of StartTunnel
    Ip,          \* addresses of VPN servers
    Uplink,      \* default routes of the main table: a gateway and its interface
    Iface,       \* [Uplink -> interfaces]: the physical interface of an uplink
    None,        \* no address, no route, no default route
    ViaTun,      \* a host route into a TUN device
    MaxChanges,  \* bound: changes of the uplink
    Faults       \* the failures that may happen

\* "ip": a command fails; "exec": openvpn cannot be started; "timeout": no TUN
\* device within 25 s.
FaultKind == {"ip", "exec", "timeout"}

ASSUME TunnelHostAssumption ==
    /\ IsFiniteSet(Tunnel)
    /\ None \notin Ip \cup Uplink \cup {ViaTun} /\ ViaTun \notin Uplink
    /\ DOMAIN Iface = Uplink
    /\ MaxChanges \in Nat /\ Faults \subseteq FaultKind

VARIABLES
    refCounts,   \* EndpointManager.refCounts
    route,       \* the kernel's host route of each server address
    lost,        \* addresses whose route went with its interface
    uplink,      \* the default route of the main table
    cached,      \* cachedGateway and cachedIface
    changes,     \* changes of the uplink so far
    pc,          \* where StartTunnel, or the tunnel's owner, is
    owner,       \* who called StartTunnel: the scheduler worker or a manual switch
    ip,          \* Node.IP of the tunnel
    proc,        \* the OpenVPN process
    waiter,      \* the goroutine that owns cmd.Wait
    stop,        \* where Tunnel.Stop is
    cleaned,     \* cleanupOnce has run
    conf,        \* the temporary configuration file exists
    ctxDone,     \* the scheduler's context is cancelled
    sweep,       \* monitorLoop's last pass over its maps: none, on (Mu held), over
    exited       \* main has returned

netVars == <<route, lost, uplink, cached, changes>>
hostVars == <<ip, owner, conf>>
procVars == <<proc, waiter, stop, cleaned>>
endVars == <<ctxDone, sweep, exited>>
vars == <<refCounts, netVars, pc, hostVars, procVars, endVars>>
-----------------------------------------------------------------------------
(* Types and initial values *)

Pc == {"free", "acquire", "exec", "poll", "run", "stopping", "gone"}
ProcState == {"none", "alive", "dead"}
WaiterPc == {"none", "waiting", "cleanup", "done"}
StopPc == {"idle", "term", "kill", "cleanup"}

TypeOK ==
    /\ refCounts \in [Ip -> Nat]
    /\ route \in [Ip -> Uplink \cup {None, ViaTun}]
    /\ lost \subseteq Ip
    /\ uplink \in Uplink \cup {None}
    /\ cached \in Uplink \cup {None}
    /\ changes \in 0 .. MaxChanges
    /\ pc \in [Tunnel -> Pc]
    /\ owner \in [Tunnel -> {"worker", "switch", None}]
    /\ ip \in [Tunnel -> Ip \cup {None}]
    /\ proc \in [Tunnel -> ProcState]
    /\ waiter \in [Tunnel -> WaiterPc]
    /\ stop \in [Tunnel -> StopPc]
    /\ cleaned \in [Tunnel -> BOOLEAN]
    /\ conf \in [Tunnel -> BOOLEAN]
    /\ ctxDone \in BOOLEAN
    /\ sweep \in {"none", "on", "over"}
    /\ exited \in BOOLEAN

\* A manager that crashed, or another program, may have left host routes behind.
Init ==
    /\ refCounts = [i \in Ip |-> 0]
    /\ route \in [Ip -> Uplink \cup {None, ViaTun}]
    /\ lost = {}
    /\ uplink \in Uplink
    /\ cached = None
    /\ changes = 0
    /\ pc = [t \in Tunnel |-> "free"]
    /\ owner = [t \in Tunnel |-> None]
    /\ ip = [t \in Tunnel |-> None]
    /\ proc = [t \in Tunnel |-> "none"]
    /\ waiter = [t \in Tunnel |-> "none"]
    /\ stop = [t \in Tunnel |-> "idle"]
    /\ cleaned = [t \in Tunnel |-> FALSE]
    /\ conf = [t \in Tunnel |-> FALSE]
    /\ ctxDone = FALSE
    /\ sweep = "none"
    /\ exited = FALSE
-----------------------------------------------------------------------------
(* The uplink and the endpoint manager *)

\* GetDefaultGateway: the cached uplink for 60 s, else the current one; g is
\* None when there is no default route or the command fails.
GetDefaultGateway(g) ==
    IF cached # None
    THEN g = cached /\ UNCHANGED cached
    ELSE \/ g = uplink /\ cached' = uplink
         \/ "ip" \in Faults /\ g = None /\ UNCHANGED cached

\* The existing route is accepted when it leaves by the gateway's interface:
\* the gateway itself is not compared.
Directed(r, g) == r \in Uplink /\ Iface[r] = Iface[g]

\* EnsureEndpointBypassRoute up to the read-back: the host route is added, or
\* replaced when it is misdirected.  A command may fail.
Installed(i, g) == IF Directed(route[i], g) THEN route ELSE [route EXCEPT ![i] = g]
Found(i, g) == IF Directed(route[i], g) THEN lost ELSE lost \ {i}

\* EnsureEndpointBypassRoute with its error paths: no gateway, a failed add or
\* replace (nothing changed) and a failed read-back (the route is left there).
EnsureFails(i) ==
    \E g \in Uplink \cup {None} :
        /\ GetDefaultGateway(g)
        /\ \/ (g = None \/ "ip" \in Faults) /\ UNCHANGED <<route, lost>>
           \/ /\ g # None /\ "ip" \in Faults
              /\ route' = Installed(i, g) /\ lost' = Found(i, g)

EnsureEndpointBypassRoute(i) ==
    \E g \in Uplink :
        /\ GetDefaultGateway(g)
        /\ route' = Installed(i, g) /\ lost' = Found(i, g)

\* Mutant: the route goes with the first tunnel that lets go.
ReleaseEndpointEager(i) ==
    /\ refCounts' = [refCounts EXCEPT ![i] = IF @ <= 0 THEN 0 ELSE @ - 1]
    /\ route' = [route EXCEPT ![i] = None]
    /\ UNCHANGED <<lost, cached>>

\* ReleaseEndpoint: the last reference deletes the route.  The deletion names
\* the gateway of the moment, so it misses a route that was installed through
\* another one; its failure is only logged.
ReleaseEndpoint(i) ==
    /\ refCounts' = [refCounts EXCEPT ![i] = IF @ <= 0 THEN 0 ELSE @ - 1]
    /\ IF refCounts[i] # 1
       THEN UNCHANGED <<route, lost, cached>>
       ELSE \E g \in Uplink \cup {None} :
              /\ GetDefaultGateway(g)
              /\ lost' = lost \ {i}
              /\ \/ route' = [route EXCEPT ![i] = IF g = None \/ @ = g THEN None ELSE @]
                 \/ "ip" \in Faults /\ UNCHANGED route

\* Mutants: no cleanupOnce; and a reference count that is not guarded either.
CleanupEachTime(t) ==
    /\ cleaned' = [cleaned EXCEPT ![t] = TRUE]
    /\ conf' = [conf EXCEPT ![t] = FALSE]
    /\ ReleaseEndpoint(ip[t])
CleanupUnguarded(t) ==
    /\ cleaned' = [cleaned EXCEPT ![t] = TRUE]
    /\ conf' = [conf EXCEPT ![t] = FALSE]
    /\ refCounts' = [refCounts EXCEPT ![ip[t]] = @ - 1]
    /\ UNCHANGED <<route, lost, cached>>

\* Tunnel.cleanup: once per tunnel, whoever comes first.
Cleanup(t) ==
    IF cleaned[t]
    THEN UNCHANGED <<cleaned, conf, refCounts, route, lost, cached>>
    ELSE /\ cleaned' = [cleaned EXCEPT ![t] = TRUE]
         /\ conf' = [conf EXCEPT ![t] = FALSE]
         /\ ReleaseEndpoint(ip[t])
-----------------------------------------------------------------------------
(* StartTunnel *)

WorkerStarting == \E t \in Tunnel :
    owner[t] = "worker" /\ pc[t] \in {"acquire", "exec", "poll"}

\* Before this point StartTunnel may fail without a trace (no credentials, a
\* refused configuration, no temporary file).  The worker makes one call at a
\* time; every slot may have a switch.
StartTunnel(t, i, who) ==
    /\ ~exited /\ pc[t] = "free"
    /\ who = "worker" => sweep = "none" /\ ~WorkerStarting
    /\ pc' = [pc EXCEPT ![t] = "acquire"]
    /\ ip' = [ip EXCEPT ![t] = i]
    /\ owner' = [owner EXCEPT ![t] = who]
    /\ conf' = [conf EXCEPT ![t] = TRUE]
    /\ UNCHANGED <<refCounts, netVars, procVars, endVars>>

\* AddEndpointBypassRule -> AcquireEndpoint
Acquire(t) ==
    /\ ~exited /\ pc[t] = "acquire"
    /\ pc' = [pc EXCEPT ![t] = "exec"]
    /\ refCounts' = [refCounts EXCEPT ![ip[t]] = @ + 1]
    /\ IF refCounts[ip[t]] > 0
       THEN UNCHANGED <<route, lost, cached>>
       ELSE EnsureEndpointBypassRoute(ip[t])
    /\ UNCHANGED <<uplink, changes, hostVars, procVars, endVars>>

AcquireFail(t) ==
    /\ ~exited /\ pc[t] = "acquire"
    /\ refCounts[ip[t]] = 0
    /\ EnsureFails(ip[t])
    /\ pc' = [pc EXCEPT ![t] = "gone"]
    /\ conf' = [conf EXCEPT ![t] = FALSE]
    /\ UNCHANGED <<refCounts, uplink, changes, ip, owner, procVars, endVars>>

\* cmd.Start, the log scanners and the waiter; it fails under a cancelled context
Exec(t) ==
    /\ ~exited /\ pc[t] = "exec" /\ ~ctxDone
    /\ pc' = [pc EXCEPT ![t] = "poll"]
    /\ proc' = [proc EXCEPT ![t] = "alive"]
    /\ waiter' = [waiter EXCEPT ![t] = "waiting"]
    /\ UNCHANGED <<refCounts, netVars, hostVars, stop, cleaned, endVars>>

\* Mutant: the configuration survives a failed start.
ExecFailUnwiped(t) ==
    /\ ~exited /\ pc[t] = "exec"
    /\ ctxDone \/ "exec" \in Faults
    /\ ReleaseEndpoint(ip[t])
    /\ pc' = [pc EXCEPT ![t] = "gone"]
    /\ UNCHANGED <<uplink, changes, hostVars, procVars, endVars>>

ExecFail(t) ==
    /\ ~exited /\ pc[t] = "exec"
    /\ ctxDone \/ "exec" \in Faults
    /\ ReleaseEndpoint(ip[t])
    /\ pc' = [pc EXCEPT ![t] = "gone"]
    /\ conf' = [conf EXCEPT ![t] = FALSE]
    /\ UNCHANGED <<uplink, changes, ip, owner, procVars, endVars>>

\* The poll loop: the device is there (which needs the process) ...
PollReady(t) ==
    /\ ~exited /\ pc[t] = "poll" /\ proc[t] = "alive"
    /\ pc' = [pc EXCEPT ![t] = "run"]
    /\ UNCHANGED <<refCounts, netVars, hostVars, procVars, endVars>>

\* ... or the process has exited ...
PollExited(t) ==
    /\ ~exited /\ pc[t] = "poll" /\ waiter[t] = "done"
    /\ pc' = [pc EXCEPT ![t] = "gone"]
    /\ UNCHANGED <<refCounts, netVars, hostVars, procVars, endVars>>

\* ... or the manager shuts down, or 25 s are over: StartTunnel calls Stop.
PollGiveUp(t) ==
    /\ ~exited /\ pc[t] = "poll"
    /\ ctxDone \/ "timeout" \in Faults
    /\ pc' = [pc EXCEPT ![t] = "stopping"]
    /\ stop' = [stop EXCEPT ![t] = "term"]
    /\ UNCHANGED <<refCounts, netVars, hostVars, proc, waiter, cleaned, endVars>>
-----------------------------------------------------------------------------
(* The process, its waiter and Stop *)

\* The process ends: SIGTERM, SIGKILL, or by itself.
ProcessExit(t) ==
    /\ proc[t] = "alive"
    /\ proc' = [proc EXCEPT ![t] = "dead"]
    /\ UNCHANGED <<refCounts, netVars, pc, hostVars, waiter, stop, cleaned, endVars>>

\* cmd.Wait returns and the tunnel is marked FAILED
WaiterReap(t) ==
    /\ ~exited /\ waiter[t] = "waiting" /\ proc[t] = "dead"
    /\ waiter' = [waiter EXCEPT ![t] = "cleanup"]
    /\ UNCHANGED <<refCounts, netVars, pc, hostVars, proc, stop, cleaned, endVars>>

\* cleanup, then doneChan is closed
WaiterCleanup(t) ==
    /\ ~exited /\ waiter[t] = "cleanup"
    /\ waiter' = [waiter EXCEPT ![t] = "done"]
    /\ Cleanup(t)
    /\ UNCHANGED <<uplink, changes, pc, ip, owner, proc, stop, endVars>>

\* The owner stops its tunnel: Cancel sends SIGTERM.
Stop(t) ==
    /\ ~exited /\ pc[t] = "run"
    /\ owner[t] = "worker" => sweep # "over"
    /\ pc' = [pc EXCEPT ![t] = "stopping"]
    /\ stop' = [stop EXCEPT ![t] = "term"]
    /\ UNCHANGED <<refCounts, netVars, hostVars, proc, waiter, cleaned, endVars>>

\* 5 s after Cancel: SIGKILL
StopKill(t) ==
    /\ ~exited /\ stop[t] = "term" /\ waiter[t] # "done"
    /\ stop' = [stop EXCEPT ![t] = "kill"]
    /\ UNCHANGED <<refCounts, netVars, pc, hostVars, proc, waiter, cleaned, endVars>>

\* Mutant: Stop waits for the process without a second timer.
StopWaitedForever(t) ==
    /\ ~exited /\ stop[t] \in {"term", "kill"} /\ waiter[t] = "done"
    /\ stop' = [stop EXCEPT ![t] = "cleanup"]
    /\ UNCHANGED <<refCounts, netVars, pc, hostVars, proc, waiter, cleaned, endVars>>

\* doneChan is closed, or 5 s after SIGKILL it is still open
StopWaited(t) ==
    /\ ~exited
    /\ \/ stop[t] \in {"term", "kill"} /\ waiter[t] = "done"
       \/ stop[t] = "kill"
    /\ stop' = [stop EXCEPT ![t] = "cleanup"]
    /\ UNCHANGED <<refCounts, netVars, pc, hostVars, proc, waiter, cleaned, endVars>>

StopCleanup(t) ==
    /\ ~exited /\ stop[t] = "cleanup"
    /\ stop' = [stop EXCEPT ![t] = "idle"]
    /\ pc' = [pc EXCEPT ![t] = "gone"]
    /\ Cleanup(t)
    /\ UNCHANGED <<uplink, changes, ip, owner, proc, waiter, endVars>>
-----------------------------------------------------------------------------
(* The network and the shutdown *)

\* DHCP renewal or failover; an interface that goes down takes its routes along
UplinkChange(u, down) ==
    /\ changes < MaxChanges /\ u # uplink
    /\ changes' = changes + 1
    /\ uplink' = u
    /\ LET gone == {i \in Ip : /\ down /\ uplink # None /\ route[i] \in Uplink
                               /\ Iface[route[i]] = Iface[uplink]
                               /\ (u = None \/ Iface[u] # Iface[uplink])} IN
       /\ route' = [i \in Ip |-> IF i \in gone THEN None ELSE route[i]]
       /\ lost' = lost \cup gone
    /\ UNCHANGED <<refCounts, cached, pc, hostVars, procVars, endVars>>

\* cacheTTL is over
CacheExpire ==
    /\ cached # None
    /\ cached' = None
    /\ UNCHANGED <<refCounts, route, lost, uplink, changes, pc, hostVars, procVars, endVars>>

\* A switch hands its tunnel to the scheduler (the commit under Mu).
Commit(t) ==
    /\ ~exited /\ pc[t] = "run" /\ owner[t] = "switch" /\ sweep # "on"
    /\ owner' = [owner EXCEPT ![t] = "worker"]
    /\ UNCHANGED <<refCounts, netVars, pc, ip, conf, procVars, endVars>>

\* sched.Stop cancels the context; monitorLoop sees it between two rounds, and
\* stops the tunnels in its maps one after the other.
Shutdown ==
    /\ ~ctxDone
    /\ ctxDone' = TRUE
    /\ UNCHANGED <<refCounts, netVars, pc, hostVars, procVars, sweep, exited>>

SweepBegin ==
    /\ ctxDone /\ sweep = "none" /\ ~WorkerStarting
    /\ ~\E t \in Tunnel : owner[t] = "worker" /\ pc[t] = "stopping"
    /\ sweep' = "on"
    /\ UNCHANGED <<refCounts, netVars, pc, hostVars, procVars, ctxDone, exited>>

\* Mutant: the last pass does not wait for Stop.
SweepEndHasty ==
    /\ sweep = "on"
    /\ sweep' = "over"
    /\ UNCHANGED <<refCounts, netVars, pc, hostVars, procVars, ctxDone, exited>>

SweepEnd ==
    /\ sweep = "on"
    /\ \A t \in Tunnel : owner[t] = "worker" => pc[t] = "gone"
    /\ sweep' = "over"
    /\ UNCHANGED <<refCounts, netVars, pc, hostVars, procVars, ctxDone, exited>>

\* wg.Wait is over and main returns; nothing has waited for a manual switch.
MainReturns ==
    /\ sweep = "over" /\ ~exited
    /\ exited' = TRUE
    /\ UNCHANGED <<refCounts, netVars, pc, hostVars, procVars, ctxDone, sweep>>

Starter(t) == Acquire(t) \/ AcquireFail(t) \/ Exec(t) \/ ExecFail(t)
              \/ PollReady(t) \/ PollExited(t) \/ PollGiveUp(t)
Waiter(t) == WaiterReap(t) \/ WaiterCleanup(t)
Stopper(t) == StopKill(t) \/ StopWaited(t) \/ StopCleanup(t)

Next ==
    \/ \E t \in Tunnel :
         \/ \E i \in Ip, who \in {"worker", "switch"} : StartTunnel(t, i, who)
         \/ Starter(t) \/ Waiter(t) \/ Stopper(t)
         \/ Stop(t) \/ Commit(t) \/ ProcessExit(t)
    \/ \E u \in Uplink \cup {None}, down \in BOOLEAN : UplinkChange(u, down)
    \/ CacheExpire \/ Shutdown \/ SweepBegin \/ SweepEnd \/ MainReturns

Spec == Init /\ [][Next]_vars

(***************************************************************************)
(* Fairness: every goroutine goes on (the waits of StartTunnel and Stop    *)
(* have timers), monitorLoop's select takes a ready ctx.Done, and its last *)
(* pass stops every tunnel in the maps.  No process need ever exit, no     *)
(* switch need come, and a tunnel that is not asked to stop runs on.       *)
(***************************************************************************)
Fairness ==
    /\ \A t \in Tunnel :
         /\ WF_vars(Starter(t)) /\ WF_vars(Waiter(t)) /\ WF_vars(Stopper(t))
         /\ WF_vars(sweep = "on" /\ owner[t] = "worker" /\ Stop(t))
    /\ WF_vars(SweepBegin) /\ WF_vars(SweepEnd) /\ WF_vars(MainReturns)

FairSpec == Spec /\ Fairness
-----------------------------------------------------------------------------
(* Properties *)

\* The tunnels that have acquired their endpoint and not yet cleaned up
Holding(t) == pc[t] \in {"exec", "poll", "run", "stopping"} /\ ~cleaned[t]
Holders(i) == {t \in Tunnel : ip[t] = i /\ Holding(t)}

\* The reference count of an address is the number of tunnels that hold it,
\* whichever of the waiter, Stop and a failed start lets go first
\* (AcquireEndpoint, ReleaseEndpoint, cleanupOnce).
RefCountExact == \A i \in Ip : refCounts[i] = Cardinality(Holders(i))

\* The server of a running tunnel is reached by a physical interface: neither
\* another tunnel's end nor a route found in the kernel takes the host route
\* away or leaves it in a TUN device; only a lost interface does.
RunningBypassed ==
    \A t \in Tunnel : proc[t] = "alive" /\ ~cleaned[t]
                        => route[ip[t]] \in Uplink \/ ip[t] \in lost

\* The file with a node's credentials is gone as soon as its tunnel is not
\* being started, running or being stopped, on every error path too.
CredentialsWiped == \A t \in Tunnel : conf[t] => pc[t] = "acquire" \/ Holding(t)

\* A tunnel that is in the scheduler's maps when the shutdown begins is cleaned
\* up although its process may ignore SIGTERM and SIGKILL.
ShutdownReleases ==
    \A t \in Tunnel : (ctxDone /\ sweep # "over" /\ owner[t] = "worker")
                        ~> (pc[t] = "gone" /\ ~conf[t])

\* The shutdown always ends.
ShutdownEnds == ctxDone ~> exited
=============================================================================
