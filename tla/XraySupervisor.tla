---------------------------- MODULE XraySupervisor ----------------------------
(***************************************************************************)
(* The life of the Xray process: Start, the monitor goroutine that waits   *)
(* for the process and recovers it, the goroutine that watches the         *)
(* supervisor's context, Restart and Stop.  They share s.cmd, s.state,     *)
(* s.stopped and the published VLESS endpoint; every critical section of   *)
(* Supervisor.mu is one action.                                            *)
(***************************************************************************)
EXTENDS Integers

CONSTANTS
    MaxProc,    \* bound: processes launched
    MaxFaults,  \* bound: failures
    Faults,     \* kinds of failure the environment may inject
    Calls       \* "stop", "restart": the calls made after Start

\* "crash": a ready Xray dies; "unready": a new one never listens; "config":
\* validation fails; "start": exec fails; "stubborn": SIGTERM is ignored.
FaultKind == {"crash", "unready", "config", "start", "stubborn"}

ASSUME SupervisorAssumption ==
    /\ MaxProc \in Nat \ {0}
    /\ MaxFaults \in Nat
    /\ Faults \subseteq FaultKind
    /\ Calls \subseteq {"stop", "restart"}

VARIABLES
    state,      \* Supervisor.state
    stopped,    \* Supervisor.stopped
    cmd,        \* Supervisor.cmd, 0 when nil
    cancelled,  \* Supervisor.ctx is done
    endpoint,   \* activeRuntimeEndpoint is registered
    proc,       \* the processes; processDone is closed when one is reaped
    spc,        \* Start
    mpc, mcmd,  \* monitorLoop, and the command it waits for
    watcher,    \* the context watcher
    stpc, stcmd, \* Stop, and the command it captured
    rpc, rcmd,  \* Restart, likewise
    faults      \* failures so far

callVars == <<stpc, stcmd, rpc, rcmd>>
vars == <<state, stopped, cmd, cancelled, endpoint, proc, spc, mpc, mcmd, watcher, callVars, faults>>

Pid == 1 .. MaxProc
Live == {"booting", "ready"}

\* Every variable has its type.
TypeOK ==
    /\ state \in {"STOPPED", "STARTING", "RUNNING", "RESTARTING"}
    /\ stopped \in BOOLEAN /\ cancelled \in BOOLEAN /\ endpoint \in BOOLEAN
    /\ cmd \in 0 .. MaxProc /\ mcmd \in 0 .. MaxProc
    /\ stcmd \in 0 .. MaxProc /\ rcmd \in 0 .. MaxProc
    /\ proc \in [Pid -> Live \cup {"none", "dead", "reaped"}]
    /\ spc \in {"begin", "validate", "launch", "ready", "done", "failed"}
    /\ mpc \in {"none", "top", "wait", "clear", "check", "poll", "backoff", "validate",
                "launch", "ready", "up", "ended", "panic"}
    /\ watcher \in {"none", "waiting", "ended"}
    /\ stpc \in {"idle", "term", "wait", "join", "done"}
    /\ rpc \in {"idle", "lock", "term", "wait", "validate", "launch", "ready", "up", "done"}
    /\ faults \in 0 .. MaxFaults

Init ==
    /\ state = "STOPPED"
    /\ stopped = FALSE /\ cancelled = FALSE /\ endpoint = FALSE
    /\ cmd = 0 /\ mcmd = 0 /\ stcmd = 0 /\ rcmd = 0
    /\ proc = [p \in Pid |-> "none"]
    /\ spc = "begin" /\ mpc = "none" /\ watcher = "none" /\ stpc = "idle" /\ rpc = "idle"
    /\ faults = 0
------------------------------------------------------------------------------
(* Processes *)

Fault(kind) == kind \in Faults /\ faults < MaxFaults /\ faults' = faults + 1

Killed(p) == [q \in Pid |-> IF q = p /\ proc[q] \in Live THEN "dead" ELSE proc[q]]

\* A panic in any goroutine ends the whole program.
Running == mpc # "panic"

\* A death that waitReady still sees is a failed readiness check.
Crash(p) ==
    /\ Running
    /\ proc[p] = "ready"
    /\ "ready" \notin {spc, mpc, rpc}
    /\ Fault("crash")
    /\ proc' = Killed(p)
    /\ UNCHANGED <<state, stopped, cmd, cancelled, endpoint, spc, mpc, mcmd, watcher, callVars>>

\* The ports can be bound by one process only; another one gives up.
Listen(p) ==
    /\ Running
    /\ proc[p] = "booting"
    /\ proc' = [proc EXCEPT ![p] = IF \E q \in Pid : proc[q] = "ready" THEN "dead" ELSE "ready"]
    /\ UNCHANGED <<state, stopped, cmd, cancelled, endpoint, spc, mpc, mcmd, watcher, callVars, faults>>

\* startProcessLocked
Launched(p) == proc[p] = "none" /\ (p > 1 => proc[p - 1] # "none")
StartProcess(p) ==
    /\ Launched(p)
    /\ proc' = [proc EXCEPT ![p] = "booting"]
    /\ cmd' = p

\* waitReady connects to the ports, whoever listens there, or times out.
IsReady == \E p \in Pid : proc[p] = "ready"
ReadyMayFail ==
    \/ Fault("unready")
    \/ (\A p \in Pid : proc[p] \notin Live) /\ UNCHANGED faults
------------------------------------------------------------------------------
(* Start *)

StartBegin ==
    /\ spc = "begin"
    /\ state' = "STARTING"
    /\ stopped' = FALSE
    /\ endpoint' = FALSE
    /\ spc' = "validate"
    /\ UNCHANGED <<cmd, cancelled, proc, mpc, mcmd, watcher, callVars, faults>>

StartValidate ==
    /\ spc = "validate"
    /\ \/ spc' = "launch" /\ UNCHANGED <<state, faults>>
       \/ Fault("config") /\ spc' = "failed" /\ state' = "STOPPED"
    /\ UNCHANGED <<stopped, cmd, cancelled, endpoint, proc, mpc, mcmd, watcher, callVars>>

StartLaunch(p) ==
    /\ spc = "launch"
    /\ StartProcess(p)
    /\ spc' = "ready"
    /\ UNCHANGED <<state, stopped, cancelled, endpoint, mpc, mcmd, watcher, callVars, faults>>

StartLaunchFail ==
    /\ spc = "launch"
    /\ Fault("start")
    /\ spc' = "failed"
    /\ state' = "STOPPED"
    /\ UNCHANGED <<stopped, cmd, cancelled, endpoint, proc, mpc, mcmd, watcher, callVars>>

StartReady ==
    /\ spc = "ready"
    /\ IsReady
    /\ state' = "RUNNING"
    /\ endpoint' = TRUE
    /\ spc' = "done"
    /\ mpc' = "top"
    /\ watcher' = "waiting"
    /\ UNCHANGED <<stopped, cmd, cancelled, proc, mcmd, callVars, faults>>

\* Stop, with no other goroutine about.
StartReadyFail ==
    /\ spc = "ready"
    /\ ReadyMayFail
    /\ stopped' = TRUE
    /\ state' = "STOPPED"
    /\ cancelled' = TRUE
    /\ proc' = Killed(cmd)
    /\ spc' = "failed"
    /\ UNCHANGED <<cmd, endpoint, mpc, mcmd, watcher, callVars>>
------------------------------------------------------------------------------
(* monitorLoop *)

monUnchanged == UNCHANGED <<spc, watcher, callVars>>

MonTop ==
    /\ mpc = "top"
    /\ mcmd' = cmd
    /\ mpc' = IF stopped THEN "ended" ELSE "wait"
    /\ UNCHANGED <<state, stopped, cmd, cancelled, endpoint, proc, faults>> /\ monUnchanged

\* Mutant: any return of Wait is taken for an exit.
MonWaitEager ==
    /\ mpc = "wait"
    /\ mpc' = "clear"
    /\ UNCHANGED <<state, stopped, cmd, cancelled, endpoint, proc, mcmd, faults>> /\ monUnchanged

\* cmd.Wait and close(doneChan).  Wait on a reaped command fails at once, and
\* its channel is closed already.
MonWait ==
    /\ mpc = "wait"
    /\ \/ /\ proc[mcmd] = "dead"
          /\ proc' = [proc EXCEPT ![mcmd] = "reaped"]
          /\ mpc' = "clear"
       \/ /\ proc[mcmd] = "reaped"
          /\ mpc' = "panic"
          /\ UNCHANGED proc
    /\ UNCHANGED <<state, stopped, cmd, cancelled, endpoint, mcmd, faults>> /\ monUnchanged

MonClear ==
    /\ mpc = "clear"
    /\ endpoint' = FALSE
    /\ mpc' = "check"
    /\ UNCHANGED <<state, stopped, cmd, cancelled, proc, mcmd, faults>> /\ monUnchanged

\* Stopped, a manual restart, or a crash.
MonCheck ==
    /\ mpc = "check"
    /\ mpc' = IF stopped THEN "ended"
              ELSE IF state = "RESTARTING" THEN "poll" ELSE "backoff"
    /\ state' = IF stopped THEN state ELSE "RESTARTING"
    /\ UNCHANGED <<stopped, cmd, cancelled, endpoint, proc, mcmd, faults>> /\ monUnchanged

\* Mutant: the wait for a manual restart only ends with success.
MonPollRunning ==
    /\ mpc = "poll"
    /\ state = "RUNNING"
    /\ mpc' = "top"
    /\ UNCHANGED <<state, stopped, cmd, cancelled, endpoint, proc, mcmd, faults>> /\ monUnchanged

MonPoll ==
    /\ mpc = "poll"
    /\ stopped \/ state \in {"RUNNING", "STOPPED"}
    /\ mpc' = "top"
    /\ UNCHANGED <<state, stopped, cmd, cancelled, endpoint, proc, mcmd, faults>> /\ monUnchanged

MonBackoff ==
    /\ mpc = "backoff"
    /\ \/ mpc' = "validate" /\ UNCHANGED endpoint
       \/ cancelled /\ mpc' = "ended" /\ endpoint' = FALSE
    /\ UNCHANGED <<state, stopped, cmd, cancelled, proc, mcmd, faults>> /\ monUnchanged

\* A failure goes back to the top of the loop.
MonValidate ==
    /\ mpc = "validate"
    /\ \/ mpc' = "launch" /\ UNCHANGED faults
       \/ Fault("config") /\ mpc' = "top"
    /\ UNCHANGED <<state, stopped, cmd, cancelled, endpoint, proc, mcmd>> /\ monUnchanged

\* Mutant: the recovery does not look at stopped again.
MonLaunchBlind(p) ==
    /\ mpc = "launch"
    /\ StartProcess(p)
    /\ mpc' = "ready"
    /\ UNCHANGED <<state, stopped, cancelled, endpoint, mcmd, faults>> /\ monUnchanged

MonLaunch(p) ==
    /\ mpc = "launch"
    /\ ~stopped
    /\ StartProcess(p)
    /\ mpc' = "ready"
    /\ UNCHANGED <<state, stopped, cancelled, endpoint, mcmd, faults>> /\ monUnchanged

MonLaunchNot ==
    /\ mpc = "launch"
    /\ \/ stopped /\ mpc' = "ended" /\ UNCHANGED faults
       \/ ~stopped /\ Fault("start") /\ mpc' = "top"
    /\ UNCHANGED <<state, stopped, cmd, cancelled, endpoint, proc, mcmd>> /\ monUnchanged

MonReady ==
    /\ mpc = "ready"
    /\ IsReady
    /\ mpc' = "up"
    /\ UNCHANGED <<state, stopped, cmd, cancelled, endpoint, proc, mcmd, faults>> /\ monUnchanged

\* KillCurrentProcess, then the top of the loop with state still RESTARTING.
MonReadyFail ==
    /\ mpc = "ready"
    /\ ReadyMayFail
    /\ proc' = Killed(cmd)
    /\ mpc' = "top"
    /\ UNCHANGED <<state, stopped, cmd, cancelled, endpoint, mcmd>> /\ monUnchanged

MonUp ==
    /\ mpc = "up"
    /\ state' = "RUNNING"
    /\ endpoint' = TRUE
    /\ mpc' = "top"
    /\ UNCHANGED <<stopped, cmd, cancelled, proc, mcmd, faults>> /\ monUnchanged
------------------------------------------------------------------------------
(* The context watcher and Stop *)

Watch ==
    /\ Running
    /\ watcher = "waiting" /\ cancelled
    /\ endpoint' = FALSE
    /\ proc' = Killed(cmd)
    /\ watcher' = "ended"
    /\ UNCHANGED <<state, stopped, cmd, cancelled, spc, mpc, mcmd, callVars, faults>>

Stop ==
    /\ Running /\ "stop" \in Calls /\ spc = "done" /\ stpc = "idle"
    /\ stopped' = TRUE
    /\ state' = "STOPPED"
    /\ endpoint' = FALSE
    /\ cancelled' = TRUE
    /\ stcmd' = cmd
    /\ stpc' = "term"
    /\ UNCHANGED <<cmd, proc, spc, mpc, mcmd, watcher, rpc, rcmd, faults>>

\* SIGTERM
StopTerm ==
    /\ Running /\ stpc = "term"
    /\ \/ proc' = Killed(stcmd) /\ UNCHANGED faults
       \/ Fault("stubborn") /\ UNCHANGED proc
    /\ stpc' = "wait"
    /\ UNCHANGED <<state, stopped, cmd, cancelled, endpoint, spc, mpc, mcmd, watcher, stcmd, rpc, rcmd>>

\* done is closed, or SIGKILL after two seconds.
StopWait ==
    /\ Running /\ stpc = "wait"
    /\ proc' = IF proc[stcmd] = "reaped" THEN proc ELSE Killed(stcmd)
    /\ stpc' = "join"
    /\ UNCHANGED <<state, stopped, cmd, cancelled, endpoint, spc, mpc, mcmd, watcher, stcmd, rpc, rcmd, faults>>

\* Mutant: the endpoint is not cleared again after the goroutines are gone.
StopJoinBare ==
    /\ Running /\ stpc = "join"
    /\ mpc = "ended" /\ watcher = "ended"
    /\ stpc' = "done"
    /\ UNCHANGED <<state, stopped, cmd, cancelled, endpoint, proc, spc, mpc, mcmd, watcher, stcmd, rpc, rcmd, faults>>

\* wg.Wait
StopJoin ==
    /\ Running /\ stpc = "join"
    /\ mpc = "ended" /\ watcher = "ended"
    /\ endpoint' = FALSE
    /\ stpc' = "done"
    /\ UNCHANGED <<state, stopped, cmd, cancelled, proc, spc, mpc, mcmd, watcher, stcmd, rpc, rcmd, faults>>
------------------------------------------------------------------------------
(* Restart *)

restartUnchanged == UNCHANGED <<cancelled, spc, mpc, mcmd, watcher, stpc, stcmd>>

Restart ==
    /\ Running /\ "restart" \in Calls /\ spc = "done" /\ rpc = "idle"
    /\ endpoint' = FALSE
    /\ rpc' = "lock"
    /\ UNCHANGED <<state, stopped, cmd, proc, rcmd, faults>> /\ restartUnchanged

RestartLock ==
    /\ Running /\ rpc = "lock"
    /\ IF stopped \/ state = "RESTARTING"
       THEN rpc' = "done" /\ UNCHANGED <<state, rcmd>>
       ELSE rpc' = "term" /\ state' = "RESTARTING" /\ rcmd' = cmd
    /\ UNCHANGED <<stopped, cmd, endpoint, proc, faults>> /\ restartUnchanged

RestartTerm ==
    /\ Running /\ rpc = "term"
    /\ \/ proc' = Killed(rcmd) /\ UNCHANGED faults
       \/ Fault("stubborn") /\ UNCHANGED proc
    /\ rpc' = "wait"
    /\ UNCHANGED <<state, stopped, cmd, endpoint, rcmd>> /\ restartUnchanged

RestartWait ==
    /\ Running /\ rpc = "wait"
    /\ proc' = IF proc[rcmd] = "reaped" THEN proc ELSE Killed(rcmd)
    /\ endpoint' = FALSE
    /\ rpc' = "validate"
    /\ UNCHANGED <<state, stopped, cmd, rcmd, faults>> /\ restartUnchanged

RestartValidate ==
    /\ Running /\ rpc = "validate"
    /\ \/ rpc' = "launch" /\ UNCHANGED <<state, endpoint, faults>>
       \/ Fault("config") /\ rpc' = "done" /\ state' = "STOPPED" /\ endpoint' = FALSE
    /\ UNCHANGED <<stopped, cmd, proc, rcmd>> /\ restartUnchanged

RestartLaunch(p) ==
    /\ Running /\ rpc = "launch"
    /\ ~stopped
    /\ StartProcess(p)
    /\ rpc' = "ready"
    /\ UNCHANGED <<state, stopped, endpoint, rcmd, faults>> /\ restartUnchanged

RestartLaunchNot ==
    /\ Running /\ rpc = "launch"
    /\ \/ stopped /\ UNCHANGED <<state, faults>>
       \/ ~stopped /\ Fault("start") /\ state' = "STOPPED"
    /\ endpoint' = FALSE
    /\ rpc' = "done"
    /\ UNCHANGED <<stopped, cmd, proc, rcmd>> /\ restartUnchanged

RestartReady ==
    /\ Running /\ rpc = "ready"
    /\ IsReady
    /\ rpc' = "up"
    /\ UNCHANGED <<state, stopped, cmd, endpoint, proc, rcmd, faults>> /\ restartUnchanged

RestartReadyFail ==
    /\ Running /\ rpc = "ready"
    /\ ReadyMayFail
    /\ proc' = Killed(cmd)
    /\ state' = "STOPPED"
    /\ endpoint' = FALSE
    /\ rpc' = "done"
    /\ UNCHANGED <<stopped, cmd, rcmd>> /\ restartUnchanged

RestartUp ==
    /\ Running /\ rpc = "up"
    /\ state' = "RUNNING"
    /\ endpoint' = TRUE
    /\ rpc' = "done"
    /\ UNCHANGED <<stopped, cmd, proc, rcmd, faults>> /\ restartUnchanged
------------------------------------------------------------------------------
(* Specification *)

StartStep ==
    \/ StartBegin \/ StartValidate \/ StartLaunchFail \/ StartReady \/ StartReadyFail
    \/ \E p \in Pid : StartLaunch(p)

MonStep ==
    \/ MonTop \/ MonWait \/ MonClear \/ MonCheck \/ MonPoll \/ MonBackoff \/ MonValidate
    \/ \E p \in Pid : MonLaunch(p)
    \/ MonLaunchNot \/ MonReady \/ MonReadyFail \/ MonUp

StopStep == StopTerm \/ StopWait \/ StopJoin

RestartStep ==
    \/ RestartLock \/ RestartTerm \/ RestartWait \/ RestartValidate
    \/ \E p \in Pid : RestartLaunch(p)
    \/ RestartLaunchNot \/ RestartReady \/ RestartReadyFail \/ RestartUp

Next ==
    \/ StartStep \/ MonStep \/ Watch \/ StopStep \/ RestartStep
    \/ Stop \/ Restart
    \/ \E p \in Pid : Crash(p)
    \/ \E p \in Pid : Listen(p)

Spec == Init /\ [][Next]_vars

\* Every goroutine goes on, every wait has a timeout, a launched Xray that does
\* not fail gets to listen.  Nothing is assumed of calls, crashes and failures.
FairSpec ==
    /\ Spec
    /\ WF_vars(StartStep) /\ WF_vars(MonStep) /\ WF_vars(Watch)
    /\ WF_vars(StopStep) /\ WF_vars(RestartStep)
    /\ \A p \in Pid : WF_vars(Listen(p))
------------------------------------------------------------------------------
(* Properties *)

\* The first three are about the supervisor as the manager uses it, without
\* Restart, which can leave a second process behind: monitorLoop may take a
\* finished restart for a crash.
NoRestart == rpc = "idle"

\* Once Stop has returned no Xray is left running and none is launched: a recovery
\* that was in its backoff or about to launch notices (Stop, monitorLoop).
NothingRunsAfterStop == NoRestart /\ stpc = "done" => \A p \in Pid : proc[p] \notin Live

\* Two Xray processes never run at the same time: a successor is launched only when
\* the process before it is gone (startProcessLocked replaces s.cmd, and with it the
\* only handle to the old process).
OneXray ==
    NoRestart => \A p, q \in Pid : proc[p] \in Live /\ proc[q] \in Live => p = q

\* No endpoint stays published once Stop has returned, although a recovery may
\* register it in the middle of Stop (GetRuntimeVlessEndpoint).
EndpointWithdrawn == NoRestart /\ stpc = "done" => ~endpoint

\* Stop returns (or the program has panicked, see WaitedOnce): it never waits for
\* a goroutine that waits for something else.
StopEnds == stpc # "idle" ~> stpc = "done" \/ ~Running
------------------------------------------------------------------------------
(* What the repository states and the code does not keep *)

\* monitorLoop: "Single owner of cmd.Wait()"; each command is waited for once.
WaitedOnce == mpc # "panic"
==============================================================================
