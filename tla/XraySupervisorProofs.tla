------------------------ MODULE XraySupervisorProofs ------------------------
(* Theorems about the supervisor as the manager uses it (Start, crash recovery, *)
(* Stop), for any number of processes and failures.                             *)
EXTENDS XraySupervisor, TLAPS

ProcType == Live \cup {"none", "dead", "reaped"}

\* Killing a process keeps the table of processes well formed and ends at most it.
LEMMA KilledFacts ==
    ASSUME NEW k, proc \in [Pid -> ProcType]
    PROVE  /\ Killed(k) \in [Pid -> ProcType]
           /\ \A q \in Pid : Killed(k)[q] \in Live => proc[q] \in Live /\ q # k
BY DEF Killed, ProcType, Live

\* Failures stay within their bound.
LEMMA FaultType ==
    ASSUME faults \in 0 .. MaxFaults, NEW k, Fault(k)
    PROVE  faults' \in 0 .. MaxFaults
BY SupervisorAssumption DEF Fault

\* The types hold initially.
LEMMA TypeInit == Init => TypeOK
<1> SUFFICES ASSUME Init PROVE TypeOK
  OBVIOUS
<1>1. 0 \in 0 .. MaxProc /\ 0 \in 0 .. MaxFaults
  BY SupervisorAssumption
<1>2. proc \in [Pid -> Live \cup {"none", "dead", "reaped"}]
  BY DEF Init
<1> QED BY <1>1, <1>2 DEF Init, TypeOK

\* Every step preserves the types.
LEMMA TypeStep == TypeOK /\ [Next]_vars => TypeOK'
<1> SUFFICES ASSUME TypeOK, [Next]_vars PROVE TypeOK'
  OBVIOUS
<1>p. Pid \subseteq 0 .. MaxProc
  BY SupervisorAssumption DEF Pid
<1>k. \A k : Killed(k) \in [Pid -> ProcType]
  BY KilledFacts DEF TypeOK, ProcType
<1>f. \A k : Fault(k) => faults' \in 0 .. MaxFaults
  BY FaultType DEF TypeOK
<1>r. ReadyMayFail => faults' \in 0 .. MaxFaults
  BY <1>f DEF ReadyMayFail, TypeOK
<1> HIDE DEF Pid
<1>1. CASE StartStep
  <2>1. ASSUME NEW p \in Pid, StartLaunch(p) PROVE TypeOK'
    BY <2>1, <1>p DEF StartLaunch, StartProcess, callVars, TypeOK, Live
  <2>2. CASE StartBegin \/ StartReady
    BY <2>2 DEF StartBegin, StartReady, callVars, TypeOK
  <2>3. CASE StartValidate \/ StartLaunchFail
    BY <2>3, <1>f DEF StartValidate, StartLaunchFail, callVars, TypeOK
  <2>4. CASE StartReadyFail
    BY <2>4, <1>r, <1>k DEF StartReadyFail, callVars, TypeOK, ProcType
  <2> QED BY <1>1, <2>1, <2>2, <2>3, <2>4 DEF StartStep
<1>2. CASE MonStep
  <2>1. ASSUME NEW p \in Pid, MonLaunch(p) PROVE TypeOK'
    BY <2>1, <1>p DEF MonLaunch, StartProcess, monUnchanged, callVars, TypeOK, Live
  <2>2. CASE MonTop \/ MonClear \/ MonCheck \/ MonPoll \/ MonBackoff \/ MonReady \/ MonUp
    BY <2>2 DEF MonTop, MonClear, MonCheck, MonPoll, MonBackoff, MonReady, MonUp,
                monUnchanged, callVars, TypeOK
  <2>3. CASE MonWait
    BY <2>3 DEF MonWait, monUnchanged, callVars, TypeOK
  <2>4. CASE MonValidate \/ MonLaunchNot
    BY <2>4, <1>f DEF MonValidate, MonLaunchNot, monUnchanged, callVars, TypeOK
  <2>5. CASE MonReadyFail
    BY <2>5, <1>r, <1>k DEF MonReadyFail, monUnchanged, callVars, TypeOK, ProcType
  <2> QED BY <1>2, <2>1, <2>2, <2>3, <2>4, <2>5 DEF MonStep
<1>3. CASE Watch
  <2>1. proc' \in [Pid -> ProcType]
    BY <1>3, <1>k DEF Watch
  <2>2. endpoint' \in BOOLEAN /\ watcher' \in {"none", "waiting", "ended"}
    BY <1>3 DEF Watch
  <2>3. UNCHANGED <<state, stopped, cmd, cancelled, spc, mpc, mcmd, stpc, stcmd, rpc, rcmd, faults>>
    BY <1>3 DEF Watch, callVars
  <2> QED BY <2>1, <2>2, <2>3 DEF TypeOK, ProcType
<1>4. CASE StopStep
  <2>1. CASE StopTerm
    BY <2>1, <1>k, <1>f DEF StopTerm, TypeOK, ProcType
  <2>2. CASE StopWait
    BY <2>2, <1>k DEF StopWait, TypeOK, ProcType
  <2>3. CASE StopJoin
    BY <2>3 DEF StopJoin, TypeOK
  <2> QED BY <1>4, <2>1, <2>2, <2>3 DEF StopStep
<1>5. CASE RestartStep
  <2>1. ASSUME NEW p \in Pid, RestartLaunch(p) PROVE TypeOK'
    BY <2>1, <1>p DEF RestartLaunch, StartProcess, restartUnchanged, TypeOK, Live
  <2>2. CASE RestartLock \/ RestartReady \/ RestartUp
    BY <2>2 DEF RestartLock, RestartReady, RestartUp, restartUnchanged, TypeOK
  <2>3. CASE RestartTerm
    BY <2>3, <1>k, <1>f DEF RestartTerm, restartUnchanged, TypeOK, ProcType
  <2>4. CASE RestartWait
    <3>1. proc' \in [Pid -> ProcType]
      BY <2>4, <1>k DEF RestartWait, TypeOK, ProcType
    <3>2. endpoint' \in BOOLEAN
      BY <2>4 DEF RestartWait
    <3>3. UNCHANGED <<state, stopped, cmd, cancelled, spc, mpc, mcmd, watcher, stpc, stcmd, rcmd, faults>>
      BY <2>4 DEF RestartWait, restartUnchanged
    <3>4. rpc' \in {"idle", "lock", "term", "wait", "validate", "launch", "ready", "up", "done"}
      BY <2>4 DEF RestartWait
    <3> QED BY <3>1, <3>2, <3>3, <3>4 DEF TypeOK, ProcType
  <2>5. CASE RestartValidate \/ RestartLaunchNot
    BY <2>5, <1>f DEF RestartValidate, RestartLaunchNot, restartUnchanged, TypeOK
  <2>6. CASE RestartReadyFail
    <3>1. proc' \in [Pid -> ProcType] /\ faults' \in 0 .. MaxFaults
      BY <2>6, <1>k, <1>r DEF RestartReadyFail
    <3>2. endpoint' \in BOOLEAN
      BY <2>6 DEF RestartReadyFail
    <3>3. state' \in {"STOPPED", "STARTING", "RUNNING", "RESTARTING"}
      BY <2>6 DEF RestartReadyFail
    <3>4. UNCHANGED <<stopped, cmd, cancelled, spc, mpc, mcmd, watcher, stpc, stcmd, rcmd>>
      BY <2>6 DEF RestartReadyFail, restartUnchanged
    <3>5. rpc' \in {"idle", "lock", "term", "wait", "validate", "launch", "ready", "up", "done"}
      BY <2>6 DEF RestartReadyFail
    <3> QED BY <3>1, <3>2, <3>3, <3>4, <3>5 DEF TypeOK, ProcType
  <2> QED BY <1>5, <2>1, <2>2, <2>3, <2>4, <2>5, <2>6 DEF RestartStep
<1>6. CASE Stop
  BY <1>6 DEF Stop, TypeOK
<1>7. CASE Restart
  <2>1. /\ rpc' \in {"idle", "lock", "term", "wait", "validate", "launch", "ready", "up", "done"}
        /\ endpoint' \in BOOLEAN
    BY <1>7 DEF Restart
  <2>2. UNCHANGED <<state, stopped, cmd, proc, cancelled, spc, mpc, mcmd, watcher, stpc, stcmd,
                    rcmd, faults>>
    BY <1>7 DEF Restart, restartUnchanged
  <2> QED BY <2>1, <2>2 DEF TypeOK
<1>8. ASSUME NEW p \in Pid, Crash(p) PROVE TypeOK'
  <2>1. proc' \in [Pid -> ProcType] /\ faults' \in 0 .. MaxFaults
    BY <1>8, <1>k, <1>f DEF Crash
  <2>2. UNCHANGED <<state, stopped, cmd, cancelled, endpoint, spc, mpc, mcmd, watcher, stpc,
                    stcmd, rpc, rcmd>>
    BY <1>8 DEF Crash, callVars
  <2> QED BY <2>1, <2>2 DEF TypeOK, ProcType
<1>9. ASSUME NEW p \in Pid, Listen(p) PROVE TypeOK'
  BY <1>9 DEF Listen, callVars, TypeOK, Live
<1>10. CASE UNCHANGED vars
  BY <1>10 DEF vars, callVars, TypeOK
<1> QED BY <1>1, <1>2, <1>3, <1>4, <1>5, <1>6, <1>7, <1>8, <1>9, <1>10 DEF Next

\* Every variable of the supervisor keeps its type.
THEOREM TypeCorrect == Spec => []TypeOK
BY TypeInit, TypeStep, PTL DEF Spec
------------------------------------------------------------------------------
(* One Xray at a time *)

\* As long as Restart has not been called, none of its steps has been taken.
LEMMA RestartUnused ==
    ASSUME [Next]_vars, NoRestart'
    PROVE  NoRestart /\ ~RestartStep /\ ~Restart
<1>1. ~RestartStep
  BY DEF NoRestart, RestartStep, RestartLock, RestartTerm, RestartWait, RestartValidate,
         RestartLaunch, RestartLaunchNot, RestartReady, RestartReadyFail, RestartUp
<1>2. ~Restart
  BY DEF NoRestart, Restart
<1>3. rpc' = rpc
  <2>1. CASE StartStep
    BY <2>1 DEF StartStep, StartBegin, StartValidate, StartLaunch, StartLaunchFail, StartReady,
                StartReadyFail, callVars
  <2>2. CASE MonStep
    BY <2>2 DEF MonStep, MonTop, MonWait, MonClear, MonCheck, MonPoll, MonBackoff, MonValidate,
                MonLaunch, MonLaunchNot, MonReady, MonReadyFail, MonUp, monUnchanged, callVars
  <2>3. CASE Watch \/ StopStep \/ Stop
    BY <2>3 DEF Watch, StopStep, StopTerm, StopWait, StopJoin, Stop, callVars
  <2>4. CASE (\E p \in Pid : Crash(p) \/ Listen(p)) \/ UNCHANGED vars
    BY <2>4 DEF Crash, Listen, vars, callVars
  <2> QED BY <1>1, <1>2, <2>1, <2>2, <2>3, <2>4 DEF Next
<1> QED BY <1>1, <1>2, <1>3 DEF NoRestart

\* The program points of the monitor between a reaped process and a new one.
Between == {"clear", "check", "backoff", "validate", "launch"}

\* Only the current command can be a live process, and there is none while Start
\* has not launched one or the monitor is about to: without the second part the
\* next launch could leave a live process behind.
LiveIsCurrent ==
    /\ \A p \in Pid : proc[p] \in Live => p = cmd
    /\ spc \in {"begin", "validate", "launch"} => \A p \in Pid : proc[p] \notin Live
    /\ spc # "done" => mpc = "none"
    /\ mpc = "wait" => mcmd = cmd
    /\ mpc \in Between => \A p \in Pid : proc[p] \notin Live

\* Every step but those of a restart preserves it.
LEMMA LiveStep ==
    ASSUME TypeOK, LiveIsCurrent, [Next]_vars, ~RestartStep, ~Restart
    PROVE  LiveIsCurrent'
<1>k. \A k, q : q \in Pid /\ Killed(k)[q] \in Live => proc[q] \in Live
  BY KilledFacts DEF TypeOK, ProcType
<1>t. proc \in [Pid -> ProcType]
  BY DEF TypeOK, ProcType
<1> HIDE DEF Pid
<1>1. CASE StartStep
  <2>1. ASSUME NEW p \in Pid, StartLaunch(p) PROVE LiveIsCurrent'
    BY <2>1, <1>t DEF StartLaunch, StartProcess, callVars, LiveIsCurrent, Between
  <2>2. CASE StartBegin \/ StartReady \/ StartValidate \/ StartLaunchFail
    BY <2>2 DEF StartBegin, StartReady, StartValidate, StartLaunchFail, callVars,
                LiveIsCurrent, Between
  <2>3. CASE StartReadyFail
    BY <2>3, <1>k DEF StartReadyFail, callVars, LiveIsCurrent, Between
  <2> QED BY <1>1, <2>1, <2>2, <2>3 DEF StartStep
<1>2. CASE MonStep
  <2>1. ASSUME NEW p \in Pid, MonLaunch(p) PROVE LiveIsCurrent'
    BY <2>1, <1>t DEF MonLaunch, StartProcess, monUnchanged, callVars, LiveIsCurrent, Between
  <2>2. CASE MonTop \/ MonPoll \/ MonReady \/ MonUp
    BY <2>2 DEF MonTop, MonPoll, MonReady, MonUp, monUnchanged, callVars, LiveIsCurrent, Between
  <2>3. CASE MonClear \/ MonCheck \/ MonBackoff \/ MonValidate \/ MonLaunchNot
    BY <2>3 DEF MonClear, MonCheck, MonBackoff, MonValidate, MonLaunchNot,
                monUnchanged, callVars, LiveIsCurrent, Between
  <2>4. CASE MonWait
    <3>1. CASE mpc' = "panic"
      BY <2>4, <3>1 DEF MonWait, monUnchanged, callVars, LiveIsCurrent, Between
    <3>2. CASE proc[mcmd] = "dead" /\ proc' = [proc EXCEPT ![mcmd] = "reaped"] /\ mpc' = "clear"
      <4>1. \A p \in Pid : proc'[p] \notin Live
        BY <2>4, <3>2, <1>t DEF MonWait, LiveIsCurrent, Live
      <4> QED BY <2>4, <3>2, <4>1 DEF MonWait, monUnchanged, callVars, LiveIsCurrent, Between
    <3> QED BY <2>4, <3>1, <3>2 DEF MonWait
  <2>5. CASE MonReadyFail
    BY <2>5, <1>k DEF MonReadyFail, monUnchanged, callVars, LiveIsCurrent, Between
  <2> QED BY <1>2, <2>1, <2>2, <2>3, <2>4, <2>5 DEF MonStep
<1>3. CASE Watch
  <2>1. \A q \in Pid : proc'[q] \in Live => proc[q] \in Live
    BY <1>3, <1>k DEF Watch
  <2>2. UNCHANGED <<cmd, spc, mpc, mcmd, rpc>>
    BY <1>3 DEF Watch, callVars
  <2> QED BY <2>1, <2>2 DEF LiveIsCurrent
<1>4. CASE StopStep
  <2>1. \A q \in Pid : proc'[q] \in Live => proc[q] \in Live
    BY <1>4, <1>k DEF StopStep, StopTerm, StopWait, StopJoin
  <2>2. UNCHANGED <<cmd, spc, mpc, mcmd, rpc>>
    BY <1>4 DEF StopStep, StopTerm, StopWait, StopJoin
  <2> QED BY <2>1, <2>2 DEF LiveIsCurrent
<1>5. ~RestartStep /\ ~Restart
  OBVIOUS
<1>6. CASE Stop
  BY <1>6 DEF Stop, LiveIsCurrent
<1>7. ASSUME NEW p \in Pid, Crash(p) PROVE LiveIsCurrent'
  BY <1>7, <1>k DEF Crash, callVars, LiveIsCurrent
<1>8. ASSUME NEW p \in Pid, Listen(p) PROVE LiveIsCurrent'
  <2>1. \A q \in Pid : proc'[q] \in Live => proc[q] \in Live
    BY <1>8, <1>t DEF Listen, Live
  <2> QED BY <1>8, <2>1 DEF Listen, callVars, LiveIsCurrent
<1>9. CASE UNCHANGED vars
  BY <1>9 DEF vars, callVars, LiveIsCurrent
<1> QED BY <1>1, <1>2, <1>3, <1>4, <1>5, <1>6, <1>7, <1>8, <1>9 DEF Next

\* It holds initially.
LEMMA LiveInit == Init => LiveIsCurrent
BY DEF Init, LiveIsCurrent, Between, Live

\* Until Restart is called the supervisor never has two Xray processes at once,
\* however often Xray crashes or fails to start.
THEOREM NeverTwoXrays == Spec => []OneXray
<1>1. TypeOK /\ (NoRestart => LiveIsCurrent) /\ [Next]_vars => (NoRestart => LiveIsCurrent)'
  BY LiveStep, RestartUnused
<1>2. (NoRestart => LiveIsCurrent) => OneXray
  BY DEF LiveIsCurrent, OneXray
<1> QED BY <1>1, <1>2, LiveInit, TypeCorrect, PTL DEF Spec
------------------------------------------------------------------------------
(* Nothing outlives Stop *)

\* Stop has captured the current command, which no launch replaces any more, and
\* once Stop joins the goroutines that command is dead.
StopFinal ==
    /\ stpc # "idle" => stopped /\ stcmd = cmd
    /\ stpc \in {"join", "done"} => \A p \in Pid : proc[p] \notin Live
    /\ stpc # "idle" => spc = "done"

\* Every step but those of a restart preserves it.
LEMMA StopStepFinal ==
    ASSUME TypeOK, LiveIsCurrent, StopFinal, [Next]_vars, ~RestartStep, ~Restart
    PROVE  StopFinal'
<1>k. \A k, q : q \in Pid /\ Killed(k)[q] \in Live => proc[q] \in Live /\ q # k
  BY KilledFacts DEF TypeOK, ProcType
<1>t. proc \in [Pid -> ProcType]
  BY DEF TypeOK, ProcType
<1> HIDE DEF Pid
<1>1. CASE StartStep
  BY <1>1 DEF StartStep, StartBegin, StartValidate, StartLaunch, StartLaunchFail, StartReady,
              StartReadyFail, callVars, StopFinal
<1>2. CASE MonStep
  <2>1. ASSUME NEW p \in Pid, MonLaunch(p) PROVE StopFinal'
    BY <2>1 DEF MonLaunch, monUnchanged, callVars, StopFinal
  <2>2. CASE MonTop \/ MonClear \/ MonCheck \/ MonPoll \/ MonBackoff \/ MonReady \/ MonUp
    BY <2>2 DEF MonTop, MonClear, MonCheck, MonPoll, MonBackoff, MonReady, MonUp,
                monUnchanged, callVars, StopFinal
  <2>3. CASE MonValidate \/ MonLaunchNot
    BY <2>3 DEF MonValidate, MonLaunchNot, monUnchanged, callVars, StopFinal
  <2>4. CASE MonWait
    <3>1. \A q \in Pid : proc'[q] \in Live => proc[q] \in Live
      BY <2>4, <1>t DEF MonWait, Live
    <3> QED BY <2>4, <3>1 DEF MonWait, monUnchanged, callVars, StopFinal
  <2>5. CASE MonReadyFail
    BY <2>5, <1>k DEF MonReadyFail, monUnchanged, callVars, StopFinal
  <2> QED BY <1>2, <2>1, <2>2, <2>3, <2>4, <2>5 DEF MonStep
<1>3. CASE Watch
  <2>1. \A q \in Pid : proc'[q] \in Live => proc[q] \in Live
    BY <1>3, <1>k DEF Watch
  <2>2. UNCHANGED <<cmd, spc, stopped, stpc, stcmd>>
    BY <1>3 DEF Watch, callVars
  <2> QED BY <2>1, <2>2 DEF StopFinal
<1>4. CASE StopTerm
  BY <1>4 DEF StopTerm, StopFinal
<1>5. CASE StopWait
  <2>1. \A p \in Pid : proc'[p] \notin Live
    BY <1>5, <1>k DEF StopWait, StopFinal, LiveIsCurrent, Live
  <2> QED BY <1>5, <2>1 DEF StopWait, StopFinal
<1>6. CASE StopJoin
  BY <1>6 DEF StopJoin, StopFinal
<1>7. ~RestartStep /\ ~Restart
  OBVIOUS
<1>8. CASE Stop
  BY <1>8 DEF Stop, StopFinal
<1>9. ASSUME NEW p \in Pid, Crash(p) PROVE StopFinal'
  BY <1>9, <1>k DEF Crash, callVars, StopFinal
<1>10. ASSUME NEW p \in Pid, Listen(p) PROVE StopFinal'
  <2>1. \A q \in Pid : proc'[q] \in Live => proc[q] \in Live
    BY <1>10, <1>t DEF Listen, Live
  <2> QED BY <1>10, <2>1 DEF Listen, callVars, StopFinal
<1>11. CASE UNCHANGED vars
  BY <1>11 DEF vars, callVars, StopFinal
<1> QED BY <1>1, <1>2, <1>3, <1>4, <1>5, <1>6, <1>7, <1>8, <1>9, <1>10, <1>11 DEF Next, StopStep

\* As long as Restart has not been called, no Xray runs once Stop has returned and
\* none is launched later, wherever the crash recovery was when Stop was called.
THEOREM StopIsFinal == Spec => []NothingRunsAfterStop
<1> DEFINE Inv == NoRestart => LiveIsCurrent /\ StopFinal
<1>1. Init => Inv
  BY LiveInit DEF Init, StopFinal
<1>2. TypeOK /\ Inv /\ [Next]_vars => Inv'
  BY LiveStep, StopStepFinal, RestartUnused
<1>3. Inv => NothingRunsAfterStop
  BY DEF StopFinal, NothingRunsAfterStop
<1> HIDE DEF Inv
<1> QED BY <1>1, <1>2, <1>3, TypeCorrect, PTL DEF Spec
------------------------------------------------------------------------------
(* The endpoint goes with Stop *)

\* Once Stop has returned the monitor goroutine, the only one that could publish
\* the endpoint again, has ended, and the endpoint it may have left is cleared.
Withdrawn == stpc = "done" => mpc = "ended" /\ ~endpoint

\* Every step but those of a restart preserves it.
LEMMA WithdrawnStep ==
    ASSUME StopFinal, Withdrawn, [Next]_vars, ~RestartStep, ~Restart
    PROVE  Withdrawn'
<1>1. CASE StartStep
  <2>1. spc # "done"
    BY <1>1 DEF StartStep, StartBegin, StartValidate, StartLaunch, StartLaunchFail, StartReady,
                StartReadyFail
  <2>2. stpc' = stpc
    BY <1>1 DEF StartStep, StartBegin, StartValidate, StartLaunch, StartLaunchFail, StartReady,
                StartReadyFail, callVars
  <2> QED BY <2>1, <2>2 DEF StopFinal, Withdrawn
<1>2. CASE MonStep
  <2>1. mpc # "ended"
    BY <1>2 DEF MonStep, MonTop, MonWait, MonClear, MonCheck, MonPoll, MonBackoff, MonValidate,
                MonLaunch, MonLaunchNot, MonReady, MonReadyFail, MonUp
  <2>2. stpc' = stpc
    BY <1>2 DEF MonStep, MonTop, MonWait, MonClear, MonCheck, MonPoll, MonBackoff, MonValidate,
                MonLaunch, MonLaunchNot, MonReady, MonReadyFail, MonUp, monUnchanged, callVars
  <2> QED BY <2>1, <2>2 DEF Withdrawn
<1>3. CASE Watch
  BY <1>3 DEF Watch, callVars, Withdrawn
<1>4. CASE StopStep
  BY <1>4 DEF StopStep, StopTerm, StopWait, StopJoin, Withdrawn
<1>5. ~RestartStep /\ ~Restart
  OBVIOUS
<1>6. CASE Stop
  BY <1>6 DEF Stop, Withdrawn
<1>7. ASSUME NEW p \in Pid, Crash(p) PROVE Withdrawn'
  BY <1>7 DEF Crash, callVars, Withdrawn
<1>8. ASSUME NEW p \in Pid, Listen(p) PROVE Withdrawn'
  BY <1>8 DEF Listen, callVars, Withdrawn
<1>9. CASE UNCHANGED vars
  BY <1>9 DEF vars, callVars, Withdrawn
<1> QED BY <1>1, <1>2, <1>3, <1>4, <1>5, <1>6, <1>7, <1>8, <1>9 DEF Next

\* As long as Restart has not been called, no endpoint is published once Stop has
\* returned, also when a recovery registered it while Stop was waiting.
THEOREM EndpointGoes == Spec => []EndpointWithdrawn
<1> DEFINE Inv == NoRestart => LiveIsCurrent /\ StopFinal /\ Withdrawn
<1>1. Init => Inv
  BY LiveInit DEF Init, StopFinal, Withdrawn
<1>2. TypeOK /\ Inv /\ [Next]_vars => Inv'
  BY LiveStep, StopStepFinal, WithdrawnStep, RestartUnused
<1>3. Inv => EndpointWithdrawn
  BY DEF Withdrawn, EndpointWithdrawn
<1> HIDE DEF Inv
<1> QED BY <1>1, <1>2, <1>3, TypeCorrect, PTL DEF Spec
------------------------------------------------------------------------------
(* When each command is waited for once *)

\* The command the monitor waits for, or is about to, has not been reaped: Start or
\* the recovery launched it afterwards, and a recovery that may not go on polls until
\* Stop is called.
WaitInv ==
    /\ mpc # "panic"
    /\ mpc = "wait" => mcmd \in Pid /\ proc[mcmd] # "reaped"
    /\ (mpc \in {"ready", "up"} \/ (mpc = "top" /\ ~stopped)) => (cmd \in Pid /\ proc[cmd] # "reaped")
    /\ mpc = "poll" => (stopped \/ state = "RESTARTING")
    /\ spc # "done" => mpc = "none"
    /\ mpc = "none" => \A p \in Pid : proc[p] # "reaped"
    /\ spc = "ready" => cmd \in Pid

\* No recovery fails before its process is launched.
RecoveryLaunches == Faults \cap {"config", "start"} = {}

\* Every step but those of a restart preserves WaitInv.
LEMMA WaitStep ==
    ASSUME TypeOK, RecoveryLaunches, WaitInv, [Next]_vars, ~RestartStep, ~Restart
    PROVE  WaitInv'
<1>k. \A k, q : q \in Pid /\ Killed(k)[q] = "reaped" => proc[q] = "reaped"
  BY DEF Killed, Live
<1>t. proc \in [Pid -> ProcType]
  BY DEF TypeOK, ProcType
<1>f. ~Fault("config") /\ ~Fault("start")
  BY DEF RecoveryLaunches, Fault
<1> HIDE DEF Pid
<1>1. CASE StartStep
  <2>1. ASSUME NEW p \in Pid, StartLaunch(p) PROVE WaitInv'
    BY <2>1, <1>t DEF StartLaunch, StartProcess, callVars, WaitInv
  <2>2. CASE StartBegin \/ StartReady \/ StartValidate \/ StartLaunchFail
    BY <2>2 DEF StartBegin, StartReady, StartValidate, StartLaunchFail, callVars, WaitInv
  <2>3. CASE StartReadyFail
    BY <2>3, <1>k DEF StartReadyFail, callVars, WaitInv
  <2> QED BY <1>1, <2>1, <2>2, <2>3 DEF StartStep
<1>2. CASE MonStep
  <2>1. ASSUME NEW p \in Pid, MonLaunch(p) PROVE WaitInv'
    BY <2>1, <1>t DEF MonLaunch, StartProcess, monUnchanged, callVars, WaitInv
  <2>2. CASE MonTop \/ MonPoll \/ MonReady \/ MonUp
    BY <2>2 DEF MonTop, MonPoll, MonReady, MonUp, monUnchanged, callVars, WaitInv
  <2>3. CASE MonClear \/ MonCheck \/ MonBackoff \/ MonValidate \/ MonLaunchNot
    BY <2>3, <1>f DEF MonClear, MonCheck, MonBackoff, MonValidate, MonLaunchNot,
                      monUnchanged, callVars, WaitInv
  <2>4. CASE MonWait
    BY <2>4 DEF MonWait, monUnchanged, callVars, WaitInv
  <2>5. CASE MonReadyFail
    BY <2>5, <1>k DEF MonReadyFail, monUnchanged, callVars, WaitInv
  <2> QED BY <1>2, <2>1, <2>2, <2>3, <2>4, <2>5 DEF MonStep
<1>3. CASE Watch
  <2>1. \A q \in Pid : proc'[q] = "reaped" => proc[q] = "reaped"
    BY <1>3, <1>k DEF Watch
  <2>2. UNCHANGED <<cmd, spc, mpc, mcmd, state, stopped>>
    BY <1>3 DEF Watch, callVars
  <2> QED BY <2>1, <2>2 DEF WaitInv
<1>4. CASE StopStep
  <2>1. \A q \in Pid : proc'[q] = "reaped" => proc[q] = "reaped"
    BY <1>4, <1>k DEF StopStep, StopTerm, StopWait, StopJoin
  <2>2. UNCHANGED <<cmd, spc, mpc, mcmd, state, stopped>>
    BY <1>4 DEF StopStep, StopTerm, StopWait, StopJoin
  <2> QED BY <2>1, <2>2 DEF WaitInv
<1>5. ~RestartStep /\ ~Restart
  OBVIOUS
<1>6. CASE Stop
  BY <1>6 DEF Stop, WaitInv
<1>7. ASSUME NEW p \in Pid, Crash(p) PROVE WaitInv'
  BY <1>7, <1>k DEF Crash, callVars, WaitInv
<1>8. ASSUME NEW p \in Pid, Listen(p) PROVE WaitInv'
  <2>1. \A q \in Pid : proc'[q] = "reaped" => proc[q] = "reaped"
    BY <1>8, <1>t DEF Listen
  <2> QED BY <1>8, <2>1 DEF Listen, callVars, WaitInv
<1>9. CASE UNCHANGED vars
  BY <1>9 DEF vars, callVars, WaitInv
<1> QED BY <1>1, <1>2, <1>3, <1>4, <1>5, <1>6, <1>7, <1>8, <1>9 DEF Next

\* The second cmd.Wait needs a recovery that fails before its launch, or a Restart:
\* without either, crashes, readiness failures and Stop included, every command is
\* waited for once.
WaitedOnceWhileLaunching == RecoveryLaunches /\ NoRestart => WaitedOnce

\* The panic in monitorLoop comes only from a failed validation or exec, or from Restart.
THEOREM PanicNeedsFailure == Spec => []WaitedOnceWhileLaunching
<1> DEFINE Inv == RecoveryLaunches /\ NoRestart => WaitInv
<1>1. Init => Inv
  BY DEF Init, WaitInv
<1>2. TypeOK /\ Inv /\ [Next]_vars => Inv'
  <2>1. RecoveryLaunches' <=> RecoveryLaunches
    BY DEF RecoveryLaunches
  <2> QED BY <2>1, WaitStep, RestartUnused
<1>3. Inv => WaitedOnceWhileLaunching
  BY DEF WaitInv, WaitedOnce, WaitedOnceWhileLaunching
<1> HIDE DEF Inv
<1> QED BY <1>1, <1>2, <1>3, TypeCorrect, PTL DEF Spec
=============================================================================
