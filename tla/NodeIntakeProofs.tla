-------------------------- MODULE NodeIntakeProofs --------------------------
(***************************************************************************)
(* The properties of NodeIntake for any set of nodes, any old database and *)
(* any number of starts, refreshes, candidates and manual switches.        *)
(***************************************************************************)
EXTENDS NodeIntake, TLAPS

\* Only a running manager has goroutines, and the worker and the switches have a
\* node when they are not idle.
Goroutines ==
    /\ phase # "up" => /\ disc = "idle" /\ wpc = "idle"
                       /\ \A n \in Node : pool[n] = None
                       /\ \A h \in Switch : op[h].pc = "idle"
    /\ wpc = "idle" <=> wnode = None
    /\ \A h \in Switch : op[h].pc # "idle" => op[h].node \in Node

\* What ReadSecrets found is still what the verdicts say.
UsableAccepted ==
    /\ disc # "store" => usable = {}
    /\ \A n \in usable : verdict[n] = "accepted"

\* A failed node has no credentials until a list has it again.
Evicted == secrets \cap failed = {}

\* Where a node's history is while a migration or the command is at work.
Files ==
    /\ \A n \in Node : status[n] = None => fails[n] = 0
    /\ backup # None => \A n \in Node : backup.status[n] = None => backup.fails[n] = 0
    /\ phase = "boot" => \A n \in copied \ unmerged : legacy[n] # None => fails[n] >= legacy[n]
    /\ phase = "clean" => backup # None /\ \A n \in Node : fails[n] = 0 /\ legacy[n] = None

IInv ==
    /\ TypeOK /\ Goroutines /\ UsableAccepted /\ NoInheritedClaims /\ CandidatesVetted
    /\ Evicted /\ Files

BootStep ==
    \/ Start \/ Recover \/ Crash \/ CleanRotate \/ CleanDone \/ CleanRestore
    \/ \E n \in Node : MigrateCopy(n) \/ MigrateMergeFails(n) \/ MigrateDelete(n)
RefreshStep ==
    \/ Trigger \/ FetchFails \/ ReadSecrets \/ Store \/ StoreFails
    \/ \E nodes \in SUBSET Node \ {{}} : Fetch(nodes)
    \/ \E n \in Node : SecretExpires(n) \/ \E outcome \in Outcome : Vet(n, outcome)
WorkStep ==
    \/ AdmitEndpoint \/ Recheck \/ Connect \/ Probe \/ Qualify \/ GiveUp
    \/ \E n \in Node : \/ Select(n) \/ CleanStale(n) \/ PoolDrop(n)
                        \/ \E to \in NodeStatus : PoolMove(n, to)
SwitchStep == \E h \in Switch :
    \/ \E n \in Node : Request(h, n)
    \/ OpReject(h) \/ OpAdmit(h) \/ OpDecline(h) \/ OpPrepare(h) \/ OpStart(h)
    \/ OpObserve(h) \/ OpQualify(h) \/ OpCommit(h) \/ OpFail(h)
    \/ \E to \in NodeStatus : OpMove(h, to)

USE DEF rowVars, fileVars, discVars, poolVars, workVars, histVars, boundVars

\* Next split by who moves.
LEMMA Steps == Next => BootStep \/ RefreshStep \/ WorkStep \/ SwitchStep
BY DEF Next, BootStep, RefreshStep, WorkStep, SwitchStep

\* What a switch's step is: nothing but a new copy and perhaps evidence, or a
\* transition of its node's row that may be refused.
LEMMA SwitchSteps ==
    ASSUME Goroutines, SwitchStep
    PROVE  /\ phase = "up" /\ phase' = "up"
           /\ UNCHANGED <<legacy, copied, unmerged, backup, disc, batch, verdict, usable>>
           /\ UNCHANGED <<wpc, wnode, wst, wfc, pool, pfc, last>>
           /\ \/ UNCHANGED <<status, fails, secrets, own, failed>>
              \/ \E n \in Node : \E from, count, to :
                    TransitionNode(n, from, count, to) /\ to \in {"QUALIFIED", "ACTIVE", "DRAINING", "FAILED"}
<1> USE DEF Goroutines, OpOnly
<1>1. ASSUME NEW h \in Switch, NEW to, NEW new, OpTransition(h, to, new), op[h].pc # "idle",
             to \in {"QUALIFIED", "ACTIVE", "DRAINING", "FAILED"}
      PROVE  /\ phase = "up" /\ phase' = "up"
             /\ UNCHANGED <<legacy, copied, unmerged, backup, disc, batch, verdict, usable>>
             /\ UNCHANGED <<wpc, wnode, wst, wfc, pool, pfc, last>>
             /\ \/ UNCHANGED <<status, fails, secrets, own, failed>>
                \/ \E n \in Node : \E from, count, to2 :
                      TransitionNode(n, from, count, to2) /\ to2 \in {"QUALIFIED", "ACTIVE", "DRAINING", "FAILED"}
  <2>1. phase = "up" /\ op[h].node \in Node
    BY <1>1
  <2>2. \/ UNCHANGED <<status, fails, secrets, own, failed>>
        \/ TransitionNode(op[h].node, op[h].st, op[h].fc, to)
    BY <1>1 DEF OpTransition, TryTransition
  <2> QED BY <1>1, <2>1, <2>2 DEF OpTransition
<1>2. CASE \E h \in Switch, n \in Node : Request(h, n)
  BY <1>2 DEF Request
<1>3. CASE \E h \in Switch : OpAdmit(h) \/ OpDecline(h) \/ OpPrepare(h) \/ OpStart(h) \/ OpObserve(h)
  BY <1>3 DEF OpAdmit, OpDecline, OpPrepare, OpStart, OpObserve
<1>4. CASE \E h \in Switch : OpReject(h) \/ OpQualify(h) \/ OpCommit(h) \/ OpFail(h)
  BY <1>1, <1>4 DEF OpReject, OpQualify, OpCommit, OpFail
<1>5. CASE \E h \in Switch, to \in NodeStatus : OpMove(h, to)
  BY <1>1, <1>5 DEF OpMove
<1> QED BY <1>2, <1>3, <1>4, <1>5 DEF SwitchStep

\* None is no node, number or status.
LEMMA NoneDistinct ==
    /\ None \notin NodeStatus /\ None \notin Node /\ None \notin Nat
    /\ "STALE" \in NodeStatus /\ "FAILED" \in NodeStatus
BY NodeIntakeAssumption DEF NodeStatus
-----------------------------------------------------------------------------
(* Types *)

\* Init is typed.
LEMMA TypeInit == Init => TypeOK
<1> SUFFICES ASSUME Init PROVE TypeOK
  OBVIOUS
<1> USE NodeIntakeAssumption DEF Init
<1>1. /\ status \in [Node -> NodeStatus \cup {None}] /\ evid \in [Node -> Evidence]
      /\ fails \in [Node -> Nat] /\ legacy \in [Node -> Nat \cup {None}]
  BY DEF Evidence
<1>2. /\ verdict \in [Node -> Outcome \cup {None}] /\ last \in [Node -> Outcome \cup {None}]
      /\ pool \in [Node -> LiveStatuses \cup {None}] /\ wst \in NodeStatus
      /\ op \in [Switch -> Op]
  BY DEF NodeStatus, IdleOp, Op, OpPc
<1>3. /\ rounds \in 0 .. MaxRounds /\ switches \in 0 .. MaxSwitches /\ refreshes \in 0 .. MaxRefreshes
      /\ starts \in 0 .. MaxStarts /\ stale \in 0 .. MaxStale
  OBVIOUS
<1> QED BY <1>1, <1>2, <1>3 DEF TypeOK

\* Start, migration, recovery and `database clean` keep the types.
LEMMA TypeBoot == TypeOK /\ Files /\ BootStep => TypeOK'
<1> SUFFICES ASSUME TypeOK, Files, BootStep PROVE TypeOK'
  OBVIOUS
<1> USE NodeIntakeAssumption DEF TypeOK, File
<1>1. CASE Start
  BY <1>1 DEF Start
<1>2. ASSUME NEW n \in Node, MigrateCopy(n) PROVE TypeOK'
  <2>1. legacy[n] \in Nat /\ {"ACTIVE", "FAILED"} \subseteq NodeStatus
    BY <1>2 DEF MigrateCopy, NodeStatus
  <2>2. status' \in [Node -> NodeStatus \cup {None}] /\ fails' \in [Node -> Nat]
    BY <1>2, <2>1 DEF MigrateCopy
  <2> QED BY <1>2, <2>2 DEF MigrateCopy
<1>3. ASSUME NEW n \in Node, MigrateDelete(n) \/ MigrateMergeFails(n) PROVE TypeOK'
  BY <1>3 DEF MigrateDelete, MigrateMergeFails
<1>4. CASE Recover
  BY <1>4, NoneDistinct DEF Recover
<1>5. CASE Crash
  <2>1. pool' \in [Node -> LiveStatuses \cup {None}] /\ verdict' \in [Node -> Outcome \cup {None}]
        /\ wst' \in NodeStatus /\ op' \in [Switch -> Op] /\ last' \in [Node -> Outcome \cup {None}]
    BY <1>5 DEF Crash, NodeStatus, IdleOp, Op, OpPc
  <2> QED BY <1>5, <2>1 DEF Crash
<1>6. CASE CleanRotate
  <2>1. /\ status' \in [Node -> NodeStatus \cup {None}] /\ evid' \in [Node -> Evidence]
        /\ fails' \in [Node -> Nat] /\ legacy' \in [Node -> Nat \cup {None}]
    BY <1>6 DEF CleanRotate, Evidence
  <2> QED BY <1>6, <2>1 DEF CleanRotate
<1>7. CASE CleanDone
  BY <1>7 DEF CleanDone
<1>8. CASE CleanRestore
  <2>1. backup # None
    BY <1>8 DEF CleanRestore, Files
  <2> QED BY <1>8, <2>1 DEF CleanRestore
<1> QED BY <1>1, <1>2, <1>3, <1>4, <1>5, <1>6, <1>7, <1>8 DEF BootStep

\* The steps of a refresh keep the types.
LEMMA TypeRefresh == TypeOK /\ UsableAccepted /\ RefreshStep => TypeOK'
<1> SUFFICES ASSUME TypeOK, UsableAccepted, RefreshStep PROVE TypeOK'
  OBVIOUS
<1> USE NodeIntakeAssumption DEF TypeOK
<1>1. CASE Trigger \/ FetchFails
  BY <1>1 DEF Trigger, FetchFails
<1>2. ASSUME NEW nodes \in SUBSET Node \ {{}}, Fetch(nodes) PROVE TypeOK'
  <2>1. usable \subseteq nodes
    BY <1>2 DEF Fetch, UsableAccepted
  <2> QED BY <1>2, <2>1 DEF Fetch
<1>3. ASSUME NEW n \in Node, SecretExpires(n) PROVE TypeOK'
  BY <1>3 DEF SecretExpires
<1>4. ASSUME NEW n \in Node, NEW outcome \in Outcome, Vet(n, outcome) PROVE TypeOK'
  BY <1>4 DEF Vet
<1>5. CASE ReadSecrets
  BY <1>5 DEF ReadSecrets
<1>6. CASE Store \/ StoreFails
  <2>1. /\ disc' = "idle" /\ batch' = {} /\ usable' = {}
        /\ verdict' \in [Node -> Outcome \cup {None}]
    BY <1>6 DEF Store, StoreFails, RefreshOver
  <2>2. CASE Store
    <3>1. \A n \in batch : Stored(n) \in NodeStatus \cup {None} /\ Evaluated(n) \in Evidence
      BY DEF Stored, Evaluated, NodeStatus, Evidence
    <3>2. status' \in [Node -> NodeStatus \cup {None}] /\ evid' \in [Node -> Evidence]
      BY <2>2, <3>1 DEF Store
    <3>3. last' \in [Node -> Outcome \cup {None}]
      BY <2>2 DEF Store
    <3>4. own' \subseteq Node
      BY <2>2 DEF Store
    <3> QED BY <2>1, <2>2, <3>2, <3>3, <3>4 DEF Store
  <2>3. CASE StoreFails
    BY <2>1, <2>3 DEF StoreFails
  <2> QED BY <1>6, <2>2, <2>3
<1> QED BY <1>1, <1>2, <1>3, <1>4, <1>5, <1>6 DEF RefreshStep

\* TransitionNode, whatever the copy it is called with.
LEMMA TypeTransition ==
    ASSUME TypeOK, NEW n \in Node, NEW from, NEW count \in Nat, NEW to \in NodeStatus,
           TransitionNode(n, from, count, to)
    PROVE  /\ status' \in [Node -> NodeStatus \cup {None}] /\ fails' \in [Node -> Nat]
           /\ own' \subseteq Node /\ failed' \subseteq Node /\ secrets' \subseteq Node
BY DEF TypeOK, TransitionNode

\* The steps of the worker and of its tunnels keep the types.
LEMMA TypeWork == TypeOK /\ Goroutines /\ WorkStep => TypeOK'
<1> SUFFICES ASSUME TypeOK, Goroutines, WorkStep PROVE TypeOK'
  OBVIOUS
<1> USE NodeIntakeAssumption DEF TypeOK
<1>0. /\ {"NEW", "REPUTATION_CHECKED", "CONNECTING", "HEALTH_CHECK", "STANDBY", "FAILED", "STALE"} \subseteq NodeStatus
      /\ wpc # "idle" => wnode \in Node
  BY DEF NodeStatus, Goroutines
<1>1. ASSUME NEW n \in Node, Select(n) PROVE TypeOK'
  <2>1. status[n] \in NodeStatus
    BY <1>1, NoneDistinct DEF Select, NodeStatus
  <2> QED BY <1>1, <2>1 DEF Select
<1>2. CASE AdmitEndpoint
  BY <1>0, <1>2 DEF AdmitEndpoint, Evidence
<1>3. CASE Recheck \/ Connect
  BY <1>0, <1>3, TypeTransition DEF Recheck, Connect
<1>4. CASE Probe
  <2>1. evid' \in [Node -> Evidence]
    BY <1>4 DEF Probe, Evidence
  <2> QED BY <1>0, <1>4, <2>1, TypeTransition DEF Probe
<1>5. CASE Qualify
  <2>1. pool' \in [Node -> LiveStatuses \cup {None}]
    BY <1>0, <1>5 DEF Qualify, LiveStatuses
  <2> QED BY <1>0, <1>5, <2>1, TypeTransition DEF Qualify, WorkerIdle
<1>6. CASE GiveUp
  <2>1. evid' \in [Node -> Evidence]
    BY <1>0, <1>6 DEF GiveUp, Reworded, Evidence
  <2> QED BY <1>0, <1>6, <2>1, TypeTransition DEF GiveUp, WorkerIdle
<1>7. ASSUME NEW n \in Node, NEW to \in NodeStatus, PoolMove(n, to) PROVE TypeOK'
  <2>1. pool' \in [Node -> LiveStatuses \cup {None}] /\ pfc' \in [Node -> Nat]
    <3>1. to = "FAILED" \/ to \in LiveStatuses
      BY <1>7 DEF PoolMove, PoolMoves, LiveStatuses
    <3> QED BY <1>7, <3>1 DEF PoolMove
  <2>2. evid' \in [Node -> Evidence]
    BY <1>7 DEF PoolMove, Reworded, Evidence
  <2> QED BY <1>7, <2>1, <2>2, TypeTransition DEF PoolMove
<1>8. ASSUME NEW n \in Node, CleanStale(n) \/ PoolDrop(n) PROVE TypeOK'
  BY <1>0, <1>8 DEF CleanStale, PoolDrop
<1> QED BY <1>1, <1>2, <1>3, <1>4, <1>5, <1>6, <1>7, <1>8 DEF WorkStep
\* The steps of a manual switch keep the types.
LEMMA TypeSwitch == TypeOK /\ Goroutines /\ SwitchStep => TypeOK'
<1> SUFFICES ASSUME TypeOK, Goroutines, NEW h \in Switch,
                    \/ \E n \in Node : Request(h, n)
                    \/ OpReject(h) \/ OpAdmit(h) \/ OpDecline(h) \/ OpPrepare(h) \/ OpStart(h)
                    \/ OpObserve(h) \/ OpQualify(h) \/ OpCommit(h) \/ OpFail(h)
                    \/ \E to \in NodeStatus : OpMove(h, to)
             PROVE  TypeOK'
  BY DEF SwitchStep
<1> USE NodeIntakeAssumption
<1>1. /\ op[h] \in Op /\ op[h].fc \in Nat /\ IdleOp \in Op
      /\ op[h].pc # "idle" => op[h].node \in Node
  BY DEF TypeOK, Op, OpPc, IdleOp, NodeStatus, Goroutines
<1>2. ASSUME NEW new \in Op, OpOnly(h, new), evid' \in [Node -> Evidence] PROVE TypeOK'
  BY <1>2 DEF OpOnly, TypeOK
<1>3. ASSUME NEW new \in Op, NEW to \in NodeStatus, OpTransition(h, to, new),
             op[h].pc # "idle", evid' \in [Node -> Evidence]
      PROVE  TypeOK'
  <2>1. /\ status' \in [Node -> NodeStatus \cup {None}] /\ fails' \in [Node -> Nat]
        /\ own' \subseteq Node /\ failed' \subseteq Node /\ secrets' \subseteq Node
    <3>1. CASE TransitionNode(op[h].node, op[h].st, op[h].fc, to)
      BY <1>1, <1>3, <3>1, TypeTransition
    <3>2. CASE UNCHANGED <<status, own, fails, failed, secrets>>
      BY <3>2 DEF TypeOK
    <3> QED BY <1>3, <3>1, <3>2 DEF OpTransition, TryTransition
  <2>2. op' \in [Switch -> Op]
    BY <1>3 DEF OpTransition, TypeOK
  <2> QED BY <1>3, <2>1, <2>2 DEF OpTransition, TypeOK
<1>4. /\ evid \in [Node -> Evidence]
      /\ \A n \in Node : /\ [evid EXCEPT ![n] = "endpoint"] \in [Node -> Evidence]
                         /\ [evid EXCEPT ![n] = "exit"] \in [Node -> Evidence]
                         /\ Reworded(n) \in [Node -> Evidence]
  BY DEF TypeOK, Evidence, Reworded
<1>5. \A pc \in OpPc : [op[h] EXCEPT !.pc = pc] \in Op
  BY <1>1 DEF Op
<1>6. \A pc \in OpPc, to \in NodeStatus :
         [op[h] EXCEPT !.pc = pc, !.st = Moved(op[h].st, to)] \in Op
  BY <1>1 DEF Op, Moved
<1>7. /\ {"prepare", "connect", "observe", "qualify", "commit", "serving", "draining"} \subseteq OpPc
      /\ {"QUALIFIED", "ACTIVE", "DRAINING", "FAILED"} \subseteq NodeStatus
  BY DEF OpPc, NodeStatus
<1>8. ASSUME NEW n \in Node, Request(h, n) PROVE TypeOK'
  <2>1. [pc |-> "admission", node |-> n, st |-> status[n], fc |-> fails[n]] \in Op
    BY <1>8 DEF Request, Op, OpPc, NodeStatus, TypeOK
  <2> QED BY <1>8, <2>1 DEF Request, TypeOK
<1>9. CASE OpReject(h) \/ OpAdmit(h)
  <2>1. evid' \in [Node -> Evidence]
    BY <1>1, <1>4, <1>9 DEF OpReject, OpAdmit
  <2>2. CASE OpReject(h)
    BY <1>1, <1>3, <1>7, <2>1, <2>2 DEF OpReject
  <2>3. CASE OpAdmit(h)
    BY <1>2, <1>5, <1>7, <2>1, <2>3 DEF OpAdmit
  <2> QED BY <1>9, <2>2, <2>3
<1>10. CASE OpDecline(h) \/ OpStart(h) \/ OpObserve(h)
  <2>1. evid' \in [Node -> Evidence]
    BY <1>1, <1>4, <1>10 DEF OpDecline, OpStart, OpObserve
  <2> QED BY <1>1, <1>2, <1>5, <1>7, <1>10, <2>1 DEF OpDecline, OpStart, OpObserve
<1>11. CASE OpPrepare(h)
  <2>1. op[h].node \in Node /\ status[op[h].node] \in NodeStatus /\ fails[op[h].node] \in Nat
    BY <1>1, <1>11 DEF OpPrepare, TypeOK
  <2>2. [op[h] EXCEPT !.pc = "connect", !.st = status[op[h].node], !.fc = fails[op[h].node]] \in Op
    BY <1>1, <1>7, <2>1 DEF Op
  <2>3. evid' \in [Node -> Evidence]
    BY <1>4, <1>11 DEF OpPrepare
  <2> QED BY <1>2, <1>11, <2>2, <2>3 DEF OpPrepare
<1>12. CASE OpQualify(h) \/ OpCommit(h)
  <2>1. evid' \in [Node -> Evidence]
    BY <1>4, <1>12 DEF OpQualify, OpCommit
  <2> QED BY <1>3, <1>6, <1>7, <1>12, <2>1 DEF OpQualify, OpCommit
<1>13. CASE OpFail(h)
  <2>1. evid' \in [Node -> Evidence]
    BY <1>1, <1>4, <1>13 DEF OpFail
  <2> QED BY <1>1, <1>3, <1>7, <1>13, <2>1 DEF OpFail
<1>14. ASSUME NEW to \in NodeStatus, OpMove(h, to) PROVE TypeOK'
  <2>1. evid' \in [Node -> Evidence]
    BY <1>1, <1>4, <1>14 DEF OpMove
  <2>2. op[h].pc # "idle"
    BY <1>14 DEF OpMove
  <2>3. CASE to = "FAILED"
    BY <1>1, <1>3, <1>14, <2>1, <2>2, <2>3 DEF OpMove
  <2>4. CASE to # "FAILED"
    BY <1>3, <1>6, <1>7, <1>14, <2>1, <2>2, <2>4 DEF OpMove
  <2> QED BY <2>3, <2>4
<1> QED BY <1>8, <1>9, <1>10, <1>11, <1>12, <1>13, <1>14
-----------------------------------------------------------------------------
(* The other parts of the invariant, group by group of steps *)

\* Every step keeps the shape of the goroutines' locals.
LEMMA GoroutinesKept == TypeOK /\ Goroutines /\ Next => Goroutines'
<1> SUFFICES ASSUME TypeOK, Goroutines, Next PROVE Goroutines'
  OBVIOUS
<1> USE NoneDistinct DEF Goroutines
<1>1. CASE BootStep
  BY <1>1 DEF BootStep, Start, Recover, Crash, CleanRotate, CleanDone, CleanRestore,
              MigrateCopy, MigrateMergeFails, MigrateDelete, IdleOp
<1>2. CASE RefreshStep
  BY <1>2 DEF RefreshStep, Trigger, FetchFails, ReadSecrets, Store, StoreFails, RefreshOver,
              Fetch, SecretExpires, Vet
<1>3. CASE WorkStep
  <2>1. CASE \E n \in Node : \/ Select(n) \/ CleanStale(n) \/ PoolDrop(n)
                            \/ \E to \in NodeStatus : PoolMove(n, to)
    BY <2>1 DEF Select, CleanStale, PoolDrop, PoolMove
  <2>2. CASE AdmitEndpoint \/ Recheck \/ Connect \/ Probe \/ Qualify \/ GiveUp
    BY <2>2 DEF AdmitEndpoint, Recheck, Connect, Probe, Qualify, GiveUp, WorkerIdle
  <2> QED BY <1>3, <2>1, <2>2 DEF WorkStep
<1>4. CASE SwitchStep
  <2>1. phase' = "up" /\ wpc' = wpc /\ wnode' = wnode
    BY <1>4, SwitchSteps
  <2>2. \A h \in Switch : op'[h].pc # "idle" => op'[h].node \in Node
    <3>1. PICK h \in Switch :
            \/ \E n \in Node : Request(h, n)
            \/ OpReject(h) \/ OpAdmit(h) \/ OpDecline(h) \/ OpPrepare(h) \/ OpStart(h)
            \/ OpObserve(h) \/ OpQualify(h) \/ OpCommit(h) \/ OpFail(h)
            \/ \E to \in NodeStatus : OpMove(h, to)
      BY <1>4 DEF SwitchStep
    <3>2. /\ op[h] \in Op /\ IdleOp \in Op /\ IdleOp.pc = "idle"
          /\ op[h].pc # "idle" => op[h].node \in Node
      BY DEF TypeOK, IdleOp, Op, OpPc, NodeStatus
    <3>3. ASSUME NEW new, op' = [op EXCEPT ![h] = new], new.pc # "idle" => new.node \in Node
          PROVE  \A g \in Switch : op'[g].pc # "idle" => op'[g].node \in Node
      BY <3>3 DEF TypeOK
    <3>4. ASSUME NEW pc \in OpPc, NEW st, NEW fc, op[h].pc # "idle",
                 \/ op' = [op EXCEPT ![h] = [op[h] EXCEPT !.pc = pc]]
                 \/ op' = [op EXCEPT ![h] = [op[h] EXCEPT !.pc = pc, !.st = st]]
                 \/ op' = [op EXCEPT ![h] = [op[h] EXCEPT !.pc = pc, !.st = st, !.fc = fc]]
          PROVE  \A g \in Switch : op'[g].pc # "idle" => op'[g].node \in Node
      <4>1. /\ [op[h] EXCEPT !.pc = pc].node = op[h].node
            /\ [op[h] EXCEPT !.pc = pc, !.st = st].node = op[h].node
            /\ [op[h] EXCEPT !.pc = pc, !.st = st, !.fc = fc].node = op[h].node
        BY <3>2 DEF Op
      <4> QED BY <3>2, <3>3, <3>4, <4>1
    <3>5. {"prepare", "connect", "observe", "qualify", "commit", "serving", "draining"} \subseteq OpPc
      BY DEF OpPc
    <3>6. CASE \E n \in Node : Request(h, n)
      BY <3>3, <3>6 DEF Request
    <3>7. CASE OpReject(h) \/ OpDecline(h) \/ OpFail(h)
      BY <3>2, <3>3, <3>7 DEF OpReject, OpDecline, OpFail, OpOnly, OpTransition
    <3>8. CASE OpAdmit(h) \/ OpPrepare(h) \/ OpStart(h) \/ OpObserve(h)
      <4>1. CASE OpPrepare(h)
        BY <3>4, <3>5, <4>1 DEF OpPrepare, OpOnly
      <4>2. CASE OpAdmit(h)
        BY <3>4, <3>5, <4>2 DEF OpAdmit, OpOnly
      <4>3. CASE OpStart(h)
        BY <3>4, <3>5, <4>3 DEF OpStart, OpOnly
      <4>4. CASE OpObserve(h)
        BY <3>4, <3>5, <4>4 DEF OpObserve, OpOnly
      <4> QED BY <3>8, <4>1, <4>2, <4>3, <4>4
    <3>9. CASE OpQualify(h) \/ OpCommit(h)
      BY <3>4, <3>5, <3>9 DEF OpQualify, OpCommit, OpTransition
    <3>10. ASSUME NEW to \in NodeStatus, OpMove(h, to)
           PROVE  \A g \in Switch : op'[g].pc # "idle" => op'[g].node \in Node
      <4>1. CASE to = "FAILED"
        BY <3>2, <3>3, <3>10, <4>1 DEF OpMove, OpTransition
      <4>2. CASE to # "FAILED"
        BY <3>4, <3>5, <3>10, <4>2 DEF OpMove, OpTransition
      <4> QED BY <4>1, <4>2
    <3> QED BY <3>1, <3>6, <3>7, <3>8, <3>9, <3>10
  <2> QED BY <2>1, <2>2
<1> QED BY <1>1, <1>2, <1>3, <1>4, Steps

\* What ReadSecrets found usable stays accepted until the transaction.
LEMMA UsableAcceptedKept == TypeOK /\ Goroutines /\ UsableAccepted /\ Next => UsableAccepted'
<1> SUFFICES ASSUME TypeOK, Goroutines, UsableAccepted, Next PROVE UsableAccepted'
  OBVIOUS
<1> USE DEF UsableAccepted
<1>1. CASE BootStep
  BY <1>1 DEF BootStep, Start, Recover, Crash, CleanRotate, CleanDone, CleanRestore,
              MigrateCopy, MigrateMergeFails, MigrateDelete, IdleOp
<1>2. CASE RefreshStep
  <2>1. ASSUME NEW n \in Node, NEW outcome \in Outcome, Vet(n, outcome) PROVE UsableAccepted'
    BY <2>1 DEF Vet, TypeOK
  <2>2. CASE Trigger \/ FetchFails \/ ReadSecrets \/ Store \/ StoreFails
    BY <2>2 DEF Trigger, FetchFails, ReadSecrets, Store, StoreFails, RefreshOver
  <2>3. CASE (\E nodes \in SUBSET Node \ {{}} : Fetch(nodes)) \/ \E n \in Node : SecretExpires(n)
    BY <2>3 DEF Fetch, SecretExpires
  <2> QED BY <1>2, <2>1, <2>2, <2>3 DEF RefreshStep
<1>3. CASE WorkStep
  BY <1>3 DEF WorkStep, AdmitEndpoint, Recheck, Connect, Probe, Qualify, GiveUp, Select,
              CleanStale, PoolDrop, PoolMove
<1>4. CASE SwitchStep
  BY <1>4, SwitchSteps
<1> QED BY <1>1, <1>2, <1>3, <1>4, Steps

\* A running manager's row is only changed with its node entered in own, or to STALE.
LEMMA NoInheritedClaimsKept == TypeOK /\ Goroutines /\ NoInheritedClaims /\ Next => NoInheritedClaims'
<1> SUFFICES ASSUME TypeOK, Goroutines, NoInheritedClaims, Next PROVE NoInheritedClaims'
  OBVIOUS
<1> USE DEF NoInheritedClaims
<1>0. "STALE" \notin RuntimeStates
  BY DEF RuntimeStates
<1>1. CASE BootStep
  <2>1. CASE Recover
    BY <1>0, <2>1 DEF Recover, TypeOK
  <2>2. CASE \/ Start \/ Crash \/ CleanRotate \/ CleanDone \/ CleanRestore
             \/ \E n \in Node : MigrateCopy(n) \/ MigrateMergeFails(n) \/ MigrateDelete(n)
    BY <2>2 DEF Start, Crash, CleanRotate, CleanDone, CleanRestore, MigrateCopy,
                MigrateMergeFails, MigrateDelete
  <2> QED BY <1>1, <2>1, <2>2 DEF BootStep
<1>2. CASE RefreshStep
  <2>1. CASE Store
    <3>1. \A n \in Node : status'[n] # status[n] => n \in own'
      BY <2>1 DEF Store, TypeOK
    <3>2. own \subseteq own' /\ phase' = phase
      BY <2>1 DEF Store
    <3> QED BY <3>1, <3>2
  <2>2. CASE \/ Trigger \/ FetchFails \/ ReadSecrets \/ StoreFails
             \/ \E nodes \in SUBSET Node \ {{}} : Fetch(nodes)
             \/ \E n \in Node : SecretExpires(n) \/ \E outcome \in Outcome : Vet(n, outcome)
    BY <2>2 DEF Trigger, FetchFails, ReadSecrets, StoreFails, Fetch, SecretExpires, Vet
  <2> QED BY <1>2, <2>1, <2>2 DEF RefreshStep
<1>4. ASSUME NEW n \in Node, NEW from, NEW count, NEW to, TransitionNode(n, from, count, to),
             phase' = phase
      PROVE  NoInheritedClaims'
  BY <1>4 DEF TransitionNode, TypeOK
<1>3. CASE WorkStep
  <2>1. ASSUME NEW n \in Node, CleanStale(n) PROVE NoInheritedClaims'
    BY <1>0, <2>1 DEF CleanStale, TypeOK
  <2>2. CASE AdmitEndpoint \/ \E n \in Node : Select(n) \/ PoolDrop(n)
    BY <2>2 DEF AdmitEndpoint, Select, PoolDrop
  <2>4. CASE Recheck \/ Connect \/ Probe \/ Qualify \/ GiveUp
    <3>1. wnode \in Node
      BY <2>4 DEF Recheck, Connect, Probe, Qualify, GiveUp, Goroutines, TypeOK
    <3> QED BY <1>4, <2>4, <3>1 DEF Recheck, Connect, Probe, Qualify, GiveUp
  <2>5. ASSUME NEW n \in Node, NEW to \in NodeStatus, PoolMove(n, to) PROVE NoInheritedClaims'
    BY <1>4, <2>5 DEF PoolMove
  <2> QED BY <1>3, <2>1, <2>2, <2>4, <2>5 DEF WorkStep
<1>5. CASE SwitchStep
  BY <1>4, <1>5, SwitchSteps
<1> QED BY <1>1, <1>2, <1>3, <1>5, Steps

\* A step that makes a row a candidate is a refresh that accepted the node, or the
\* worker's own.
LEMMA CandidatesVettedKept ==
    TypeOK /\ Goroutines /\ UsableAccepted /\ CandidatesVetted /\ Next => CandidatesVetted'
<1> SUFFICES ASSUME TypeOK, Goroutines, UsableAccepted, CandidatesVetted, Next
             PROVE  CandidatesVetted'
  OBVIOUS
<1> USE DEF CandidatesVetted
<1>1. CASE BootStep
  <2>1. CASE Recover
    BY <2>1 DEF Recover, TypeOK, RuntimeStates
  <2>2. CASE \/ Start \/ Crash \/ CleanRotate \/ CleanDone \/ CleanRestore
             \/ \E n \in Node : MigrateCopy(n) \/ MigrateMergeFails(n) \/ MigrateDelete(n)
    BY <2>2 DEF Start, Crash, CleanRotate, CleanDone, CleanRestore, MigrateCopy,
                MigrateMergeFails, MigrateDelete
  <2> QED BY <1>1, <2>1, <2>2 DEF BootStep
<1>2. CASE RefreshStep
  <2>1. CASE Store
    <3>1. \A n \in batch : Stored(n) = "REPUTATION_CHECKED" => verdict[n] = "accepted"
      BY DEF Stored, UsableAccepted, Readmissible, Rejectable
    <3>2. /\ \A n \in batch : status'[n] = Stored(n) /\ last'[n] = verdict[n]
          /\ \A n \in Node \ batch : status'[n] = status[n] /\ last'[n] = last[n]
          /\ wnode' = wnode /\ phase' = phase
      BY <2>1 DEF Store, TypeOK
    <3> QED BY <3>1, <3>2 DEF TypeOK
  <2>2. CASE \/ Trigger \/ FetchFails \/ ReadSecrets \/ StoreFails
             \/ \E nodes \in SUBSET Node \ {{}} : Fetch(nodes)
             \/ \E n \in Node : SecretExpires(n) \/ \E outcome \in Outcome : Vet(n, outcome)
    BY <2>2 DEF Trigger, FetchFails, ReadSecrets, StoreFails, Fetch, SecretExpires, Vet
  <2> QED BY <1>2, <2>1, <2>2 DEF RefreshStep
<1>4. ASSUME NEW n \in Node, NEW from, NEW count, NEW to, TransitionNode(n, from, count, to),
             to # "REPUTATION_CHECKED", phase' = phase, last' = last,
             wnode' = wnode \/ wnode = n
      PROVE  CandidatesVetted'
  BY <1>4 DEF TransitionNode, TypeOK
<1>3. CASE WorkStep
  <2>1. ASSUME NEW n \in Node, CleanStale(n) PROVE CandidatesVetted'
    BY <2>1 DEF CleanStale, TypeOK
  <2>2. CASE AdmitEndpoint \/ \E n \in Node : PoolDrop(n)
    BY <2>2 DEF AdmitEndpoint, PoolDrop
  <2>3. ASSUME NEW n \in Node, Select(n) PROVE CandidatesVetted'
    BY <2>3, NoneDistinct DEF Select, Goroutines
  <2>4. CASE Recheck
    <3>1. wnode \in Node
      BY <2>4 DEF Recheck, Goroutines, TypeOK
    <3> QED BY <2>4, <3>1 DEF Recheck, TransitionNode, TypeOK
  <2>5. CASE Connect \/ Probe \/ Qualify \/ GiveUp
    <3>1. wnode \in Node
      BY <2>5 DEF Connect, Probe, Qualify, GiveUp, Goroutines, TypeOK
    <3> QED BY <1>4, <2>5, <3>1 DEF Connect, Probe, Qualify, GiveUp
  <2>6. ASSUME NEW n \in Node, NEW to \in NodeStatus, PoolMove(n, to) PROVE CandidatesVetted'
    BY <1>4, <2>6 DEF PoolMove, PoolMoves
  <2> QED BY <1>3, <2>1, <2>2, <2>3, <2>4, <2>5, <2>6 DEF WorkStep
<1>5. CASE SwitchStep
  BY <1>4, <1>5, SwitchSteps
<1> QED BY <1>1, <1>2, <1>3, <1>5, Steps

\* Only a list brings back the credentials of a failed node.
LEMMA EvictedKept == TypeOK /\ Goroutines /\ Evicted /\ Next => Evicted'
<1> SUFFICES ASSUME TypeOK, Goroutines, Evicted, Next PROVE Evicted'
  OBVIOUS
<1> USE DEF Evicted
<1>1. CASE BootStep
  BY <1>1 DEF BootStep, Start, Recover, Crash, CleanRotate, CleanDone, CleanRestore,
              MigrateCopy, MigrateMergeFails, MigrateDelete
<1>2. CASE RefreshStep
  BY <1>2 DEF RefreshStep, Trigger, FetchFails, ReadSecrets, Store, StoreFails,
              Fetch, SecretExpires, Vet
<1>3. ASSUME NEW n, NEW from, NEW count, NEW to, TransitionNode(n, from, count, to)
      PROVE  Evicted'
  BY <1>3 DEF TransitionNode
<1>4. CASE WorkStep
  <2>1. CASE AdmitEndpoint \/ \E n \in Node : Select(n) \/ CleanStale(n) \/ PoolDrop(n)
    BY <2>1 DEF AdmitEndpoint, Select, CleanStale, PoolDrop
  <2>2. CASE \/ Recheck \/ Connect \/ Probe \/ Qualify \/ GiveUp
             \/ \E n \in Node, to \in NodeStatus : PoolMove(n, to)
    BY <1>3, <2>2 DEF Recheck, Connect, Probe, Qualify, GiveUp, PoolMove
  <2> QED BY <1>4, <2>1, <2>2 DEF WorkStep
<1>5. CASE SwitchStep
  BY <1>3, <1>5, SwitchSteps
<1> QED BY <1>1, <1>2, <1>4, <1>5, Steps

\* A copy holds at least the history of the legacy row it was made from.
LEMMA FilesKept == TypeOK /\ Goroutines /\ Files /\ Next => Files'
<1> SUFFICES ASSUME TypeOK, Goroutines, Files, Next PROVE Files'
  OBVIOUS
<1> USE NoneDistinct DEF Files
<1>1. CASE BootStep
  <2>1. CASE Start
    BY <2>1 DEF Start
  <2>2. ASSUME NEW n \in Node, MigrateCopy(n) PROVE Files'
    <3>1. /\ phase = "boot" /\ phase' = "boot" /\ copied' = copied \cup {n}
          /\ unmerged' = unmerged
          /\ legacy' = legacy /\ backup' = backup /\ legacy[n] \in Nat
          /\ status'[n] # None
          /\ \A m \in Node \ {n} : status'[m] = status[m] /\ fails'[m] = fails[m]
      <4>1. {"ACTIVE", "FAILED"} \subseteq NodeStatus
        BY DEF NodeStatus
      <4> QED BY <2>2, <4>1 DEF MigrateCopy, TypeOK
    <3>2. fails'[n] >= legacy[n]
      BY <2>2 DEF MigrateCopy, TypeOK
    <3> QED BY <3>1, <3>2 DEF TypeOK
  <2>3. ASSUME NEW n \in Node, MigrateDelete(n) \/ MigrateMergeFails(n) PROVE Files'
    BY <2>3 DEF MigrateDelete, MigrateMergeFails, TypeOK
  <2>4. CASE Recover
    BY <2>4 DEF Recover, TypeOK
  <2>5. CASE Crash \/ CleanDone
    BY <2>5 DEF Crash, CleanDone
  <2>6. CASE CleanRotate
    <3>1. backup' # None
      BY <2>6, NodeIntakeAssumption DEF CleanRotate, TypeOK, File
    <3> QED BY <2>6, <3>1 DEF CleanRotate
  <2>7. CASE CleanRestore
    BY <2>7 DEF CleanRestore
  <2> QED BY <1>1, <2>1, <2>2, <2>3, <2>4, <2>5, <2>6, <2>7 DEF BootStep
<1>2. CASE RefreshStep
  <2>1. CASE Store
    <3>1. phase = "up"
      BY <2>1 DEF Store, Goroutines
    <3>2. \A n \in Node : status'[n] = None => status[n] = None
      BY <2>1 DEF Store, Stored, NodeStatus
    <3> QED BY <2>1, <3>1, <3>2 DEF Store
  <2>2. CASE \/ Trigger \/ FetchFails \/ ReadSecrets \/ StoreFails
             \/ \E nodes \in SUBSET Node \ {{}} : Fetch(nodes)
             \/ \E n \in Node : SecretExpires(n) \/ \E outcome \in Outcome : Vet(n, outcome)
    BY <2>2 DEF Trigger, FetchFails, ReadSecrets, StoreFails, Fetch, SecretExpires, Vet
  <2> QED BY <1>2, <2>1, <2>2 DEF RefreshStep
<1>3. CASE WorkStep \/ SwitchStep
  <2>1. phase = "up" /\ phase' = "up" /\ backup' = backup
    BY <1>3, SwitchSteps DEF WorkStep, AdmitEndpoint, Recheck, Connect, Probe, Qualify, GiveUp,
                             Select, CleanStale, PoolDrop, PoolMove, Goroutines
  <2>2. \A n \in Node : status'[n] = None => status[n] = None /\ fails'[n] = fails[n]
    <3>1. ASSUME NEW n \in Node, NEW from, NEW count, NEW to \in NodeStatus,
                 TransitionNode(n, from, count, to), NEW m \in Node, status'[m] = None
          PROVE  status[m] = None /\ fails'[m] = fails[m]
      BY <3>1 DEF TransitionNode, TypeOK
    <3>2. {"REPUTATION_CHECKED", "CONNECTING", "HEALTH_CHECK", "QUALIFIED", "STANDBY", "ACTIVE",
           "DRAINING", "FAILED", "STALE"} \subseteq NodeStatus
      BY DEF NodeStatus
    <3>3. CASE Recheck \/ Connect \/ Probe \/ Qualify \/ GiveUp
      <4>1. wnode \in Node
        BY <3>3 DEF Recheck, Connect, Probe, Qualify, GiveUp, Goroutines, TypeOK
      <4> QED BY <3>1, <3>2, <3>3, <4>1 DEF Recheck, Connect, Probe, Qualify, GiveUp
    <3>4. CASE \E n \in Node, to \in NodeStatus : PoolMove(n, to)
      BY <3>1, <3>4 DEF PoolMove
    <3>5. CASE AdmitEndpoint \/ \E n \in Node : Select(n) \/ CleanStale(n) \/ PoolDrop(n)
      BY <3>2, <3>5 DEF AdmitEndpoint, Select, CleanStale, PoolDrop, TypeOK
    <3>6. CASE SwitchStep
      BY <3>1, <3>2, <3>6, SwitchSteps
    <3> QED BY <1>3, <3>3, <3>4, <3>5, <3>6 DEF WorkStep
  <2> QED BY <2>1, <2>2
<1> QED BY <1>1, <1>2, <1>3, Steps
-----------------------------------------------------------------------------
(* Theorems *)

\* The inductive invariant holds initially ...
LEMMA InitIInv == Init => IInv
<1> SUFFICES ASSUME Init PROVE IInv
  OBVIOUS
<1>1. TypeOK
  BY TypeInit
<1>2. Goroutines /\ UsableAccepted /\ NoInheritedClaims /\ CandidatesVetted
  BY DEF Init, IdleOp, Goroutines, UsableAccepted, NoInheritedClaims, CandidatesVetted
<1>3. Evicted /\ Files
  BY DEF Init, Evicted, Files
<1> QED BY <1>1, <1>2, <1>3 DEF IInv

\* ... and every step preserves it.
LEMMA NextIInv == IInv /\ [Next]_vars => IInv'
<1> SUFFICES ASSUME IInv, [Next]_vars PROVE IInv'
  OBVIOUS
<1>1. CASE Next
  <2>1. TypeOK'
    BY <1>1, Steps, TypeBoot, TypeRefresh, TypeWork, TypeSwitch DEF IInv
  <2> QED BY <1>1, <2>1, GoroutinesKept, UsableAcceptedKept, NoInheritedClaimsKept,
             CandidatesVettedKept, EvictedKept, FilesKept DEF IInv
<1>2. CASE UNCHANGED vars
  BY <1>2 DEF vars, IInv, TypeOK, Goroutines, UsableAccepted, NoInheritedClaims,
              CandidatesVetted, Evicted, Files
<1> QED BY <1>1, <1>2

\* The inductive invariant holds throughout.
THEOREM Invariance == Spec => []IInv
BY InitIInv, NextIInv, PTL DEF Spec

\* Type correctness.
THEOREM TypeCorrect == Spec => []TypeOK
<1>1. IInv => TypeOK
  BY DEF IInv
<1> QED BY <1>1, Invariance, PTL

\* After any crash, at any point of a start or of the command, a running manager
\* finds no row that claims what died with an earlier process.
THEOREM NoClaimInherited == Spec => []NoInheritedClaims
<1>1. IInv => NoInheritedClaims
  BY DEF IInv
<1> QED BY <1>1, Invariance, PTL

\* Only nodes the last refresh accepted wait as candidates.
THEOREM CandidatesAreVetted == Spec => []CandidatesVetted
<1>1. IInv => CandidatesVetted
  BY DEF IInv
<1> QED BY <1>1, Invariance, PTL

\* No tunnel is started to a node that failed since a list last had it, for any
\* number of switches that hold old copies of its row.
THEOREM FailedNodesAreLeftAlone == Spec => FailedNodesRest
<1> DEFINE Rest == /\ wpc = "probe" /\ wpc' = "exit" => wnode \notin failed
                   /\ \A h \in Switch : op[h].pc = "connect" /\ op'[h].pc = "observe"
                                       => op[h].node \notin failed
<1>1. IInv /\ [Next]_vars => [Rest]_vars
  <2> SUFFICES ASSUME IInv, Next PROVE Rest
    OBVIOUS
  <2>0. secrets \cap failed = {}
    BY DEF IInv, Evicted
  <2>1. ASSUME wpc = "probe", wpc' = "exit" PROVE wnode \in secrets
    <3>1. CASE BootStep
      BY <2>1, <3>1 DEF BootStep, Start, Recover, Crash, CleanRotate, CleanDone, CleanRestore,
                        MigrateCopy, MigrateMergeFails, MigrateDelete
    <3>2. CASE RefreshStep
      BY <2>1, <3>2 DEF RefreshStep, Trigger, FetchFails, ReadSecrets, Store, StoreFails, Fetch,
                        SecretExpires, Vet
    <3>3. CASE WorkStep
      BY <2>1, <3>3 DEF WorkStep, AdmitEndpoint, Recheck, Connect, Probe, Qualify, GiveUp, Select,
                        CleanStale, PoolDrop, PoolMove, WorkerIdle
    <3>4. CASE SwitchStep
      BY <2>1, <3>4, SwitchSteps DEF IInv
    <3> QED BY <3>1, <3>2, <3>3, <3>4, Steps
  <2>2. ASSUME NEW h \in Switch, op[h].pc = "connect", op'[h].pc = "observe"
        PROVE  op[h].node \in secrets
    <3>1. CASE BootStep
      BY <2>2, <3>1 DEF BootStep, Start, Recover, Crash, CleanRotate, CleanDone, CleanRestore,
                        MigrateCopy, MigrateMergeFails, MigrateDelete, IdleOp
    <3>2. CASE RefreshStep
      BY <2>2, <3>2 DEF RefreshStep, Trigger, FetchFails, ReadSecrets, Store, StoreFails, Fetch,
                        SecretExpires, Vet
    <3>3. CASE WorkStep
      BY <2>2, <3>3 DEF WorkStep, AdmitEndpoint, Recheck, Connect, Probe, Qualify, GiveUp, Select,
                        CleanStale, PoolDrop, PoolMove
    <3>4. CASE SwitchStep
      <4>1. PICK g \in Switch :
              \/ \E n \in Node : Request(g, n)
              \/ OpReject(g) \/ OpAdmit(g) \/ OpDecline(g) \/ OpPrepare(g) \/ OpStart(g)
              \/ OpObserve(g) \/ OpQualify(g) \/ OpCommit(g) \/ OpFail(g)
              \/ \E to \in NodeStatus : OpMove(g, to)
        BY <3>4 DEF SwitchStep
      <4>2. op \in [Switch -> Op] /\ IdleOp.pc = "idle"
        BY DEF IInv, TypeOK, IdleOp
      <4>3. g = h
        BY <2>2, <4>1, <4>2 DEF Request, OpReject, OpAdmit, OpDecline, OpPrepare, OpStart,
              OpObserve, OpQualify, OpCommit, OpFail, OpMove, OpOnly, OpTransition
      <4>4. CASE OpStart(g)
        BY <4>3, <4>4 DEF OpStart
      <4>5. CASE OpFail(g)
        BY <2>2, <4>2, <4>3, <4>5 DEF OpFail, OpTransition
      <4> QED BY <2>2, <4>1, <4>3, <4>4, <4>5 DEF Request, OpReject, OpAdmit, OpDecline,
              OpPrepare, OpObserve, OpQualify, OpCommit, OpMove
    <3> QED BY <3>1, <3>2, <3>3, <3>4, Steps
  <2> QED BY <2>0, <2>1, <2>2
<1>2. FailedNodesRest <=> [][Rest]_vars
  BY DEF FailedNodesRest
<1> QED BY <1>1, <1>2, Invariance, PTL DEF Spec

\* No start and no run of the command loses a node's history, but for rows whose
\* merging update failed.
THEOREM HistoryIsKept == Spec => HistoryKept
<1> DEFINE Grows == phase # "up" => \A n \in Node \ unmerged : History(n)' >= History(n)
<1>1. IInv /\ [Next]_vars => [Grows]_vars
  <2> SUFFICES ASSUME IInv, Next, phase # "up", NEW n \in Node \ unmerged
               PROVE  History(n)' >= History(n)
    BY DEF Grows
  <2>0. /\ fails[n] \in Nat /\ legacy[n] \in Nat \cup {None} /\ None \notin Nat
        /\ backup # None => backup.fails[n] \in Nat /\ backup.legacy[n] \in Nat \cup {None}
    BY NoneDistinct DEF IInv, TypeOK, File
  <2>1. ASSUME UNCHANGED <<fails, legacy, backup>> PROVE History(n)' >= History(n)
    BY <2>0, <2>1 DEF History, InFile, Larger
  <2>2. CASE BootStep
    <3>1. CASE \/ Start \/ Recover \/ Crash \/ CleanDone
               \/ \E m \in Node : MigrateMergeFails(m)
      BY <2>1, <3>1 DEF Start, Recover, Crash, CleanDone, MigrateMergeFails
    <3>2. ASSUME NEW m \in Node, MigrateCopy(m) PROVE History(n)' >= History(n)
      <4>1. /\ legacy' = legacy /\ backup' = backup
            /\ fails'[n] \in Nat /\ fails'[n] >= fails[n]
        BY <2>0, <3>2 DEF MigrateCopy, IInv, TypeOK, Files
      <4> QED BY <2>0, <4>1 DEF History, InFile, Larger
    <3>3. ASSUME NEW m \in Node, MigrateDelete(m) PROVE History(n)' >= History(n)
      <4>1. /\ fails' = fails /\ backup' = backup
            /\ legacy'[n] = legacy[n] \/ (legacy'[n] = None /\ fails[n] >= legacy[n])
        BY <3>3 DEF MigrateDelete, IInv, TypeOK, Files
      <4> QED BY <2>0, <4>1 DEF History, InFile, Larger
    <3>4. CASE CleanRotate
      <4>1. /\ backup = None /\ backup' # None
            /\ backup'.fails[n] = fails[n] /\ backup'.legacy[n] = legacy[n]
            /\ fails'[n] = 0 /\ legacy'[n] = None
        BY <3>4, NodeIntakeAssumption DEF CleanRotate, IInv, TypeOK, File
      <4> QED BY <2>0, <4>1 DEF History, InFile, Larger
    <3>5. CASE CleanRestore
      <4>1. /\ backup # None /\ backup' = None /\ fails[n] = 0 /\ legacy[n] = None
            /\ fails'[n] = backup.fails[n] /\ legacy'[n] = backup.legacy[n]
        BY <3>5 DEF CleanRestore, IInv, Files
      <4> QED BY <2>0, <4>1 DEF History, InFile, Larger
    <3> QED BY <2>2, <3>1, <3>2, <3>3, <3>4, <3>5 DEF BootStep
  <2>3. CASE RefreshStep
    BY <2>1, <2>3 DEF RefreshStep, Trigger, FetchFails, ReadSecrets, Store, StoreFails, Fetch,
                      SecretExpires, Vet
  <2>4. CASE WorkStep
    BY <2>4 DEF WorkStep, AdmitEndpoint, Recheck, Connect, Probe, Qualify, GiveUp, Select,
                CleanStale, PoolDrop, PoolMove, IInv, Goroutines
  <2>5. CASE SwitchStep
    BY <2>5, SwitchSteps DEF IInv
  <2> QED BY <2>2, <2>3, <2>4, <2>5, Steps
<1>2. HistoryKept <=> [][Grows]_vars
  BY DEF HistoryKept
<1> QED BY <1>1, <1>2, Invariance, PTL DEF Spec
=============================================================================
