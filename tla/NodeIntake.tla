----------------------------- MODULE NodeIntake -----------------------------
(***************************************************************************)
(* How nodes come into the database and what becomes of their rows: the    *)
(* discovery refresh (fetch, vet, store) beside the scheduler's worker and *)
(* the manual switches, the credentials that live in memory only, a manager*)
(* that may die at any point, the migrations and the recovery at its start,*)
(* and the `database clean` command.                                       *)
(*                                                                         *)
(* A statement or transaction of SQLite is one step.  Slots and routes are *)
(* EgressSlots' business: here a tunnel only has the status and the fail   *)
(* count its own copy of the node holds.  Vetting a node is Reputation's   *)
(* business: here it has one of three outcomes.                            *)
(***************************************************************************)
EXTENDS NodeFSM, Naturals

CONSTANTS
    Node,         \* VPN Gate servers
    None,         \* no row, no file, no node
    Switch,       \* the manual switches, and the tunnels they leave in the slots
    LegacyFails,  \* [Node -> fail count of a row under the old id, or None]
    MaxRounds,    \* bound: candidates the worker takes up
    MaxSwitches,  \* bound: manual switches asked for
    MaxRefreshes, \* bound: discovery refreshes
    MaxStarts,    \* bound: starts of the manager
    MaxStale,     \* bound: rows that go unseen for a day
    Faults        \* the failures that may happen

\* "fetch": no list; "store": the transaction fails; "init": a start fails after
\* the migrations; "create": the copy of a legacy row fails; "merge": the update
\* that merges one into an existing row does.
FaultKind == {"fetch", "store", "init", "create", "merge"}

\* What a row's reputation columns are about, and a database put aside
Evidence == {"none", "endpoint", "blacklisted", "exit"}
File == [status : [Node -> NodeStatus \cup {None}], evid : [Node -> Evidence],
         fails : [Node -> Nat], legacy : [Node -> Nat \cup {None}]]

ASSUME NodeIntakeAssumption ==
    /\ None \notin Node \cup Nat \cup NodeStatus /\ None \notin File
    /\ LegacyFails \in [Node -> Nat \cup {None}]
    /\ MaxRounds \in Nat /\ MaxSwitches \in Nat /\ MaxRefreshes \in Nat
    /\ MaxStarts \in Nat /\ MaxStale \in Nat
    /\ Faults \subseteq FaultKind

VARIABLES
    phase,    \* the process: down, boot (InitDatabase), up, clean (the command)
    status,   \* nodes.status of each row
    evid,     \* what a row's reputation columns are about
    fails,    \* nodes.fail_count
    legacy,   \* fail_count of the row under the old id
    copied,   \* legacy rows this start is through with but for the delete
    unmerged, \* (history) those of them whose merging update failed
    backup,   \* the file `database clean` has put aside
    secrets,  \* ovpnSecretCache
    disc,     \* where the refresh is: idle, fetch, vet, store
    batch,    \* the nodes of its list
    verdict,  \* VetNodes' outcome for them
    usable,   \* accepted nodes whose credentials were there before the transaction
    wpc,      \* where maintainStandbyPool is
    wnode,    \* its candidate
    wst,      \* the status in its copy of the node, ...
    wfc,      \* ... and the fail count
    pool,     \* the status in the copy a tunnel of the worker's holds, ...
    pfc,      \* ... and the fail count
    op,       \* where a switch is, its node, and status and fail count of its copy
    last,     \* (history) the verdict this process last stored for a node
    own,      \* (history) rows whose status this process has written
    failed,   \* (history) nodes it failed since a list last had them
    rounds, switches, refreshes, starts, stale

rowVars == <<status, evid, fails>>
fileVars == <<legacy, copied, unmerged, backup>>
discVars == <<disc, batch, verdict, usable>>
poolVars == <<pool, pfc>>
workVars == <<wpc, wnode, wst, wfc, poolVars, op>>
histVars == <<last, own, failed>>
boundVars == <<rounds, switches, refreshes, starts, stale>>
vars == <<phase, rowVars, fileVars, secrets, discVars, workVars, histVars, boundVars>>
-----------------------------------------------------------------------------
(* Types and initial values *)

Outcome == {"accepted", "hard", "unknown"}
LiveStatuses == {"ACTIVE", "STANDBY", "DRAINING"}

\* A switch: admission, then executeManualSwitch up to the commit; a tunnel it
\* left in a slot serves and drains.
OpPc == {"idle", "admission", "prepare", "connect", "observe", "qualify", "commit",
         "serving", "draining"}
Op == [pc : OpPc, node : Node \cup {None}, st : NodeStatus, fc : Nat]
IdleOp == [pc |-> "idle", node |-> None, st |-> "NEW", fc |-> 0]

\* The states RecoverRuntimeNodeStates takes back
RuntimeStates == {"REPUTATION_CHECKED", "CONNECTING", "HEALTH_CHECK", "SPEED_TEST",
                  "HEALTHY", "QUALIFIED", "STANDBY", "ACTIVE", "DRAINING"}

TypeOK ==
    /\ phase \in {"down", "boot", "up", "clean"}
    /\ status \in [Node -> NodeStatus \cup {None}]
    /\ evid \in [Node -> Evidence]
    /\ fails \in [Node -> Nat]
    /\ legacy \in [Node -> Nat \cup {None}]
    /\ copied \subseteq Node /\ unmerged \subseteq Node
    /\ backup \in File \cup {None}
    /\ secrets \subseteq Node
    /\ disc \in {"idle", "fetch", "vet", "store"}
    /\ batch \subseteq Node
    /\ verdict \in [Node -> Outcome \cup {None}]
    /\ usable \subseteq batch
    /\ wpc \in {"idle", "endpoint", "recheck", "connect", "probe", "exit"}
    /\ wnode \in Node \cup {None}
    /\ wst \in NodeStatus /\ wfc \in Nat
    /\ pool \in [Node -> LiveStatuses \cup {None}] /\ pfc \in [Node -> Nat]
    /\ op \in [Switch -> Op]
    /\ last \in [Node -> Outcome \cup {None}]
    /\ own \subseteq Node /\ failed \subseteq Node
    /\ rounds \in 0 .. MaxRounds /\ switches \in 0 .. MaxSwitches
    /\ refreshes \in 0 .. MaxRefreshes
    /\ starts \in 0 .. MaxStarts /\ stale \in 0 .. MaxStale

Init ==
    /\ phase = "down"
    /\ status = [n \in Node |-> None]
    /\ evid = [n \in Node |-> "none"]
    /\ fails = [n \in Node |-> 0]
    /\ legacy = LegacyFails
    /\ copied = {} /\ unmerged = {}
    /\ backup = None
    /\ secrets = {}
    /\ disc = "idle" /\ batch = {} /\ usable = {}
    /\ verdict = [n \in Node |-> None]
    /\ wpc = "idle" /\ wnode = None /\ wst = "NEW" /\ wfc = 0
    /\ pool = [n \in Node |-> None] /\ pfc = [n \in Node |-> 0]
    /\ op = [h \in Switch |-> IdleOp]
    /\ last = [n \in Node |-> None]
    /\ own = {} /\ failed = {}
    /\ rounds = 0 /\ switches = 0 /\ refreshes = 0 /\ starts = 0 /\ stale = 0
-----------------------------------------------------------------------------
(* Start, crash and `database clean` *)

Start ==
    /\ phase = "down" /\ starts < MaxStarts
    /\ phase' = "boot"
    /\ starts' = starts + 1
    /\ copied' = {} /\ unmerged' = {}
    /\ UNCHANGED <<rowVars, legacy, backup, secrets, discVars, workVars, histVars,
                   rounds, switches, refreshes, stale>>

\* MigrateNodeIdentities, a legacy row's first statement: the row is created
\* under the new id, whatever its status, or its history is merged into the row
\* that is there already.
MigrateCopy(n) ==
    /\ phase = "boot" /\ legacy[n] # None /\ n \notin copied
    /\ copied' = copied \cup {n}
    /\ IF status[n] = None
       THEN /\ \E st \in {"ACTIVE", "FAILED"} : status' = [status EXCEPT ![n] = st]
            /\ fails' = [fails EXCEPT ![n] = legacy[n]]
       ELSE /\ fails' = [fails EXCEPT ![n] = IF legacy[n] > @ THEN legacy[n] ELSE @]
            /\ UNCHANGED status
    /\ UNCHANGED <<phase, evid, legacy, unmerged, backup, secrets, discVars, workVars,
                   histVars, boundVars>>

\* The error of the merging update is dropped, and the old row goes all the same.
MigrateMergeFails(n) ==
    /\ phase = "boot" /\ legacy[n] # None /\ n \notin copied
    /\ status[n] # None /\ "merge" \in Faults
    /\ copied' = copied \cup {n}
    /\ unmerged' = unmerged \cup {n}
    /\ UNCHANGED <<phase, rowVars, legacy, backup, secrets, discVars, workVars, histVars,
                   boundVars>>

\* Its last statement: the old row goes.
MigrateDelete(n) ==
    /\ phase = "boot" /\ legacy[n] # None /\ n \in copied
    /\ legacy' = [legacy EXCEPT ![n] = None]
    /\ UNCHANGED <<phase, rowVars, copied, unmerged, backup, secrets, discVars, workVars,
                   histVars, boundVars>>

\* Mutant: a row that was about to start its tunnel is forgotten.
RecoverLiveOnly ==
    /\ phase = "boot"
    /\ "create" \in Faults \/ \A n \in Node : legacy[n] = None
    /\ phase' = "up"
    /\ status' = [n \in Node |-> IF status[n] \in RuntimeStates \ {"CONNECTING"}
                                 THEN "STALE" ELSE status[n]]
    /\ UNCHANGED <<evid, fails, fileVars, secrets, discVars, workVars, histVars, boundVars>>

\* RecoverRuntimeNodeStates, and the rest of main up to its services.  A legacy
\* row is still there when its copy could not be created.
Recover ==
    /\ phase = "boot"
    /\ "create" \in Faults \/ \A n \in Node : legacy[n] = None
    /\ phase' = "up"
    /\ status' = [n \in Node |-> IF status[n] \in RuntimeStates THEN "STALE" ELSE status[n]]
    /\ UNCHANGED <<evid, fails, fileVars, secrets, discVars, workVars, histVars, boundVars>>

\* The process ends, by a signal, a failure of the start or a crash: only the
\* database is left.
Crash ==
    /\ \/ phase = "up"
       \/ phase = "boot" /\ "init" \in Faults
    /\ phase' = "down"
    /\ secrets' = {}
    /\ disc' = "idle" /\ batch' = {} /\ usable' = {}
    /\ verdict' = [n \in Node |-> None]
    /\ wpc' = "idle" /\ wnode' = None /\ wst' = "NEW" /\ wfc' = 0
    /\ pool' = [n \in Node |-> None] /\ pfc' = [n \in Node |-> 0]
    /\ op' = [h \in Switch |-> IdleOp]
    /\ last' = [n \in Node |-> None] /\ own' = {} /\ failed' = {}
    /\ UNCHANGED <<rowVars, fileVars, boundVars>>

\* What is known of a node's failures, wherever it is kept.
Larger(a, b) == IF a > b THEN a ELSE b
InFile(f, l) == IF l = None THEN f ELSE Larger(f, l)
History(n) ==
    LET here == InFile(fails[n], legacy[n]) IN
    IF backup = None THEN here ELSE Larger(here, InFile(backup.fails[n], backup.legacy[n]))

\* Mutant: the original is dropped and not put aside.
CleanDrop ==
    /\ phase = "down" /\ backup = None
    /\ phase' = "clean"
    /\ status' = [n \in Node |-> None]
    /\ evid' = [n \in Node |-> "none"]
    /\ fails' = [n \in Node |-> 0]
    /\ legacy' = [n \in Node |-> None]
    /\ UNCHANGED <<copied, unmerged, backup, secrets, discVars, workVars, histVars, boundVars>>

\* CleanDatabase, with the manager down: the checkpointed file is renamed; ...
CleanRotate ==
    /\ phase = "down" /\ backup = None
    /\ phase' = "clean"
    /\ backup' = [status |-> status, evid |-> evid, fails |-> fails, legacy |-> legacy]
    /\ status' = [n \in Node |-> None]
    /\ evid' = [n \in Node |-> "none"]
    /\ fails' = [n \in Node |-> 0]
    /\ legacy' = [n \in Node |-> None]
    /\ UNCHANGED <<copied, unmerged, secrets, discVars, workVars, histVars, boundVars>>

\* ... a fresh one is initialised, by this command or, if it dies here, by the
\* manager's next start; ...
CleanDone ==
    /\ phase = "clean"
    /\ phase' = "down"
    /\ UNCHANGED <<rowVars, fileVars, secrets, discVars, workVars, histVars, boundVars>>

\* ... or what there is of it is removed and the original moved back.
CleanRestore ==
    /\ phase = "clean" /\ "init" \in Faults
    /\ phase' = "down"
    /\ status' = backup.status /\ evid' = backup.evid
    /\ fails' = backup.fails /\ legacy' = backup.legacy
    /\ backup' = None
    /\ UNCHANGED <<copied, unmerged, secrets, discVars, workVars, histVars, boundVars>>
-----------------------------------------------------------------------------
(* The discovery refresh *)

\* RefreshCoordinator.Trigger: one refresh at a time.  Parsing the list puts the
\* credentials into the cache.
Trigger ==
    /\ phase = "up" /\ disc = "idle" /\ refreshes < MaxRefreshes
    /\ disc' = "fetch"
    /\ refreshes' = refreshes + 1
    /\ UNCHANGED <<phase, rowVars, fileVars, secrets, batch, verdict, usable, workVars,
                   histVars, rounds, switches, starts, stale>>

Fetch(nodes) ==
    /\ disc = "fetch"
    /\ disc' = "vet"
    /\ batch' = nodes
    /\ secrets' = secrets \cup nodes
    /\ failed' = failed \ nodes
    /\ UNCHANGED <<phase, rowVars, fileVars, verdict, usable, workVars, last, own, boundVars>>

FetchFails ==
    /\ disc = "fetch" /\ "fetch" \in Faults
    /\ disc' = "idle"
    /\ UNCHANGED <<phase, rowVars, fileVars, secrets, batch, verdict, usable, workVars,
                   histVars, boundVars>>

\* A worker of VetNodes: a rejected node loses its credentials, but for a
\* hard-rejected endpoint, which may be probed in quarantine.
Vet(n, outcome) ==
    /\ disc = "vet" /\ n \in batch /\ verdict[n] = None
    /\ verdict' = [verdict EXCEPT ![n] = outcome]
    /\ secrets' = IF outcome = "unknown" THEN secrets \ {n} ELSE secrets
    /\ UNCHANGED <<phase, rowVars, fileVars, disc, batch, usable, workVars, histVars, boundVars>>

\* UpsertVettedNodes looks at the credentials before it opens the transaction.
ReadSecrets ==
    /\ disc = "vet" /\ \A n \in batch : verdict[n] # None
    /\ disc' = "store"
    /\ usable' = {n \in batch : verdict[n] = "accepted" /\ n \in secrets}
    /\ UNCHANGED <<phase, rowVars, fileVars, secrets, batch, verdict, workVars, histVars, boundVars>>

Readmissible == {"NEW", "DISCOVERED", "REPUTATION_CHECKED", "STALE", "FAILED", "COOLDOWN", "DEAD"}
Rejectable == {"NEW", "DISCOVERED", "REPUTATION_CHECKED", "HEALTHY", "QUALIFIED", "STALE",
               "FAILED", "COOLDOWN"}

Evaluated(n) == IF verdict[n] = "hard" THEN "blacklisted" ELSE "endpoint"

\* A new row has the status vetting gave its node; an old one moves if it may.
Stored(n) ==
    IF status[n] = None
    THEN IF verdict[n] = "accepted" THEN "REPUTATION_CHECKED" ELSE "FAILED"
    ELSE IF n \in usable /\ status[n] \in Readmissible THEN "REPUTATION_CHECKED"
         ELSE IF verdict[n] # "accepted" /\ status[n] \in Rejectable THEN "FAILED"
              ELSE status[n]

RefreshOver ==
    /\ disc' = "idle" /\ batch' = {} /\ usable' = {}
    /\ verdict' = [n \in Node |-> None]

\* Mutant: a rejection leaves the row alone.
StoreAccepted ==
    /\ disc = "store" /\ RefreshOver
    /\ status' = [n \in Node |-> IF n \in usable THEN Stored(n) ELSE status[n]]
    /\ evid' = [n \in Node |-> IF n \in usable /\ status[n] \notin LiveStatuses
                               THEN Evaluated(n) ELSE evid[n]]
    /\ last' = [n \in Node |-> IF n \in batch THEN verdict[n] ELSE last[n]]
    /\ own' = own \cup usable
    /\ UNCHANGED <<phase, fails, fileVars, secrets, workVars, failed, boundVars>>

\* The transaction of UpsertVettedNodes.  A row that is live by its status keeps
\* the evidence of its observed exit.
Store ==
    /\ disc = "store" /\ RefreshOver
    /\ status' = [n \in Node |-> IF n \in batch THEN Stored(n) ELSE status[n]]
    /\ evid' = [n \in Node |-> IF n \in batch /\ status[n] \notin LiveStatuses
                               THEN Evaluated(n) ELSE evid[n]]
    /\ last' = [n \in Node |-> IF n \in batch THEN verdict[n] ELSE last[n]]
    /\ own' = own \cup {n \in batch : Stored(n) # status[n]}
    /\ UNCHANGED <<phase, fails, fileVars, secrets, workVars, failed, boundVars>>

StoreFails ==
    /\ disc = "store" /\ "store" \in Faults /\ RefreshOver
    /\ UNCHANGED <<phase, rowVars, fileVars, secrets, workVars, histVars, boundVars>>

\* DefaultSecretTTL is over.
SecretExpires(n) ==
    /\ n \in secrets
    /\ secrets' = secrets \ {n}
    /\ UNCHANGED <<phase, rowVars, fileVars, discVars, workVars, histVars, boundVars>>
-----------------------------------------------------------------------------
(* The scheduler *)

\* Mutant: the credentials stay.
TransitionNodeNoEviction(n, from, count, to) ==
    /\ CanTransition(from, to)
    /\ status' = [status EXCEPT ![n] = to]
    /\ own' = own \cup {n}
    /\ fails' = IF to = "FAILED" THEN [fails EXCEPT ![n] = count + 1] ELSE fails
    /\ failed' = IF to = "FAILED" THEN failed \cup {n} ELSE failed
    /\ UNCHANGED secrets

\* TransitionNode on a copy with status from and fail count count: the row is
\* overwritten; FAILED counts a failure on top of the copy's and drops the
\* credentials.
TransitionNode(n, from, count, to) ==
    /\ CanTransition(from, to)
    /\ status' = [status EXCEPT ![n] = to]
    /\ own' = own \cup {n}
    /\ fails' = IF to = "FAILED" THEN [fails EXCEPT ![n] = count + 1] ELSE fails
    /\ failed' = IF to = "FAILED" THEN failed \cup {n} ELSE failed
    /\ secrets' = IF to = "FAILED" THEN secrets \ {n} ELSE secrets

\* A caller that ignores the refusal.
TryTransition(n, from, count, to) ==
    \/ TransitionNode(n, from, count, to)
    \/ ~CanTransition(from, to) /\ UNCHANGED <<status, own, fails, failed, secrets>>

\* FailNode's reason replaces the one that made a quarantined endpoint a candidate.
Reworded(n) == [evid EXCEPT ![n] = IF @ = "blacklisted" THEN "endpoint" ELSE @]

WorkerIdle == wpc' = "idle" /\ wnode' = None /\ wst' = "NEW" /\ wfc' = 0

\* SelectNextCandidate: a vetted row, or a hard-rejected endpoint to probe
Select(n) ==
    /\ phase = "up" /\ wpc = "idle" /\ rounds < MaxRounds
    /\ n \in secrets
    /\ \/ status[n] \in {"REPUTATION_CHECKED", "HEALTHY", "QUALIFIED"}
       \/ status[n] = "FAILED" /\ evid[n] = "blacklisted"
    /\ wpc' = IF status[n] = "FAILED" THEN "connect" ELSE "endpoint"
    /\ wnode' = n /\ wst' = status[n] /\ wfc' = fails[n]
    /\ rounds' = rounds + 1
    /\ UNCHANGED <<phase, rowVars, fileVars, secrets, discVars, poolVars, op, histVars,
                   switches, refreshes, starts, stale>>

\* The endpoint's reputation is checked again, and persisted.
AdmitEndpoint ==
    /\ wpc = "endpoint"
    /\ wpc' = IF wst = "REPUTATION_CHECKED" THEN "recheck" ELSE "connect"
    /\ evid' = [evid EXCEPT ![wnode] = "endpoint"]
    /\ UNCHANGED <<phase, status, fails, fileVars, secrets, discVars, wnode, wst, wfc,
                   poolVars, op, histVars, boundVars>>

\* The audit write: REPUTATION_CHECKED again, whatever the row says by now.
Recheck ==
    /\ wpc = "recheck"
    /\ TransitionNode(wnode, wst, wfc, "REPUTATION_CHECKED")
    /\ wpc' = "connect"
    /\ UNCHANGED <<phase, evid, fileVars, discVars, wnode, wst, wfc, poolVars, op, last,
                   boundVars>>

\* CONNECTING, then StartTunnel needs the credentials.
Connect ==
    /\ wpc = "connect"
    /\ TransitionNode(wnode, wst, wfc, "CONNECTING")
    /\ wst' = "CONNECTING"
    /\ wpc' = "probe"
    /\ UNCHANGED <<phase, evid, fileVars, discVars, wnode, wfc, poolVars, op, last, boundVars>>

\* HEALTH_CHECK; the observed exit is evaluated and its evidence persisted.
Probe ==
    /\ wpc = "probe" /\ wnode \in secrets
    /\ TransitionNode(wnode, wst, wfc, "HEALTH_CHECK")
    /\ wst' = "HEALTH_CHECK"
    /\ wpc' = "exit"
    /\ evid' = [evid EXCEPT ![wnode] = "exit"]
    /\ UNCHANGED <<phase, fileVars, discVars, wnode, wfc, poolVars, op, last, boundVars>>

\* SPEED_TEST, QUALIFIED, STANDBY
Qualify ==
    /\ wpc = "exit"
    /\ TransitionNode(wnode, "QUALIFIED", wfc, "STANDBY")
    /\ pool' = [pool EXCEPT ![wnode] = "STANDBY"]
    /\ pfc' = [pfc EXCEPT ![wnode] = wfc]
    /\ WorkerIdle
    /\ UNCHANGED <<phase, evid, fileVars, discVars, op, last, boundVars>>

\* FailNode at any stage; before CONNECTING a quarantined endpoint does not fail.
GiveUp ==
    /\ wpc \in {"endpoint", "probe", "exit"}
    /\ TransitionNode(wnode, wst, wfc, "FAILED")
    /\ evid' = IF wpc = "endpoint" THEN [evid EXCEPT ![wnode] = "endpoint"] ELSE Reworded(wnode)
    /\ WorkerIdle
    /\ UNCHANGED <<phase, fileVars, discVars, poolVars, op, last, boundVars>>

\* What becomes of a tunnel in the maps
PoolMoves == {<<"STANDBY", "ACTIVE">>, <<"ACTIVE", "DRAINING">>, <<"ACTIVE", "FAILED">>,
              <<"DRAINING", "FAILED">>}

\* Mutant: a tunnel that failed keeps its place.
PoolMoveKeep(n, to) ==
    /\ phase = "up" /\ <<pool[n], to>> \in PoolMoves
    /\ TransitionNode(n, pool[n], pfc[n], to)
    /\ pool' = [pool EXCEPT ![n] = to]
    /\ UNCHANGED <<phase, evid, pfc, fileVars, discVars, wpc, wnode, wst, wfc, op, last,
                   boundVars>>

\* It is promoted, drained, or ends; one that dies in its slot fails with a reason.
PoolMove(n, to) ==
    /\ phase = "up" /\ <<pool[n], to>> \in PoolMoves
    /\ TransitionNode(n, pool[n], pfc[n], to)
    /\ pool' = [pool EXCEPT ![n] = IF to = "FAILED" THEN None ELSE to]
    /\ pfc' = [pfc EXCEPT ![n] = IF to = "FAILED" THEN 0 ELSE @]
    /\ evid' = IF <<pool[n], to>> = <<"ACTIVE", "FAILED">> THEN Reworded(n) ELSE evid
    /\ UNCHANGED <<phase, fileVars, discVars, wpc, wnode, wst, wfc, op, last, boundVars>>

\* A standby tunnel that is dead or cannot be routed is dropped; its row stays.
PoolDrop(n) ==
    /\ phase = "up" /\ pool[n] = "STANDBY"
    /\ pool' = [pool EXCEPT ![n] = None] /\ pfc' = [pfc EXCEPT ![n] = 0]
    /\ UNCHANGED <<phase, rowVars, fileVars, secrets, discVars, wpc, wnode, wst, wfc, op,
                   histVars, boundVars>>
-----------------------------------------------------------------------------
(* The manual switch *)

InUse(n) == pool[n] = "ACTIVE" \/ \E g \in Switch : op[g].pc = "serving" /\ op[g].node = n

\* The handler's checks, under the scheduler's lock, on the row as it is now
Request(h, n) ==
    /\ phase = "up" /\ op[h].pc = "idle" /\ switches < MaxSwitches
    /\ status[n] \in {"REPUTATION_CHECKED", "STANDBY", "QUALIFIED"}
    /\ ~InUse(n) /\ n \in secrets
    /\ op' = [op EXCEPT ![h] = [pc |-> "admission", node |-> n, st |-> status[n], fc |-> fails[n]]]
    /\ switches' = switches + 1
    /\ UNCHANGED <<phase, rowVars, fileVars, secrets, discVars, wpc, wnode, wst, wfc, poolVars,
                   histVars, rounds, refreshes, starts, stale>>

\* A step of a switch that leaves the rows' statuses alone
OpOnly(h, new) ==
    /\ op' = [op EXCEPT ![h] = new]
    /\ UNCHANGED <<phase, status, fails, fileVars, secrets, discVars, wpc, wnode, wst, wfc,
                   poolVars, histVars, boundVars>>

\* One that moves the row, if the copy may, and puts evid' right itself
OpTransition(h, to, new) ==
    /\ TryTransition(op[h].node, op[h].st, op[h].fc, to)
    /\ op' = [op EXCEPT ![h] = new]
    /\ UNCHANGED <<phase, fileVars, discVars, wpc, wnode, wst, wfc, poolVars, last, boundVars>>

\* The endpoint's verdict goes into the row, live or not; a rejection fails the node.
OpReject(h) ==
    /\ op[h].pc = "admission"
    /\ evid' = [evid EXCEPT ![op[h].node] = "endpoint"]
    /\ OpTransition(h, "FAILED", IdleOp)
OpAdmit(h) ==
    /\ op[h].pc = "admission"
    /\ evid' = [evid EXCEPT ![op[h].node] = "endpoint"]
    /\ OpOnly(h, [op[h] EXCEPT !.pc = "prepare"])

\* executeManualSwitch reads the row again; it ends here if the row is gone or its
\* node has come into use.
OpDecline(h) ==
    /\ op[h].pc = "prepare" /\ (status[op[h].node] = None \/ InUse(op[h].node))
    /\ UNCHANGED evid /\ OpOnly(h, IdleOp)
OpPrepare(h) ==
    /\ op[h].pc = "prepare" /\ status[op[h].node] # None
    /\ UNCHANGED evid
    /\ OpOnly(h, [op[h] EXCEPT !.pc = "connect", !.st = status[op[h].node],
                               !.fc = fails[op[h].node]])

\* StartTunnel
OpStart(h) ==
    /\ op[h].pc = "connect" /\ op[h].node \in secrets
    /\ UNCHANGED evid /\ OpOnly(h, [op[h] EXCEPT !.pc = "observe"])

\* The observed exit's verdict goes into the row; ...
OpObserve(h) ==
    /\ op[h].pc = "observe"
    /\ evid' = [evid EXCEPT ![op[h].node] = "exit"]
    /\ OpOnly(h, [op[h] EXCEPT !.pc = "qualify"])

\* ... the candidate is qualified, ...
OpQualify(h) ==
    /\ op[h].pc = "qualify"
    /\ UNCHANGED evid
    /\ OpTransition(h, "QUALIFIED",
                    [op[h] EXCEPT !.pc = "commit", !.st = Moved(op[h].st, "QUALIFIED")])

\* ... and takes over the slot.
OpCommit(h) ==
    /\ op[h].pc = "commit"
    /\ UNCHANGED evid
    /\ OpTransition(h, "ACTIVE",
                    [op[h] EXCEPT !.pc = "serving", !.st = Moved(op[h].st, "ACTIVE")])

\* FailNode wherever the switch gives its candidate up
OpFail(h) ==
    /\ op[h].pc \in {"connect", "observe", "qualify", "commit"}
    /\ evid' = Reworded(op[h].node)
    /\ OpTransition(h, "FAILED", IdleOp)

\* The tunnel in the slot is drained, or ends.
OpMove(h, to) ==
    /\ \/ op[h].pc = "serving" /\ to \in {"DRAINING", "FAILED"}
       \/ op[h].pc = "draining" /\ to = "FAILED"
    /\ evid' = IF op[h].pc = "serving" /\ to = "FAILED" THEN Reworded(op[h].node) ELSE evid
    /\ OpTransition(h, to, IF to = "FAILED" THEN IdleOp
                           ELSE [op[h] EXCEPT !.pc = "draining", !.st = Moved(op[h].st, to)])
-----------------------------------------------------------------------------
\* cleanStaleNodes: a row unseen for a day, whatever its status
CleanStale(n) ==
    /\ phase = "up" /\ stale < MaxStale
    /\ status[n] \notin {None, "STALE"}
    /\ stale' = stale + 1
    /\ status' = [status EXCEPT ![n] = "STALE"]
    /\ UNCHANGED <<phase, evid, fails, fileVars, secrets, discVars, workVars, histVars,
                   rounds, switches, refreshes, starts>>

Next ==
    \/ Start \/ Recover \/ Crash \/ CleanRotate \/ CleanDone \/ CleanRestore
    \/ Trigger \/ FetchFails \/ ReadSecrets \/ Store \/ StoreFails
    \/ \E nodes \in SUBSET Node \ {{}} : Fetch(nodes)
    \/ AdmitEndpoint \/ Recheck \/ Connect \/ Probe \/ Qualify \/ GiveUp
    \/ \E n \in Node :
         \/ MigrateCopy(n) \/ MigrateMergeFails(n) \/ MigrateDelete(n)
         \/ \E outcome \in Outcome : Vet(n, outcome)
         \/ SecretExpires(n) \/ Select(n) \/ CleanStale(n) \/ PoolDrop(n)
         \/ \E to \in NodeStatus : PoolMove(n, to)
    \/ \E h \in Switch :
         \/ \E n \in Node : Request(h, n)
         \/ OpReject(h) \/ OpAdmit(h) \/ OpDecline(h) \/ OpPrepare(h) \/ OpStart(h)
         \/ OpObserve(h) \/ OpQualify(h) \/ OpCommit(h) \/ OpFail(h)
         \/ \E to \in NodeStatus : OpMove(h, to)

Spec == Init /\ [][Next]_vars
-----------------------------------------------------------------------------
(* Properties *)

\* A running manager never finds a row that claims a candidate, a qualification
\* or a tunnel of a process that is gone: what claims one was written since the
\* start, wherever the last process, a migration or `database clean` stopped
\* (RecoverRuntimeNodeStates).
NoInheritedClaims ==
    phase = "up" => \A n \in Node : status[n] \in RuntimeStates => n \in own

\* A row waits as a candidate only if the last refresh that listed the node
\* accepted it, however the worker's writes from its own copy fall between the
\* refresh's steps (UpsertVettedNodes).
CandidatesVetted ==
    phase = "up" => \A n \in Node :
        status[n] = "REPUTATION_CHECKED" /\ wnode # n => last[n] = "accepted"

\* No tunnel is started to a node that has failed since a list last had it,
\* although the worker and the switches go on with copies of the row they read
\* before the failure (TransitionNode evicts the credentials StartTunnel needs).
FailedNodesRest ==
    [][/\ wpc = "probe" /\ wpc' = "exit" => wnode \notin failed
       /\ \A h \in Switch : op[h].pc = "connect" /\ op'[h].pc = "observe"
                           => op[h].node \notin failed]_vars

\* No migration, recovery or `database clean` loses what is known of a node's
\* failures, even when it dies between two of its statements, but for a migration
\* whose merging update failed (MigrateNodeIdentities deletes the old row anyway).
HistoryKept ==
    [][phase # "up" => \A n \in Node \ unmerged : History(n)' >= History(n)]_vars
=============================================================================
