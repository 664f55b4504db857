----------------------------- MODULE XrayRouting -----------------------------
(***************************************************************************)
(* The candidate-commit transactions of the Xray supervisor.  A call       *)
(* applies its candidate rules to the running Xray (api adrules), reads    *)
(* them back (api lsrules, api bi) and only then commits them to           *)
(* activeOutbounds; on failure it applies the old rules again.  Xray may   *)
(* die at any moment; its successor starts with every ingress blocked.     *)
(*                                                                         *)
(* Supervisor.mu is held from Invoke until the call returns, that is,      *)
(* while pc # "idle".                                                      *)
(***************************************************************************)
EXTENDS Integers, FiniteSets

CONSTANTS
    Slot,       \* exit-0 .. exit-(slotCount - 1)
    Ingress,    \* inbounds with a rule of their own: SOCKS, and VLESS if enabled
    NoCall,     \* before the first call
    Faults,     \* kinds of failure the environment may inject
    MaxFaults   \* bound: failures and crashes

\* "refuse": adrules fails without effect; "lost": it fails although Xray has
\* taken the rules; "silent": it succeeds although an ingress keeps its rule;
\* "query": lsrules or bi fails; "crash": the process dies.
FaultKind == {"refuse", "lost", "silent", "query", "crash"}

ASSUME RoutingAssumption ==
    /\ IsFiniteSet(Slot)
    /\ MaxFaults \in Nat
    /\ Faults \subseteq FaultKind
    /\ NoCall \notin [op: {"activate", "drain", "sync"}, arg: SUBSET Slot]

VARIABLES
    mem,     \* Supervisor.activeOutbounds
    rules,   \* what each ingress rule of the running Xray selects
    proc,    \* the Xray process
    call,    \* the call in progress, or the last one
    pc,      \* where that call is
    result,  \* what it returned
    unsafe,  \* a rollback failed ("CRITICAL SAFETY STATE") and nothing verified since
    kept,    \* the last adrules left an ingress its old rule, and reported success
    faults   \* failures so far

vars == <<mem, rules, proc, call, pc, result, unsafe, kept, faults>>

Promise == INSTANCE ActiveSet WITH set <- mem, call <- (IF pc = "idle" THEN NoCall ELSE call)
Calls == Promise!Calls
Target(c) == Promise!Target(c, mem)
NothingToDo(c) == Promise!NothingToDo(c, mem)

\* Every variable has its type.
TypeOK ==
    /\ mem \subseteq Slot
    /\ rules \in [Ingress -> SUBSET Slot]
    /\ proc \in {"down", "starting", "up"}
    /\ call \in Calls \cup {NoCall}
    /\ pc \in {"idle", "start", "apply", "readback", "rollback", "recheck"}
    /\ pc # "idle" => call \in Calls
    /\ result \in {"none", "ok", "err"}
    /\ unsafe \in BOOLEAN /\ kept \in BOOLEAN
    /\ faults \in 0 .. MaxFaults

\* GenerateConfig: every ingress is blocked until a slot is active.
Blocked == [i \in Ingress |-> {}]

Init ==
    /\ mem = {}
    /\ rules = Blocked
    /\ proc = "up"
    /\ call = NoCall
    /\ pc = "idle"
    /\ result = "none"
    /\ unsafe = FALSE /\ kept = FALSE
    /\ faults = 0
------------------------------------------------------------------------------
(* The process *)

Fault(kind) == kind \in Faults /\ faults < MaxFaults /\ faults' = faults + 1

\* A process that dies before it is ready belongs to XraySupervisor.
Crash ==
    /\ Fault("crash")
    /\ proc = "up"
    /\ proc' = "down"
    /\ rules' = Blocked
    /\ UNCHANGED <<mem, call, pc, result, unsafe, kept>>

\* monitorLoop and Restart need Supervisor.mu to launch the successor.
Launch ==
    /\ proc = "down"
    /\ pc = "idle"
    /\ proc' = "starting"
    /\ UNCHANGED <<mem, rules, call, pc, result, unsafe, kept, faults>>

Ready ==
    /\ proc = "starting"
    /\ proc' = "up"
    /\ UNCHANGED <<mem, rules, call, pc, result, unsafe, kept, faults>>
------------------------------------------------------------------------------
(* Calls *)

Invoke(c) ==
    /\ pc = "idle"
    /\ call' = c
    /\ pc' = "start"
    /\ result' = "none"
    /\ UNCHANGED <<mem, rules, proc, unsafe, kept, faults>>

Return(r) == pc' = "idle" /\ result' = r

\* ActivateSlot and DrainingSlot return at once when memory says it is done.
AlreadyThere ==
    /\ pc = "start"
    /\ NothingToDo(call)
    /\ Return("ok")
    /\ UNCHANGED <<mem, rules, proc, call, unsafe, kept, faults>>

\* Mutant: memory is changed before Xray is.
BeginEager ==
    /\ pc = "start"
    /\ ~NothingToDo(call)
    /\ mem' = Target(call)
    /\ pc' = "apply"
    /\ UNCHANGED <<rules, proc, call, result, unsafe, kept, faults>>

Begin ==
    /\ pc = "start"
    /\ ~NothingToDo(call)
    /\ pc' = "apply"
    /\ UNCHANGED <<mem, rules, proc, call, result, unsafe, kept, faults>>

\* Mutant: the rollback blocks everything.
GoalBlock == IF pc \in {"apply", "readback"} THEN Target(call) ELSE {}

\* The rules being applied or read back: the candidate, or the old set.
Goal == IF pc \in {"apply", "readback"} THEN Target(call) ELSE mem

Applying == pc \in {"apply", "rollback"}
Reading == pc \in {"readback", "recheck"}

\* A failed candidate is rolled back; a failed rollback is only logged.
Failed ==
    IF pc \in {"apply", "readback"}
    THEN pc' = "rollback" /\ UNCHANGED <<result, unsafe>>
    ELSE Return("err") /\ unsafe' = TRUE

\* api adrules replaces the rules of every ingress.
AdRules ==
    /\ Applying
    /\ proc = "up"
    /\ \/ rules' = [i \in Ingress |-> Goal] /\ kept' = FALSE /\ UNCHANGED faults
       \/ /\ Fault("silent")
          /\ kept' = TRUE
          /\ \E stale \in SUBSET Ingress :
                rules' = [i \in Ingress |-> IF i \in stale THEN rules[i] ELSE Goal]
    /\ pc' = IF pc = "apply" THEN "readback" ELSE "recheck"
    /\ UNCHANGED <<mem, proc, call, result, unsafe>>

AdRulesFail ==
    /\ Applying
    /\ \/ proc # "up" /\ UNCHANGED <<rules, faults>>
       \/ proc = "up" /\ Fault("refuse") /\ UNCHANGED rules
       \/ proc = "up" /\ Fault("lost") /\ rules' = [i \in Ingress |-> Goal]
    /\ Failed
    /\ UNCHANGED <<mem, proc, call, kept>>

\* Mutant: only the SOCKS rule is read back.
MatchesSocks(i, S) == i = "socks" => rules[i] = S

\* validateRuntimeRuleTarget: lsrules shows the outbound of a direct or blocking
\* rule, but not which balancer a balancing rule uses; that the balancer the code
\* expects exists with the right selectors (api bi) holds by the configuration.
Matches(i, S) ==
    IF Cardinality(S) > 1 THEN Cardinality(rules[i]) > 1 ELSE rules[i] = S

Verified(S) == \A i \in Ingress : Matches(i, S)

\* The commit follows the read-back under the same lock.
ReadBack ==
    /\ Reading
    /\ proc = "up"
    /\ Verified(Goal)
    /\ mem' = Goal
    /\ Return(IF pc = "readback" THEN "ok" ELSE "err")
    /\ unsafe' = FALSE
    /\ UNCHANGED <<rules, proc, call, kept, faults>>

ReadBackFail ==
    /\ Reading
    /\ \/ proc # "up" /\ UNCHANGED faults
       \/ proc = "up" /\ Fault("query")
       \/ proc = "up" /\ ~Verified(Goal) /\ UNCHANGED faults
    /\ Failed
    /\ UNCHANGED <<mem, rules, proc, call, kept>>
------------------------------------------------------------------------------
(* Specification *)

Transaction == AlreadyThere \/ Begin \/ AdRules \/ AdRulesFail \/ ReadBack \/ ReadBackFail
Synchronise == \E c \in Calls : c.op = "sync" /\ Invoke(c)

Next ==
    \/ Transaction
    \/ \E c \in Calls : Invoke(c)
    \/ Crash \/ Launch \/ Ready

Spec == Init /\ [][Next]_vars

\* A call in progress and a recovery go on; the worker synchronises in every
\* cycle, for which it gets Supervisor.mu although others compete (sync.RWMutex
\* does not starve a writer).
FairSpec ==
    /\ Spec
    /\ WF_vars(Transaction) /\ WF_vars(Ready)
    /\ SF_vars(Launch) /\ SF_vars(Synchronise)
------------------------------------------------------------------------------
(* Properties *)

\* Between calls no ingress of the running Xray sends new connections to a slot
\* outside activeOutbounds: whatever fails, and also when Xray only claims to have
\* taken the rules, the transaction errs on the side of fewer slots
\* (applyCandidateRoutingLocked, syncActiveSlotsLocked, DrainingSlot, ActivateSlot).
\* Two cases are outside: a rollback that failed as well, and an old rule kept
\* under two or more slots, which the read-back cannot tell from the right one.
FailClosed ==
    pc = "idle" /\ ~unsafe /\ (kept => Cardinality(mem) <= 1) =>
        \A i \in Ingress : rules[i] \subseteq mem

\* A transaction never interrupts a slot that was and stays active: no step takes
\* it from an ingress, neither the candidate nor the rollback, while Xray lives.
SurvivorsUninterrupted ==
    [][\A i \in Ingress, s \in mem :
        pc # "idle" /\ s \in rules[i] /\ s \in Target(call) /\ proc' = "up" => s \in rules'[i]]_vars

\* The callers' view: each call takes effect at once or not at all.
KeepsPromise == Promise!Spec

\* Once failures and crashes stop, every ingress ends up with exactly the
\* committed slots, also after a crash that memory did not notice and after a
\* failed rollback: the worker's synchronisation repairs both.
RuntimeConverges == <>[](pc = "idle" => \A i \in Ingress : rules[i] = mem)
==============================================================================
