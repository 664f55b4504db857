-------------------------- MODULE XrayRoutingProofs --------------------------
(* Theorems about the candidate-commit transactions, for any set of slots and *)
(* ingresses and any number of failures.                                      *)
EXTENDS XrayRouting, FiniteSetTheorems, TLAPS

\* The target of a call is a set of slots.
LEMMA TargetType ==
    ASSUME NEW c \in Calls, mem \subseteq Slot
    PROVE  Target(c) \subseteq Slot
BY DEF Target, Calls, Promise!Calls, Promise!Target

\* NoCall is not a call.
LEMMA NoCallApart == NoCall \notin Calls
<1>1. Calls \subseteq [op: {"activate", "drain", "sync"}, arg: SUBSET Slot]
  BY DEF Calls, Promise!Calls
<1> QED BY <1>1, RoutingAssumption

\* Every step preserves the types.
LEMMA TypeStep == TypeOK /\ [Next]_vars => TypeOK'
<1> SUFFICES ASSUME TypeOK, [Next]_vars PROVE TypeOK'
  OBVIOUS
<1> USE RoutingAssumption
<1>t. call \in Calls => Target(call) \subseteq Slot
  BY TargetType DEF TypeOK
<1>g. pc # "idle" => Goal \subseteq Slot
  BY <1>t DEF TypeOK, Goal
<1>f. ASSUME NEW k, Fault(k) PROVE faults' \in 0 .. MaxFaults
  BY <1>f DEF Fault, TypeOK
<1>1. CASE AlreadyThere
  BY <1>1 DEF AlreadyThere, Return, TypeOK
<1>2. CASE Begin
  BY <1>2 DEF Begin, TypeOK
<1>3. CASE AdRules
  <2>1. rules' \in [Ingress -> SUBSET Slot]
    BY <1>3, <1>g DEF AdRules, Applying, TypeOK
  <2>2. faults' \in 0 .. MaxFaults
    BY <1>3, <1>f DEF AdRules, TypeOK
  <2> QED BY <1>3, <2>1, <2>2 DEF AdRules, Applying, TypeOK
<1>4. CASE AdRulesFail
  <2>1. rules' \in [Ingress -> SUBSET Slot]
    BY <1>4, <1>g DEF AdRulesFail, Applying, TypeOK
  <2>2. faults' \in 0 .. MaxFaults
    BY <1>4, <1>f DEF AdRulesFail, TypeOK
  <2> QED BY <1>4, <2>1, <2>2 DEF AdRulesFail, Applying, Failed, Return, TypeOK
<1>5. CASE ReadBack
  BY <1>5, <1>g DEF ReadBack, Reading, Return, TypeOK
<1>6. CASE ReadBackFail
  <2>1. faults' \in 0 .. MaxFaults
    BY <1>6, <1>f DEF ReadBackFail, TypeOK
  <2> QED BY <1>6, <2>1 DEF ReadBackFail, Reading, Failed, Return, TypeOK
<1>7. ASSUME NEW c \in Calls, Invoke(c) PROVE TypeOK'
  BY <1>7 DEF Invoke, TypeOK
<1>8. CASE Crash
  BY <1>8, <1>f DEF Crash, Blocked, TypeOK
<1>9. CASE Launch
  BY <1>9 DEF Launch, TypeOK
<1>10. CASE Ready
  BY <1>10 DEF Ready, TypeOK
<1>11. CASE UNCHANGED vars
  BY <1>11 DEF vars, TypeOK
<1> QED BY <1>1, <1>2, <1>3, <1>4, <1>5, <1>6, <1>7, <1>8, <1>9, <1>10, <1>11
        DEF Next, Transaction

\* The types hold initially.
LEMMA TypeInit == Init => TypeOK
<1>1. MaxFaults \in Nat
  BY RoutingAssumption
<1>2. Init => rules \in [Ingress -> SUBSET Slot]
  BY DEF Init, Blocked
<1>3. Init => faults \in 0 .. MaxFaults
  BY <1>1 DEF Init
<1> QED BY <1>2, <1>3, Zenon DEF Init, TypeOK

\* Memory, the runtime rules and the call in progress keep their types.
THEOREM TypeCorrect == Spec => []TypeOK
BY TypeInit, TypeStep, PTL DEF Spec
------------------------------------------------------------------------------
(* What FailClosed needs while a call is in progress *)

\* No ingress goes beyond the slots in S.
Within(S) == \A i \in Ingress : rules[i] \subseteq S

\* Before a call touches Xray the runtime is within memory, unless an old rule was
\* kept that the read-back could not see, and a read-back finds what was applied
\* just before or, after a crash, nothing.
InCallSafe ==
    /\ pc \in {"idle", "start"} /\ ~unsafe /\ (kept => Cardinality(mem) <= 1) => Within(mem)
    /\ pc \in {"readback", "recheck"} /\ ~kept => Within(Goal)

\* A read-back of at most one slot is exact at every ingress.
LEMMA DirectExact ==
    ASSUME NEW S \in SUBSET Slot, Cardinality(S) <= 1, Verified(S)
    PROVE  \A i \in Ingress : rules[i] = S
<1>1. Cardinality(S) \in Nat
  BY RoutingAssumption, FS_Subset, FS_CardinalityType
<1> QED BY <1>1 DEF Verified, Matches

\* Every step preserves it.
LEMMA InCallStep ==
    ASSUME TypeOK, InCallSafe, [Next]_vars
    PROVE  InCallSafe'
<1> USE DEF InCallSafe, Within
<1>1. CASE AlreadyThere
  BY <1>1 DEF AlreadyThere, Return
<1>2. CASE Begin
  BY <1>2 DEF Begin
<1>3. CASE AdRules
  <2>1. rules' = [i \in Ingress |-> Goal] \/ kept' = TRUE
    BY <1>3 DEF AdRules
  <2>2. Goal' = Goal /\ pc' \in {"readback", "recheck"}
    BY <1>3 DEF AdRules, Applying, Goal, Target
  <2> QED BY <2>1, <2>2
<1>4. CASE AdRulesFail
  BY <1>4 DEF AdRulesFail, Applying, Failed, Return
<1>5. CASE ReadBack
  <2>1. Goal \subseteq Slot
    BY <1>5, TargetType DEF ReadBack, Reading, Goal, TypeOK
  <2>2. CASE kept /\ Cardinality(Goal) <= 1
    <3>1. \A i \in Ingress : rules[i] = Goal
      BY <1>5, <2>1, <2>2, DirectExact DEF ReadBack
    <3> QED BY <1>5, <3>1 DEF ReadBack, Reading, Return
  <2>3. CASE ~(kept /\ Cardinality(Goal) <= 1)
    BY <1>5, <2>3 DEF ReadBack, Reading, Return
  <2> QED BY <2>2, <2>3
<1>6. CASE ReadBackFail
  BY <1>6 DEF ReadBackFail, Reading, Failed, Return
<1>7. ASSUME NEW c \in Calls, Invoke(c) PROVE InCallSafe'
  BY <1>7 DEF Invoke
<1>8. CASE Crash
  <2>1. \A i \in Ingress : rules'[i] = {}
    BY <1>8 DEF Crash, Blocked
  <2> QED BY <2>1
<1>9. CASE Launch
  BY <1>9 DEF Launch
<1>10. CASE Ready
  BY <1>10 DEF Ready, Goal, Target
<1>11. CASE UNCHANGED vars
  BY <1>11 DEF vars, Goal, Target
<1> QED BY <1>1, <1>2, <1>3, <1>4, <1>5, <1>6, <1>7, <1>8, <1>9, <1>10, <1>11
        DEF Next, Transaction

\* No failure or crash at any step, nor any number of them, leaves Xray balancing
\* over a slot outside activeOutbounds between calls, except after a failed rollback
\* and under an old rule that is kept silently beside two or more slots.
THEOREM FailsClosed == Spec => []FailClosed
<1>1. Init => InCallSafe
  BY DEF Init, Blocked, InCallSafe, Within
<1>2. TypeOK /\ InCallSafe /\ [Next]_vars => InCallSafe'
  BY InCallStep
<1>3. InCallSafe => FailClosed
  BY DEF InCallSafe, Within, FailClosed
<1> QED BY <1>1, <1>2, <1>3, TypeCorrect, PTL DEF Spec
------------------------------------------------------------------------------
(* Refinement *)

\* A call that has begun is one that has something to do; memory does not move
\* before it returns.
Purposeful == pc \in {"apply", "readback", "rollback", "recheck"} => ~NothingToDo(call)

\* Every step preserves it.
LEMMA PurposefulStep ==
    ASSUME Purposeful, [Next]_vars
    PROVE  Purposeful'
<1> USE DEF Purposeful, NothingToDo
<1>1. CASE AlreadyThere
  BY <1>1 DEF AlreadyThere, Return
<1>2. CASE Begin
  BY <1>2 DEF Begin
<1>3. CASE AdRules
  BY <1>3 DEF AdRules, Applying
<1>4. CASE AdRulesFail
  BY <1>4 DEF AdRulesFail, Applying, Failed, Return
<1>5. CASE ReadBack
  BY <1>5 DEF ReadBack, Return
<1>6. CASE ReadBackFail
  BY <1>6 DEF ReadBackFail, Reading, Failed, Return
<1>7. ASSUME NEW c \in Calls, Invoke(c) PROVE Purposeful'
  BY <1>7 DEF Invoke
<1>8. CASE Crash \/ Launch \/ Ready \/ UNCHANGED vars
  BY <1>8 DEF Crash, Launch, Ready, vars
<1> QED BY <1>1, <1>2, <1>3, <1>4, <1>5, <1>6, <1>7, <1>8 DEF Next, Transaction

\* Every step of a transaction is a step of the promise or invisible to callers.
LEMMA PromiseStep ==
    ASSUME TypeOK, Purposeful, [Next]_vars
    PROVE  [Promise!Next]_(Promise!vars)
<1>n. pc # "idle" => call # NoCall
  BY NoCallApart DEF TypeOK
<1>f. ASSUME pc \in {"rollback", "recheck"}, Return("err"), UNCHANGED mem
      PROVE  Promise!Next
  <2>1. Promise!Fail
    BY <1>f, <1>n DEF Return, Purposeful, NothingToDo, Promise!Fail
  <2> QED BY <2>1 DEF Promise!Next
<1>1. CASE AlreadyThere
  <2>1. mem' = Target(call)
    BY <1>1 DEF AlreadyThere, NothingToDo, Target, Promise!NothingToDo
  <2>2. Promise!Succeed
    BY <1>1, <1>n, <2>1 DEF AlreadyThere, Return, Target, Promise!Succeed
  <2> QED BY <2>2 DEF Promise!Next
<1>2. CASE Begin
  BY <1>2 DEF Begin, Promise!vars
<1>3. CASE AdRules
  BY <1>3 DEF AdRules, Applying, Promise!vars
<1>4. CASE AdRulesFail
  <2>1. CASE pc = "apply"
    BY <1>4, <2>1 DEF AdRulesFail, Failed, Promise!vars
  <2>2. CASE pc = "rollback"
    BY <1>4, <1>f, <2>2 DEF AdRulesFail, Failed
  <2> QED BY <1>4, <2>1, <2>2 DEF AdRulesFail, Applying
<1>5. CASE ReadBack
  <2>1. CASE pc = "readback"
    <3>1. Promise!Succeed
      BY <1>5, <1>n, <2>1 DEF ReadBack, Return, Goal, Target, Promise!Succeed
    <3> QED BY <3>1 DEF Promise!Next
  <2>2. CASE pc = "recheck"
    BY <1>5, <1>f, <2>2 DEF ReadBack, Goal
  <2> QED BY <1>5, <2>1, <2>2 DEF ReadBack, Reading
<1>6. CASE ReadBackFail
  <2>1. CASE pc = "readback"
    BY <1>6, <2>1 DEF ReadBackFail, Failed, Promise!vars
  <2>2. CASE pc = "recheck"
    BY <1>6, <1>f, <2>2 DEF ReadBackFail, Failed
  <2> QED BY <1>6, <2>1, <2>2 DEF ReadBackFail, Reading
<1>7. ASSUME NEW c \in Calls, Invoke(c) PROVE Promise!Next
  <2>1. Promise!Invoke(c)
    BY <1>7 DEF Invoke, Promise!Invoke
  <2> QED BY <2>1 DEF Calls, Promise!Next
<1>8. CASE Crash \/ Launch \/ Ready \/ UNCHANGED vars
  BY <1>8 DEF Crash, Launch, Ready, vars, Promise!vars
<1> QED BY <1>1, <1>2, <1>3, <1>4, <1>5, <1>6, <1>7, <1>8 DEF Next, Transaction

\* To its callers the transaction is atomic: each call changes activeOutbounds as
\* asked, in one step, or fails and leaves it alone, and a call with nothing to do
\* does not fail.  EgressSlots relies on exactly this for xact.
THEOREM CallsAtomic == Spec => KeepsPromise
<1>1. Init => Promise!Init
  BY DEF Init, Promise!Init
<1>2. Init => Purposeful
  BY DEF Init, Purposeful
<1>3. Purposeful /\ [Next]_vars => Purposeful'
  BY PurposefulStep
<1>4. TypeOK /\ Purposeful /\ [Next]_vars => [Promise!Next]_(Promise!vars)
  BY PromiseStep
<1> QED BY <1>1, <1>2, <1>3, <1>4, TypeCorrect, PTL DEF Spec, KeepsPromise, Promise!Spec
------------------------------------------------------------------------------
(* Survivors *)

\* Whatever is applied while a call is in progress, the candidate or the old set,
\* contains a slot that both of them contain.
LEMMA GoalKeeps ==
    ASSUME NEW s \in mem, s \in Target(call)
    PROVE  s \in Goal
BY DEF Goal

\* No step of a transaction, whatever fails in it, takes a slot that was active
\* and stays active away from an ingress of the running Xray.
THEOREM SurvivorsKept == Spec => SurvivorsUninterrupted
<1> DEFINE Keep == \A i \in Ingress, s \in mem :
        pc # "idle" /\ s \in rules[i] /\ s \in Target(call) /\ proc' = "up" => s \in rules'[i]
<1>1. ASSUME [Next]_vars PROVE Keep \/ UNCHANGED vars
  <2> SUFFICES ASSUME NEW i \in Ingress, NEW s \in mem, ~UNCHANGED vars,
                      pc # "idle", s \in rules[i], s \in Target(call), proc' = "up"
               PROVE  s \in rules'[i]
    OBVIOUS
  <2>g. s \in Goal
    BY GoalKeeps
  <2>1. CASE AdRules
    BY <2>1, <2>g DEF AdRules
  <2>2. CASE AdRulesFail
    BY <2>2, <2>g DEF AdRulesFail
  <2>3. CASE AlreadyThere \/ Begin \/ ReadBack \/ ReadBackFail
    BY <2>3 DEF AlreadyThere, Begin, ReadBack, ReadBackFail
  <2>4. ASSUME NEW c \in Calls, Invoke(c) PROVE s \in rules'[i]
    BY <2>4 DEF Invoke
  <2>5. CASE Crash
    BY <2>5 DEF Crash
  <2>6. CASE Launch \/ Ready
    BY <2>6 DEF Launch, Ready
  <2> QED BY <1>1, <2>1, <2>2, <2>3, <2>4, <2>5, <2>6 DEF Next, Transaction
<1>2. [Next]_vars => [Keep]_vars
  BY <1>1
<1> HIDE DEF Keep
<1>3. Spec => [][Keep]_vars
  BY <1>2, PTL DEF Spec
<1> QED BY <1>3 DEF SurvivorsUninterrupted, Keep
=============================================================================
