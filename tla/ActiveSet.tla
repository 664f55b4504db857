------------------------------ MODULE ActiveSet ------------------------------
(***************************************************************************)
(* What the Xray supervisor promises the scheduler and a manual switch:    *)
(* ActivateSlot, DrainingSlot and SyncActiveSlots change the set of slots  *)
(* Xray balances over in one step, or fail and leave it alone; activating  *)
(* an active slot or draining an inactive one cannot fail.                 *)
(***************************************************************************)
CONSTANTS Slot, NoCall

VARIABLES
    set,    \* the slots new connections are balanced over
    call,   \* the call in progress
    result  \* what the last call returned

vars == <<set, call, result>>

Calls == [op: {"activate", "drain"}, arg: {{s} : s \in Slot}] \cup [op: {"sync"}, arg: SUBSET Slot]

\* The set a call asks for.
Target(c, S) ==
    CASE c.op = "activate" -> S \cup c.arg
      [] c.op = "drain" -> S \ c.arg
      [] OTHER -> c.arg

\* Mutant: a synchronisation with the known set is skipped as well.
NothingNew(c, S) == Target(c, S) = S

\* Activation and draining look at the set first; a synchronisation does not.
NothingToDo(c, S) == c.op # "sync" /\ Target(c, S) = S

Init == set = {} /\ call = NoCall /\ result = "none"

Invoke(c) == call = NoCall /\ call' = c /\ result' = "none" /\ UNCHANGED set

Succeed ==
    /\ call # NoCall
    /\ set' = Target(call, set)
    /\ call' = NoCall
    /\ result' = "ok"

Fail ==
    /\ call # NoCall
    /\ ~NothingToDo(call, set)
    /\ call' = NoCall
    /\ result' = "err"
    /\ UNCHANGED set

Next == (\E c \in Calls : Invoke(c)) \/ Succeed \/ Fail

Spec == Init /\ [][Next]_vars
==============================================================================
