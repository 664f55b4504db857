---------------------------- MODULE MCReputation ----------------------------
(* An instance of Reputation: two providers and what they may report. *)
EXTENDS Reputation

CONSTANTS c1

R(score, traits, abuse, known) ==
    [score |-> score, traits |-> traits, abuse |-> abuse, known |-> known]

\* A clean and a RISKY report; a clean one and a hard rejection.
ReportDef ==
    [p \in Provider |->
        IF p = "ProxyCheck.io"
        THEN {R(0, {}, FALSE, TRUE), R(40, {}, FALSE, TRUE)}
        ELSE {R(0, {}, FALSE, TRUE), R(95, {"tor"}, FALSE, TRUE)}]

TTLDef == [p \in Provider |-> 2]
=============================================================================
