---------------------------- MODULE MCNodeIntake ----------------------------
(* An instance of NodeIntake: one node, which has a row under the old id.     *)
EXTENDS NodeIntake, TLC

CONSTANTS n1, s1

LegacyDef == [n \in Node |-> IF n = n1 THEN 2 ELSE None]
=============================================================================
