--------------------------- MODULE MCPolicyTables ---------------------------
(* An instance of PolicyTables. *)
EXTENDS PolicyTables

CONSTANTS t1, t2
=============================================================================
