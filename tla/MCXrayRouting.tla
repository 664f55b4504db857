---------------------------- MODULE MCXrayRouting ----------------------------
(* Small instances of XrayRouting for TLC. *)
EXTENDS XrayRouting

CONSTANTS s0, s1, s2
==============================================================================
