--------------------------- MODULE MCXraySupervisor ---------------------------
(* Small instances of XraySupervisor for TLC. *)
EXTENDS XraySupervisor
==============================================================================
