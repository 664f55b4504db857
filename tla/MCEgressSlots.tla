---------------------------- MODULE MCEgressSlots ----------------------------
(* Small instances of EgressSlots for TLC. *)
EXTENDS EgressSlots, TLC

CONSTANTS n1, n2, p1, p2, t1, t2, t3

\* Two nodes in different /24s, or in the same one.
Endpoint2 == n1 :> p1 @@ n2 :> p2
Endpoint1 == n1 :> p1 @@ n2 :> p1

\* Tunnel handles are interchangeable.
TunnelSymmetry == Permutations(Tunnel)
==============================================================================
