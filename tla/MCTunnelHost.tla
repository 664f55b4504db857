---------------------------- MODULE MCTunnelHost ----------------------------
(* Instances of TunnelHost: every uplink has an interface of its own.        *)
EXTENDS TunnelHost

CONSTANTS t1, t2, i1, wired, backup

IfaceDef == [u \in Uplink |-> u]
=============================================================================
