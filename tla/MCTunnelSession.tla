-------------------------- MODULE MCTunnelSession --------------------------
(* Three endpoints, two of them ports of one address.                       *)
EXTENDS TunnelSession, TLC

CONSTANTS p1, p2, p3, a, b

MCIpOf == (p1 :> a) @@ (p2 :> a) @@ (p3 :> b)
=============================================================================
