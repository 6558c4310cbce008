------------------------------- MODULE MCZdtun -------------------------------
(* The constants of Zdtun for TLC: one TCP, one ICMP and three UDP tuples, *)
(* two of which have the same client port.                                 *)
EXTENDS Zdtun, TLC

CONSTANTS t1, u1, u2, u3, i1, k1, k2

MCTcp == {t1}
MCUdp == {u1, u2, u3}
MCIcmp == {i1}
MCTimeout == t1 :> 2 @@ u1 :> 2 @@ u2 :> 1 @@ u3 :> 1 @@ i1 :> 1
MCKeyOf == u1 :> k1 @@ u2 :> k1 @@ u3 :> k2
=============================================================================
