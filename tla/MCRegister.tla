----------------------------- MODULE MCRegister -----------------------------
(***************************************************************************)
(* The register and its adapter on a small instance: connections that are  *)
(* both malicious and blocked, or neither, on one interface.               *)
(***************************************************************************)
EXTENDS ConnectionsAdapter

MCReported ==
    {[mal |-> FALSE, blk |-> FALSE, ifidx |-> 1], [mal |-> TRUE, blk |-> TRUE, ifidx |-> 1]}
=============================================================================
