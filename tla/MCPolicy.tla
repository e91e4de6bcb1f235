------------------------------ MODULE MCPolicy ------------------------------
(* One or two Macs, two requests at a time. *)
EXTENDS Policy, TLC
Symmetric == Permutations(Clients)
=============================================================================
