---------------------------- MODULE MCSupervisor ----------------------------
(* Two versions, of which the later may be flawed; the claims of the comments take three. *)
EXTENDS Supervisor
=============================================================================
