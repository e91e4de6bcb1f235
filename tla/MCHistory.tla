------------------------------- MODULE MCHistory -------------------------------
(* Values for TLC: the errors of the clock, and how often each thing may   *)
(* happen in one life (the launch before Init included).                   *)
EXTENDS History, TLC

MCOffsets == {-1, 1}

MCOften ==
  [what \in {"boot", "off", "checkin", "unlock", "stop"} |-> 2] @@
  [what \in {"launch"} |-> 3] @@
  [what \in {"idle", "bedtime", "cut", "sleep", "remove", "sync", "lock", "trick", "undo",
             "measure", "correct", "apply"} |-> 1]

=============================================================================
