----------------------------- MODULE MCCredentials -----------------------------
(* Small instances of Credentials for TLC. *)
EXTENDS Credentials, TLC

CONSTANTS m1, m2, d1, d2

TwoMacs == {m1, m2}
TwoDevices == {d1, d2}
OneMac == {m1}
OneDevice == {d1}

One == {1}
Two == 1..2
Three == 1..3
Four == 1..4

\* Macs and device rows differ in name only; no liveness run uses this.
Symmetric == Permutations(Macs) \cup Permutations(Devices)

================================================================================
