-------------------------------- MODULE Binding --------------------------------
(***************************************************************************)
(* What a parent may rely on about device rows and the Macs behind them,   *)
(* with nothing said of codes, keys, rotations, lost answers or retries: a *)
(* device belongs to the first Mac that enrols as it, for good, and an     *)
(* agent removes itself from a Mac only after a device of that Mac was     *)
(* decommissioned.  Credentials is shown to implement it.                  *)
(***************************************************************************)
EXTENDS Naturals

CONSTANTS Macs, Devices, None

VARIABLES
  owner,    \* the Mac a device belongs to, or None
  retired,  \* devices a parent has ever decommissioned
  removed   \* Macs from which the agent has removed itself

vars == <<owner, retired, removed>>

Init ==
  /\ owner = [d \in Devices |-> None]
  /\ retired = {}
  /\ removed = {}

\* A Mac enrols as a device nobody has.
Enrol(m, d) ==
  /\ owner[d] = None
  /\ owner' = [owner EXCEPT ![d] = m]
  /\ UNCHANGED <<retired, removed>>

\* The parent decommissions a device, enrolled or not.
Decommission(d) ==
  /\ retired' = retired \cup {d}
  /\ UNCHANGED <<owner, removed>>

\* The agent of a Mac uninstalls itself.
Remove(m) ==
  /\ \E d \in retired : owner[d] = m
  /\ removed' = removed \cup {m}
  /\ UNCHANGED <<owner, retired>>

\* It is installed there again.
Reinstall(m) ==
  /\ removed' = removed \ {m}
  /\ UNCHANGED <<owner, retired>>

Next ==
  \/ \E m \in Macs, d \in Devices : Enrol(m, d)
  \/ \E d \in Devices : Decommission(d)
  \/ \E m \in Macs : Remove(m) \/ Reinstall(m)

Spec == Init /\ [][Next]_vars

================================================================================
