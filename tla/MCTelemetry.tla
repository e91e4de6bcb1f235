------------------------------ MODULE MCTelemetry ------------------------------
(***************************************************************************)
(* Small instances of Telemetry.                                           *)
(***************************************************************************)
EXTENDS Telemetry

\* Days by which the Mac's clock is off.  (A cap of 2 makes Target 1: room for one
\* receipt, as the 5% of 50,000 has.)
NoSkew == {0}
Ahead == {0, 2}
Behind == {0, -3}
=============================================================================
