--------------------------- MODULE MCSensorSession ---------------------------
(* Small instances of SensorSession for TLC. *)
EXTENDS SensorSession

\* The one parameter is wanted at the second value.
WantedGate == [k \in {"farthest_gate"} |-> 2]
=============================================================================
