---------------------------- MODULE MCMqttClaim ----------------------------
(* Small instances of MqttClaim for TLC. *)
EXTENDS MqttClaim

MachineSymmetry == Permutations(Machine)
=============================================================================
