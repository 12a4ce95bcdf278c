-------------------------- MODULE MCDroneController --------------------------
(* Instances of DroneController for TLC. *)
EXTENDS DroneController, TLC

CONSTANTS s1, s2, still, north, south, none

OneStreamer == {s1}
TwoStreamers == {s1, s2}
OneVelocity == {still, north}
TwoVelocities == {still, north, south}
StreamerSymmetry == Permutations(TwoStreamers)
=============================================================================
