--------------------------- MODULE MCDroneSnapshot ---------------------------
(* Instance of DroneSnapshot for TLC: readings on both sides of every boundary. *)
EXTENDS DroneSnapshot

BoundaryReadings == {-1, 0, 1, 19, 20, 21, 99, 100, 101, 1999, 2000, 2001, 10000, 10100}
=============================================================================
