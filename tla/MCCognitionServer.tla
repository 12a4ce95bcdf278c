-------------------------- MODULE MCCognitionServer --------------------------
(* Instances of CognitionServer for TLC. *)
EXTENDS CognitionServer

\* What a flight reports: each state the validator distinguishes is among them, and
\* from each report another one is a single field away.
Connected == [Unknown EXCEPT !.connected = TRUE]
Armed == [Connected EXCEPT !.armed = TRUE]
Airborne == [Armed EXCEPT !.in_air = TRUE]
FlightReports ==
  {Unknown, Connected, Armed, Airborne, [Airborne EXCEPT !.flight_mode = "LAND"],
   [Armed EXCEPT !.flight_mode = "LAND"], [Airborne EXCEPT !.low_battery = TRUE]}
=============================================================================
