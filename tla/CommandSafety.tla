---------------------------- MODULE CommandSafety ----------------------------
(***************************************************************************)
(* The deterministic safety layer, without state of its own: how telemetry *)
(* becomes an operational state (src/core/drone_snapshot.py) and which     *)
(* command CommandValidator admits in it (src/safety/command_validator.py).*)
(* Telemetry is a record with the Booleans connected, armed and in_air     *)
(* (None counts as FALSE), the flight mode, and low_battery: the battery   *)
(* is known and below min_battery_remaining.                               *)
(***************************************************************************)
EXTENDS Integers

Commands == {"arm", "disarm", "takeoff", "land", "hold", "move_velocity"}
FlightModes == {"OFFBOARD", "LAND", "other"}
OperationalStates == {"GROUNDED", "LANDED", "ARMED", "AIRBORNE", "OFFBOARD", "LANDING"}

Telemetry == [connected : BOOLEAN, armed : BOOLEAN, in_air : BOOLEAN,
              flight_mode : FlightModes, low_battery : BOOLEAN]

Snapshots == [state : OperationalStates, connected : BOOLEAN, low_battery : BOOLEAN]

-----------------------------------------------------------------------------
(* DroneSnapshotBuilder *)

\* The builder's memory: has_been_airborne, and _previous_armed ("none" before the first build).
BuilderMemory == [has_been_airborne : BOOLEAN, previous_armed : {"none", "yes", "no"}]
FreshBuilder == [has_been_airborne |-> FALSE, previous_armed |-> "none"]

\* Mutant: the flight history survives a disarm and a new arm.
RememberForever(m, t) ==
  [has_been_airborne |-> m.has_been_airborne \/ t.in_air,
   previous_armed    |-> IF t.armed THEN "yes" ELSE "no"]

\* Mutant: any build that sees the vehicle armed on the ground forgets the flight.
RememberUntilArmed(m, t) ==
  [has_been_airborne |-> t.in_air \/ (m.has_been_airborne /\ ~t.armed),
   previous_armed    |-> IF t.armed THEN "yes" ELSE "no"]

\* Mutant: the flight is forgotten when the vehicle was armed before, not disarmed.
RememberPolarity(m, t) ==
  [has_been_airborne |-> \/ t.in_air
                         \/ m.has_been_airborne /\ ~(t.armed /\ m.previous_armed = "yes"),
   previous_armed    |-> IF t.armed THEN "yes" ELSE "no"]

\* The memory after a build: a flight is remembered until the vehicle is seen to arm anew on the ground.
Remember(m, t) ==
  [has_been_airborne |-> \/ t.in_air
                         \/ m.has_been_airborne /\ ~(t.armed /\ m.previous_armed = "no"),
   previous_armed    |-> IF t.armed THEN "yes" ELSE "no"]

\* _operational_state for a vehicle that is connected and in the air.
AirborneState(flight_mode) ==
  CASE flight_mode = "OFFBOARD" -> "OFFBOARD"
    [] flight_mode = "LAND"     -> "LANDING"
    [] OTHER                    -> "AIRBORNE"

\* _operational_state for a vehicle that is connected and on the ground.
GroundState(t, has_been_airborne) ==
  CASE ~t.armed -> "GROUNDED"
    [] t.armed /\ (t.flight_mode = "LAND" \/ has_been_airborne) -> "LANDED"
    [] OTHER -> "ARMED"

\* Mutant: the flight mode is tested before in_air, so a vehicle in LAND mode is never airborne.
OperationalStateModeFirst(t, has_been_airborne) ==
  CASE ~t.connected -> "GROUNDED"
    [] t.connected /\ t.in_air /\ t.flight_mode # "LAND" -> AirborneState(t.flight_mode)
    [] OTHER -> GroundState(t, has_been_airborne)

\* _operational_state.
OperationalState(t, has_been_airborne) ==
  CASE ~t.connected -> "GROUNDED"
    [] t.connected /\ t.in_air -> AirborneState(t.flight_mode)
    [] OTHER -> GroundState(t, has_been_airborne)

\* The snapshot built from t by a builder whose memory, before the build, is m.
Snapshot(m, t) ==
  [state       |-> OperationalState(t, Remember(m, t).has_been_airborne),
   connected   |-> t.connected,
   low_battery |-> t.low_battery]

-----------------------------------------------------------------------------
(* CommandValidator *)

\* _allowed_states_for.
AllowedStates(c) ==
  CASE c = "arm"           -> {"GROUNDED"}
    [] c = "disarm"        -> {"GROUNDED", "LANDED"}
    [] c = "takeoff"       -> {"ARMED"}
    [] c = "land"          -> {"AIRBORNE", "OFFBOARD", "LANDING"}
    [] c = "hold"          -> OperationalStates \ {"LANDING"}
    [] c = "move_velocity" -> {"AIRBORNE", "OFFBOARD"}

\* _check_business_rules.
Admits(c, s) ==
  /\ s.connected
  /\ s.low_battery => c \in {"land", "disarm"}
  /\ s.state \in AllowedStates(c)

\* validate's override: a command whose target was not found is replaced by hold.
Effective(c, target_found) == IF target_found THEN c ELSE "hold"

-----------------------------------------------------------------------------
(* The battery reading, which MAVSDK reports as a fraction or as a percentage *)

\* remaining_percent is an integer number of hundredths here, so 100 is the reading
\* 1.0; a normalised value is in ten-thousandths, so MinBattery is 0.20.
MinBattery == 2000
FullBattery == 10000

\* normalise_battery_remaining of the controller's health check.
NormaliseBattery(reading) == IF reading > 100 THEN reading ELSE 100 * reading

\* normalise_controller_battery of the snapshot, which clamps as well.
NormaliseControllerBattery(reading) ==
  LET remaining == IF reading > 100 THEN reading ELSE 100 * reading
  IN  CASE remaining < 0 -> 0
        [] remaining > FullBattery -> FullBattery
        [] OTHER -> remaining

-----------------------------------------------------------------------------
(* What the table and the builder guarantee together *)

\* In the air and connected, land is admitted: whatever the flight mode, the battery
\* and the history the builder has, and it is the one flight command a low battery
\* leaves.
LandIsAlwaysAdmitted(m, t) ==
  t.connected /\ t.in_air => Admits("land", Snapshot(m, t))

\* A vehicle in the air is never told to arm, disarm or take off, and one on the
\* ground is never told to move or land; without a connection nothing is admitted.
AdmissionMatchesFlight(m, t) ==
  LET s == Snapshot(m, t)
  IN  /\ t.in_air => \A c \in {"arm", "disarm", "takeoff"} : ~Admits(c, s)
      /\ ~t.in_air => \A c \in {"land", "move_velocity"} : ~Admits(c, s)
      /\ ~t.connected => \A c \in Commands : ~Admits(c, s)

\* The controller's health check and the validator judge the same reading alike.
BatteryJudgedAlike(reading) ==
  (NormaliseBattery(reading) < MinBattery) <=> (NormaliseControllerBattery(reading) < MinBattery)
=============================================================================
