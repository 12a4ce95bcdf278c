---------------------------- MODULE DroneSnapshot ----------------------------
(***************************************************************************)
(* DroneSnapshotBuilder over time: the vehicle moves, and the builder sees *)
(* it only when a snapshot is built (src/core/drone_snapshot.py, called    *)
(* from the agent loop and from the server).                               *)
(***************************************************************************)
EXTENDS CommandSafety

CONSTANT Readings   \* the battery readings considered, in hundredths
ASSUME ReadingsAssumption == Readings \subseteq Int

VARIABLES
  t,        \* the cached telemetry
  reading,  \* the battery reading behind t.low_battery
  memory,   \* the builder's fields
  seen,     \* history: a snapshot was built since t.armed or t.in_air last changed
  flown     \* history: the vehicle has been in the air since it was last armed

vars == <<t, reading, memory, seen, flown>>

Init ==
  /\ t = [connected |-> FALSE, armed |-> FALSE, in_air |-> FALSE,
          flight_mode |-> "other", low_battery |-> FALSE]
  /\ reading = 100
  /\ memory = FreshBuilder
  /\ seen = FALSE
  /\ flown = FALSE

build ==
  /\ memory' = Remember(memory, t)
  /\ seen' = TRUE
  /\ UNCHANGED <<t, reading, flown>>

\* The vehicle arms or disarms on the ground, takes off or touches down.  The run
\* assumes that a snapshot is built in between, which the loop's idle period ensures
\* except while it waits for cognition or for a command.
VehicleMoves ==
  /\ seen
  /\ seen' = FALSE
  /\ \/ ~t.in_air /\ t' = [t EXCEPT !.armed = ~@] /\ flown' = FALSE
     \/ t.armed /\ ~t.in_air /\ t' = [t EXCEPT !.in_air = TRUE] /\ flown' = TRUE
     \/ t.in_air /\ t' = [t EXCEPT !.in_air = FALSE] /\ UNCHANGED flown
  /\ UNCHANGED <<reading, memory>>

\* The mode, the link and the battery change at any time.
VehicleReports ==
  /\ \/ /\ \E mode \in FlightModes : t' = [t EXCEPT !.flight_mode = mode]
        /\ UNCHANGED reading
     \/ /\ t' = [t EXCEPT !.connected = ~@]
        /\ UNCHANGED reading
     \/ \E r \in Readings :
          /\ reading' = r
          /\ t' = [t EXCEPT !.low_battery = NormaliseControllerBattery(r) < MinBattery]
  /\ UNCHANGED <<memory, seen, flown>>

Next == build \/ VehicleMoves \/ VehicleReports

Spec == Init /\ [][Next]_vars

-----------------------------------------------------------------------------

\* Types of the builder and of what it observes.
TypeOK ==
  /\ t \in Telemetry
  /\ reading \in Readings \cup {100}
  /\ memory \in BuilderMemory
  /\ seen \in BOOLEAN
  /\ flown \in BOOLEAN

\* The admission table and the builder agree in every state of the vehicle: land is open
\* to whatever flies, on the ground nothing moves, nothing is admitted without a connection,
\* and the battery is judged as the controller's health check judges it.
AdmissionSound ==
  /\ LandIsAlwaysAdmitted(memory, t)
  /\ AdmissionMatchesFlight(memory, t)
  /\ BatteryJudgedAlike(reading)

\* What the builder's two fields say of the flight between two builds: once the
\* present values were seen they agree with them, and a landing not yet seen is of
\* a flight that was.
BuilderKeepsUp ==
  /\ t.in_air => flown
  /\ flown => t.armed
  /\ seen => memory.previous_armed = IF t.armed THEN "yes" ELSE "no"
  /\ (flown /\ (seen \/ ~t.in_air)) => memory.has_been_airborne
  /\ (flown /\ ~t.in_air) => memory.previous_armed = "yes"

\* As long as no change of armed or in_air goes unseen, no second takeoff is
\* admitted in an arming cycle: a vehicle that has landed must be disarmed first.
NoSecondTakeoff == flown => ~Admits("takeoff", Snapshot(memory, t))

\* The other direction: a vehicle armed anew after a flight can take off again as
\* soon as it is ready; the builder's history does not lock it out.
FreshArmingReleases ==
  (/\ seen /\ ~flown /\ t.armed /\ ~t.in_air /\ t.connected /\ ~t.low_battery
   /\ t.flight_mode # "LAND") => Admits("takeoff", Snapshot(memory, t))
=============================================================================
