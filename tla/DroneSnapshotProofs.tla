------------------------- MODULE DroneSnapshotProofs -------------------------
(***************************************************************************)
(* What the admission table and the snapshot builder guarantee together,   *)
(* for every telemetry, every history of the builder and every battery.    *)
(***************************************************************************)
EXTENDS DroneSnapshot, TLAPS

\* A vehicle that is connected and in the air may always be told to land.
LEMMA LandAlways ==
  ASSUME NEW m \in BuilderMemory, NEW tel \in Telemetry
  PROVE  LandIsAlwaysAdmitted(m, tel)
BY DEF LandIsAlwaysAdmitted, Admits, Snapshot, OperationalState, AirborneState, AllowedStates,
       Telemetry, FlightModes

\* The states a snapshot can be in, by what the telemetry says of the flight.
LEMMA StateMatchesFlight ==
  ASSUME NEW m \in BuilderMemory, NEW tel \in Telemetry, tel.connected
  PROVE  /\ tel.in_air => Snapshot(m, tel).state \in {"AIRBORNE", "OFFBOARD", "LANDING"}
         /\ ~tel.in_air => Snapshot(m, tel).state \in {"GROUNDED", "LANDED", "ARMED"}
<1>1. CASE tel.in_air
  BY <1>1 DEF Snapshot, OperationalState, AirborneState, Telemetry
<1>2. CASE ~tel.in_air
  BY <1>2 DEF Snapshot, OperationalState, GroundState, Telemetry
<1> QED
  BY <1>1, <1>2

\* No command is admitted on the wrong side of the ground, none without a link.
LEMMA AdmissionAlways ==
  ASSUME NEW m \in BuilderMemory, NEW tel \in Telemetry
  PROVE  AdmissionMatchesFlight(m, tel)
<1>1. Snapshot(m, tel).connected = tel.connected
  BY DEF Snapshot
<1>2. CASE ~tel.connected
  BY <1>1, <1>2 DEF AdmissionMatchesFlight, Admits
<1>3. CASE tel.connected
  BY <1>3, StateMatchesFlight DEF AdmissionMatchesFlight, Admits, AllowedStates
<1> QED
  BY <1>2, <1>3

\* Both normalisations fall on the same side of the mission threshold.
LEMMA BatteryAlike ==
  ASSUME NEW r \in Int
  PROVE  BatteryJudgedAlike(r)
BY DEF BatteryJudgedAlike, NormaliseBattery, NormaliseControllerBattery, MinBattery, FullBattery

-----------------------------------------------------------------------------

\* The fields the properties read keep their types.
LEMMA TypeCorrect == Spec => []TypeOK
<1>1. Init => TypeOK
  <2> SUFFICES ASSUME Init PROVE TypeOK
    OBVIOUS
  <2>1. t \in Telemetry
    BY DEF Init, Telemetry, FlightModes
  <2>2. memory \in BuilderMemory
    BY DEF Init, BuilderMemory, FreshBuilder
  <2> QED
    BY <2>1, <2>2 DEF Init, TypeOK
<1>2. TypeOK /\ [Next]_vars => TypeOK'
  <2> SUFFICES ASSUME TypeOK, [Next]_vars PROVE TypeOK'
    OBVIOUS
  <2> USE DEF TypeOK
  <2>1. CASE build
    BY <2>1 DEF build, Remember, BuilderMemory, Telemetry
  <2>2. CASE VehicleMoves
    BY <2>2 DEF VehicleMoves, Telemetry
  <2>3. CASE VehicleReports
    <3>1. UNCHANGED <<memory, seen, flown>>
      BY <2>3 DEF VehicleReports
    <3>2. CASE (\E mode \in FlightModes : t' = [t EXCEPT !.flight_mode = mode]) /\ UNCHANGED reading
      BY <3>1, <3>2 DEF Telemetry
    <3>3. CASE t' = [t EXCEPT !.connected = ~@] /\ UNCHANGED reading
      BY <3>1, <3>3 DEF Telemetry
    <3>4. ASSUME NEW r \in Readings, reading' = r,
                 t' = [t EXCEPT !.low_battery = NormaliseControllerBattery(r) < MinBattery]
          PROVE  TypeOK'
      <4>1. (NormaliseControllerBattery(r) < MinBattery) \in BOOLEAN
        OBVIOUS
      <4> QED
        BY <3>1, <3>4, <4>1 DEF Telemetry
    <3> QED
      BY <2>3, <3>2, <3>3, <3>4 DEF VehicleReports
  <2>4. CASE UNCHANGED vars
    BY <2>4 DEF vars
  <2> QED
    BY <2>1, <2>2, <2>3, <2>4 DEF Next
<1>3. QED
  BY <1>1, <1>2, PTL DEF Spec

\* In every reachable state land is admitted in the air, no command is admitted on
\* the wrong side of the ground, and both battery judgements agree.
THEOREM AdmissionHolds == Spec => []AdmissionSound
<1>1. TypeOK => LandIsAlwaysAdmitted(memory, t) /\ AdmissionMatchesFlight(memory, t)
  BY LandAlways, AdmissionAlways DEF TypeOK
<1>2. TypeOK => BatteryJudgedAlike(reading)
  BY BatteryAlike, ReadingsAssumption DEF TypeOK
<1>3. TypeOK => AdmissionSound
  BY <1>1, <1>2 DEF AdmissionSound
<1>4. QED
  BY <1>3, TypeCorrect, PTL

LEMMA BuilderKeepsUpHolds == Spec => []BuilderKeepsUp
<1>1. Init => BuilderKeepsUp
  BY DEF Init, BuilderKeepsUp, FreshBuilder
<1>2. TypeOK /\ BuilderKeepsUp /\ [Next]_vars => BuilderKeepsUp'
  <2> SUFFICES ASSUME TypeOK, BuilderKeepsUp, [Next]_vars PROVE BuilderKeepsUp'
    OBVIOUS
  <2> USE DEF TypeOK, BuilderKeepsUp
  <2>1. CASE build
    BY <2>1 DEF build, Remember, BuilderMemory, Telemetry
  <2>2. CASE VehicleMoves
    BY <2>2 DEF VehicleMoves, BuilderMemory, Telemetry
  <2>3. CASE VehicleReports
    <3>1. t'.armed = t.armed /\ t'.in_air = t.in_air
      BY <2>3 DEF VehicleReports, Telemetry
    <3> QED
      BY <2>3, <3>1 DEF VehicleReports
  <2>4. CASE UNCHANGED vars
    BY <2>4 DEF vars
  <2> QED
    BY <2>1, <2>2, <2>3, <2>4 DEF Next
<1>3. QED
  BY <1>1, <1>2, TypeCorrect, PTL DEF Spec

\* No second takeoff is admitted in an arming cycle whose changes were all seen.
THEOREM NoSecondTakeoffHolds == Spec => []NoSecondTakeoff
<1>1. TypeOK /\ BuilderKeepsUp => NoSecondTakeoff
  <2> SUFFICES ASSUME TypeOK, BuilderKeepsUp, flown, t.connected
               PROVE  Snapshot(memory, t).state # "ARMED"
    BY DEF NoSecondTakeoff, Admits, AllowedStates, Snapshot
  <2>1. CASE t.in_air
    BY <2>1, StateMatchesFlight DEF TypeOK
  <2>2. CASE ~t.in_air
    <3>1. Remember(memory, t).has_been_airborne
      BY <2>2 DEF Remember, BuilderKeepsUp, TypeOK, BuilderMemory
    <3> QED
      BY <2>2, <3>1 DEF Snapshot, OperationalState, GroundState, BuilderKeepsUp, TypeOK, Telemetry
  <2> QED
    BY <2>1, <2>2
<1>2. QED
  BY <1>1, TypeCorrect, BuilderKeepsUpHolds, PTL

\* What the builder knows of an arming cycle without a flight: once the arming was seen
\* the last flight is forgotten, and before that the disarmed vehicle was seen.
ForgetsFlight ==
  (~flown /\ t.armed) => IF seen THEN ~memory.has_been_airborne ELSE memory.previous_armed = "no"

LEMMA ForgetsFlightHolds == Spec => []ForgetsFlight
<1>1. Init => ForgetsFlight
  BY DEF Init, ForgetsFlight
<1>2. TypeOK /\ BuilderKeepsUp /\ ForgetsFlight /\ [Next]_vars => ForgetsFlight'
  <2> SUFFICES ASSUME TypeOK, BuilderKeepsUp, ForgetsFlight, [Next]_vars PROVE ForgetsFlight'
    OBVIOUS
  <2> USE DEF TypeOK, ForgetsFlight
  <2>1. CASE build
    <3>1. memory' = Remember(memory, t) /\ seen' /\ UNCHANGED <<t, flown>>
      BY <2>1 DEF build
    <3>2. ~flown => ~t.in_air
      BY DEF BuilderKeepsUp
    <3> QED
      BY <3>1, <3>2 DEF Remember, BuilderMemory, Telemetry
  <2>2. CASE VehicleMoves
    <3>1. seen /\ ~seen' /\ UNCHANGED memory
      BY <2>2 DEF VehicleMoves
    <3>2. ~flown' /\ t'.armed => ~t.armed
      BY <2>2 DEF VehicleMoves, BuilderKeepsUp, Telemetry
    <3> QED
      BY <3>1, <3>2 DEF BuilderKeepsUp, BuilderMemory
  <2>3. CASE VehicleReports
    <3>1. t'.armed = t.armed
      BY <2>3 DEF VehicleReports, Telemetry
    <3> QED
      BY <2>3, <3>1 DEF VehicleReports
  <2>4. CASE UNCHANGED vars
    BY <2>4 DEF vars
  <2> QED
    BY <2>1, <2>2, <2>3, <2>4 DEF Next
<1>3. QED
  BY <1>1, <1>2, TypeCorrect, BuilderKeepsUpHolds, PTL DEF Spec

\* A vehicle armed anew after a flight, whose changes were all seen, may take off again.
THEOREM FreshArmingReleasesHolds == Spec => []FreshArmingReleases
<1>1. TypeOK /\ ForgetsFlight => FreshArmingReleases
  <2> SUFFICES ASSUME TypeOK, ForgetsFlight,
                      seen, ~flown, t.armed, ~t.in_air, t.connected, ~t.low_battery,
                      t.flight_mode # "LAND"
               PROVE  Admits("takeoff", Snapshot(memory, t))
    BY DEF FreshArmingReleases
  <2>1. ~Remember(memory, t).has_been_airborne
    BY DEF Remember, ForgetsFlight, TypeOK, BuilderMemory
  <2>2. Snapshot(memory, t).state = "ARMED"
    BY <2>1 DEF Snapshot, OperationalState, GroundState
  <2> QED
    BY <2>2 DEF Admits, AllowedStates, Snapshot
<1>2. QED
  BY <1>1, TypeCorrect, ForgetsFlightHolds, PTL
=============================================================================
