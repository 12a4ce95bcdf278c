------------------------ MODULE DroneControllerProofs ------------------------
(***************************************************************************)
(* Type correctness of DroneController, and what its OFFBOARD sessions     *)
(* guarantee, for every set of velocities and streaming tasks.             *)
(***************************************************************************)
EXTENDS DroneController, TLAPS

Readings == {"yes", "no", "unknown", "good", "bad", "low", "OFFBOARD", "other"}

\* No command has more requirements than the type of step allows.
LEMMA RequirementsLength ==
  ASSUME NEW c \in Commands
  PROVE  Len(Requirements(c)) \in 0..3
BY DEF Requirements, Commands

\* What a command that has passed its requirements does before its first await.
LEMMA LaunchEffect ==
  ASSUME offboard_active \in BOOLEAN, quiet \in BOOLEAN,
         offboard_setpoint \in Velocities, offboard_task \in Streamers \cup {NoTask},
         NEW c \in Commands, NEW v \in Velocities, Launch(c, v)
  PROVE  /\ offboard_task' = offboard_task
         /\ offboard_active' \in BOOLEAN
         /\ offboard_active' => offboard_active
         /\ offboard_setpoint' \in Velocities
         /\ quiet' \in BOOLEAN
         /\ quiet' => quiet
         /\ \/ pc' = "idle"
            \/ pc' = "requesting" /\ (c \in {"hold", "land"} => ~offboard_active')
            \/ pc' = "zeroing" /\ c = "hold"
            \/ /\ pc' = "joining" /\ ~offboard_active' /\ c = "land"
               /\ offboard_task \in Streamers
            \/ pc' = "stopping" /\ ~offboard_active' /\ c = "land"
            \/ pc' \in {"steering", "priming"} /\ c = "move_velocity" /\ ~quiet'
<1>0. Zero \in Velocities
  BY ControllerAssumption
<1>1. CASE c = "land"
  <2>1. StopOffboard
    BY <1>1 DEF Launch
  <2>2. CASE offboard_active
    <3>1. /\ offboard_active' = FALSE
          /\ UNCHANGED <<offboard_setpoint, offboard_task, quiet>>
          /\ pc' = IF offboard_task = NoTask THEN "stopping" ELSE "joining"
      BY <2>1, <2>2 DEF StopOffboard, Suspend
    <3>2. pc' = "stopping" \/ (pc' = "joining" /\ offboard_task \in Streamers)
      BY <3>1
    <3> QED
      BY <1>1, <3>1, <3>2
  <2>3. CASE ~offboard_active
    BY <1>1, <2>1, <2>3 DEF StopOffboard, RequestAction, Suspend, sessionVars
  <2> QED
    BY <2>2, <2>3
<1>2. CASE c = "move_velocity"
  <2>1. BeginMove(v)
    BY <1>2 DEF Launch
  <2>2. CASE offboard_active
    BY <1>2, <2>1, <2>2 DEF BeginMove, Steer, Suspend
  <2>3. CASE ~offboard_active
    BY <1>0, <1>2, <2>1, <2>3 DEF BeginMove, Suspend
  <2> QED
    BY <2>2, <2>3
<1>3. CASE c \in {"arm", "disarm", "takeoff", "hold"}
  BY <1>3 DEF Launch, RequestAction, Return, Raise, Suspend, sessionVars
<1>4. QED
  BY <1>1, <1>2, <1>3 DEF Commands

\* The same for the whole of a command from its k-th requirement on.
LEMMA ProceedEffect ==
  ASSUME offboard_active \in BOOLEAN, quiet \in BOOLEAN,
         offboard_setpoint \in Velocities, offboard_task \in Streamers \cup {NoTask},
         NEW c \in Commands, NEW v \in Velocities, NEW k \in 1..3, Proceed(c, v, k)
  PROVE  /\ offboard_task' = offboard_task
         /\ offboard_active' \in BOOLEAN
         /\ offboard_active' => offboard_active
         /\ offboard_setpoint' \in Velocities
         /\ quiet' \in BOOLEAN
         /\ quiet' => quiet
         /\ step' \in 1..3
         /\ \/ pc' \in {"idle", "checking"}
            \/ pc' = "requesting" /\ (c \in {"hold", "land"} => ~offboard_active')
            \/ pc' = "zeroing" /\ c = "hold"
            \/ /\ pc' = "joining" /\ ~offboard_active' /\ c = "land"
               /\ offboard_task \in Streamers
            \/ pc' = "stopping" /\ ~offboard_active' /\ c = "land"
            \/ pc' \in {"steering", "priming"} /\ c = "move_velocity" /\ ~quiet'
<1> DEFINE R == Requirements(c)
           Obstacles == {i \in k..Len(R) : state[R[i][1]] \notin R[i][2]}
<1>1. CASE Launch(c, v) /\ step' = 1
  <2> HIDE DEF Obstacles
  <2> QED
    BY <1>1, LaunchEffect
<1>2. CASE \E i \in Obstacles :
             /\ \/ Suspend("checking") /\ step' = i
                \/ Raise /\ step' = 1
             /\ UNCHANGED <<sessionVars, quiet>>
  <2>1. Obstacles \subseteq 1..3
    BY RequirementsLength
  <2> HIDE DEF Obstacles
  <2> QED
    BY <1>2, <2>1 DEF Suspend, Raise, sessionVars
<1>3. QED
  BY <1>1, <1>2 DEF Proceed

-----------------------------------------------------------------------------

\* The part of the types that the OFFBOARD session is made of.
SessionTypes ==
  /\ pc \in PcLabels
  /\ cmd \in Commands
  /\ target \in Velocities
  /\ step \in 1..3
  /\ offboard_active \in BOOLEAN
  /\ offboard_setpoint \in Velocities
  /\ offboard_task \in Streamers \cup {NoTask}
  /\ quiet \in BOOLEAN
  /\ informed \in BOOLEAN

\* Every step of the command in progress keeps the session's types and discipline.
LEMMA CommandStepEffect ==
  ASSUME SessionTypes, SessionDiscipline, [Next]_vars
  PROVE  SessionTypes' /\ SessionDiscipline'
<1> USE ControllerAssumption
<1> USE DEF SessionTypes, SessionDiscipline, PcLabels, Commands, callVars
<1>1. ASSUME NEW f \in Fields, Watch(f) PROVE SessionTypes' /\ SessionDiscipline'
  BY <1>1 DEF Watch, commandVars, sessionVars
<1>2. ASSUME NEW c \in Commands, NEW v \in Velocities, Call(c, v)
      PROVE SessionTypes' /\ SessionDiscipline'
  <2>1. Proceed(c, v, 1) /\ cmd' = c /\ target' = v /\ informed' \in BOOLEAN
    BY <1>2 DEF Call
  <2> QED
    BY <2>1, ProceedEffect
<1>3. CASE Check
  <2>1. Proceed(cmd, target, step) /\ UNCHANGED callVars
    BY <1>3 DEF Check
  <2> QED
    BY <2>1, ProceedEffect
<1>4. CASE WaitExpires
  BY <1>4 DEF WaitExpires, Raise, sessionVars
<1>5. CASE ActionAccepted \/ ActionRefused \/ Confirm
  <2>1. CASE Return(cmd) /\ pc \in {"requesting", "confirming"}
    BY <1>5, <2>1 DEF ActionAccepted, ActionRefused, Confirm, Return, sessionVars
  <2>2. CASE pc' = "confirming" /\ UNCHANGED quiet /\ pc = "requesting"
    BY <1>5, <2>2 DEF ActionAccepted, ActionRefused, Confirm, sessionVars
  <2>3. CASE Raise
    BY <1>5, <2>3 DEF ActionAccepted, ActionRefused, Confirm, Raise, sessionVars
  <2> QED
    BY <1>5, <2>1, <2>2, <2>3 DEF ActionAccepted, ActionRefused, Confirm, Suspend
<1>6. CASE ZeroSent
  <2>1. StopOffboard /\ pc = "zeroing" /\ UNCHANGED <<callVars, step>>
    BY <1>6 DEF ZeroSent
  <2>2. CASE offboard_active
    BY <2>1, <2>2 DEF StopOffboard, Suspend
  <2>3. CASE ~offboard_active
    BY <2>1, <2>3 DEF StopOffboard, RequestAction, Suspend, sessionVars
  <2> QED
    BY <2>2, <2>3
<1>7. CASE ZeroRefused \/ StopAccepted \/ StopRefused \/ RequestBreaks
  BY <1>7 DEF ZeroRefused, StopAccepted, StopRefused, RequestBreaks, Raise, RequestAction,
              Suspend, sessionVars
<1>8. CASE Joined
  BY <1>8 DEF Joined, Suspend
<1>9. CASE Primed \/ Started \/ Opened
  <2>1. CASE Primed
    BY <2>1 DEF Primed, Suspend, sessionVars
  <2>2. CASE Started
    <3>1. /\ pc = "starting" /\ offboard_active' = TRUE /\ offboard_task' \in Streamers
          /\ UNCHANGED <<callVars, step, quiet>>
      BY <2>2 DEF Started
    <3>2. \/ offboard_setpoint' = target /\ pc' = "steering"
          \/ offboard_setpoint' = offboard_setpoint /\ pc' = "opening"
      BY <2>2 DEF Started, Steer, Suspend
    <3> QED
      BY <3>1, <3>2
  <2>3. CASE Opened
    BY <2>3 DEF Opened, Steer, Suspend
  <2> QED
    BY <1>9, <2>1, <2>2, <2>3
<1>10. CASE Steered \/ MoveRefused
  BY <1>10 DEF Steered, MoveRefused, Return, Raise, sessionVars
<1>11. ASSUME NEW t \in Streamers, StreamStep(t) PROVE SessionTypes' /\ SessionDiscipline'
  <2>1. CASE StreamSend(t) \/ StreamSent(t) \/ StreamExit(t) \/ StreamBreaks(t)
    BY <2>1 DEF StreamSend, StreamSent, StreamExit, StreamBreaks, commandVars, sessionVars
  <2>2. CASE StreamRefused(t)
    BY <2>2 DEF StreamRefused, commandVars
  <2> QED
    BY <1>11, <2>1, <2>2 DEF StreamStep
<1>12. CASE ConnectStep
  BY <1>12 DEF ConnectStep, Dial, Dialed, HeartbeatSeen, TelemetrySeen, ConnectFails,
               ConnectUnchanged, Suspend, sessionVars
<1>13. CASE Interrupt
  BY <1>13 DEF Interrupt, Raise, sessionVars
<1>14. CASE Shutdown
  <2>1. CASE Launch("land", Zero)
    BY <1>14, <2>1, LaunchEffect DEF Shutdown
  <2>2. CASE UNCHANGED <<pc, quiet, sessionVars>>
    BY <1>14, <2>2 DEF Shutdown, sessionVars
  <2> QED
    BY <1>14, <2>1, <2>2 DEF Shutdown
<1>15. CASE Close
  BY <1>15 DEF Close, sessionVars
<1>16. CASE UNCHANGED vars
  BY <1>16 DEF vars, commandVars, sessionVars
<1>17. QED
  BY <1>1, <1>2, <1>3, <1>4, <1>5, <1>6, <1>7, <1>8, <1>9, <1>10, <1>11, <1>12, <1>13,
     <1>14, <1>15, <1>16
     DEF Next, CallSome, CommandStep

LEMMA InitEstablishes ==
  ASSUME Init
  PROVE  SessionTypes /\ SessionDiscipline
<1>1. /\ pc = "idle" /\ cmd = "hold" /\ target = Zero /\ step = 1 /\ ~informed
      /\ offboard_setpoint = Zero /\ offboard_task = NoTask
      /\ ~offboard_active /\ ~quiet
      /\ offboard_active \in BOOLEAN /\ quiet \in BOOLEAN /\ informed \in BOOLEAN
  BY DEF Init
<1>2. Zero \in Velocities
  BY ControllerAssumption
<1>3. SessionTypes
  BY <1>1, <1>2 DEF SessionTypes, PcLabels, Commands
<1>4. SessionDiscipline
  BY <1>1 DEF SessionDiscipline
<1> QED
  BY <1>3, <1>4

\* The session discipline holds for every set of velocities and streaming tasks.
\* Its conjuncts are inductive only together: that hold is requested with the
\* session closed rests on what a command that is joining, stopping or zeroing may
\* have done before, and on no other coroutine opening a session.
THEOREM SessionDisciplineHolds == Spec => [](SessionTypes /\ SessionDiscipline)
<1>1. Init => SessionTypes /\ SessionDiscipline
  BY InitEstablishes
<1>2. SessionTypes /\ SessionDiscipline /\ [Next]_vars => (SessionTypes /\ SessionDiscipline)'
  BY CommandStepEffect
<1>3. QED
  BY <1>1, <1>2, PTL DEF Spec

-----------------------------------------------------------------------------

StreamTypes ==
  /\ streams \in [Streamers -> {"dead", "paused", "sending"}]
  /\ payload \in [Streamers -> Velocities]
  /\ autopilot \in Velocities
  /\ orphans \subseteq Streamers

TelemetryTypes ==
  /\ state \in [Fields -> Readings]
  /\ \A f \in Fields : state[f] \in Reports[f] \cup {"unknown"}
  /\ state["connected"] # "unknown"
  /\ watching \in BOOLEAN
  /\ phase \in {"new", "up", "down", "closing", "closed"}

\* The steps that touch no streaming task and no setpoint of the autopilot.
LEMMA StreamsUntouched ==
  ASSUME \/ \E f \in Fields : Watch(f)
         \/ CallSome \/ Check \/ WaitExpires
         \/ ActionAccepted \/ ActionRefused \/ Confirm
         \/ ZeroRefused \/ StopAccepted \/ StopRefused
         \/ Opened \/ RequestBreaks
         \/ ConnectStep \/ Shutdown \/ Close
         \/ UNCHANGED vars
  PROVE  UNCHANGED <<streams, payload, orphans, autopilot>>
BY DEF Watch, CallSome, Call, Check, WaitExpires, ActionAccepted, ActionRefused, Confirm,
       ZeroRefused, StopAccepted, StopRefused, Opened, RequestBreaks,
       ConnectStep, Dial, Dialed, HeartbeatSeen, TelemetrySeen, ConnectFails,
       ConnectUnchanged, Shutdown, Close, vars, streamVars

\* Types of the streaming tasks.
LEMMA StreamStepEffect ==
  ASSUME StreamTypes, SessionTypes, SessionDiscipline, [Next]_vars
  PROVE  StreamTypes'
<1> USE ControllerAssumption
<1> DEFINE Goal == StreamTypes'
<1>1. CASE UNCHANGED <<streams, payload, orphans, autopilot>>
  BY <1>1 DEF StreamTypes
<1>2. CASE ZeroSent \/ Primed \/ Steered
  BY <1>2 DEF ZeroSent, Primed, Steered, StreamTypes, SessionTypes, streamVars
<1>3. ASSUME NEW t \in Streamers, Cancelled(t) PROVE Goal
  BY <1>3 DEF Cancelled, StreamTypes
<1>4. CASE Joined
  BY <1>3, <1>4 DEF Joined, SessionDiscipline
<1>5. CASE Interrupt
  BY <1>1, <1>3, <1>5 DEF Interrupt, SessionDiscipline, streamVars
<1>6. CASE Started \/ MoveRefused
  BY <1>6 DEF Started, MoveRefused, Alive, StreamTypes
<1>7. ASSUME NEW t \in Streamers, StreamStep(t) PROVE Goal
  <2>1. CASE StreamSend(t)
    BY <2>1 DEF StreamSend, StreamTypes, SessionTypes, SessionDiscipline
  <2>2. CASE StreamSent(t)
    BY <2>2 DEF StreamSent, StreamTypes
  <2>3. CASE StreamExit(t)
    BY <2>3 DEF StreamExit, StreamTypes
  <2>4. CASE StreamRefused(t) \/ StreamBreaks(t)
    BY <2>4 DEF StreamRefused, StreamBreaks, Alive, StreamTypes
  <2> QED
    BY <1>7, <2>1, <2>2, <2>3, <2>4 DEF StreamStep
<1> QED
  BY <1>1, <1>2, <1>4, <1>5, <1>6, <1>7, StreamsUntouched DEF Next, CommandStep

\* The cache only ever holds what the streams report.
LEMMA TelemetryStepEffect ==
  ASSUME TelemetryTypes, [Next]_vars
  PROVE  TelemetryTypes'
<1>1. ASSUME NEW f \in Fields, Watch(f) PROVE TelemetryTypes'
  <2>1. /\ \A g \in Fields : Reports[g] \subseteq Readings
        /\ Reports["connected"] = {"yes", "no"}
    BY ControllerAssumption DEF Reports, Fields, Readings
  <2>2. PICK v \in Reports[f] : state' = [state EXCEPT ![f] = v]
    BY <1>1 DEF Watch
  <2>3. UNCHANGED <<watching, phase>>
    BY <1>1 DEF Watch, commandVars
  <2> QED
    BY <2>1, <2>2, <2>3 DEF TelemetryTypes, Fields
<1>2. ASSUME UNCHANGED state,
             watching' \in {watching, TRUE, FALSE},
             phase' \in {phase, "up", "down", "closing", "closed"}
      PROVE  TelemetryTypes'
  BY <1>2 DEF TelemetryTypes
<1>3. CASE CallSome \/ CommandStep \/ UNCHANGED vars
  BY <1>2, <1>3
     DEF CallSome, Call, CommandStep, Check, WaitExpires, ActionAccepted, ActionRefused,
         Confirm, ZeroSent, ZeroRefused, Joined, StopAccepted, StopRefused, Primed, Started,
         Opened, Steered, MoveRefused, RequestBreaks, telemetryVars, commandVars, vars
<1>4. ASSUME NEW t \in Streamers, StreamStep(t) PROVE TelemetryTypes'
  BY <1>2, <1>4
     DEF StreamStep, StreamSend, StreamSent, StreamExit, StreamRefused, StreamBreaks,
         telemetryVars, commandVars
<1>5. CASE ConnectStep \/ Interrupt \/ Shutdown \/ Close
  BY <1>2, <1>5
     DEF ConnectStep, Dial, Dialed, HeartbeatSeen, TelemetrySeen, ConnectFails, Interrupt,
         Shutdown, Close, telemetryVars
<1> QED
  BY <1>1, <1>3, <1>4, <1>5 DEF Next

-----------------------------------------------------------------------------

AllTypes == TelemetryTypes /\ SessionTypes /\ StreamTypes

\* Type correctness of the controller, for every value of the constants.
THEOREM TypeCorrect == Spec => []TypeOK
<1>1. Init => AllTypes /\ SessionDiscipline
  <2>1. Init => StreamTypes
    BY ControllerAssumption DEF Init, StreamTypes
  <2>2. Init => TelemetryTypes
    <3>1. "no" \in Reports["connected"]
      BY DEF Reports, Fields
    <3> QED
      BY <3>1 DEF Init, TelemetryTypes, Fields, Readings
  <2> QED
    BY <2>1, <2>2, InitEstablishes DEF AllTypes
<1>2. AllTypes /\ SessionDiscipline /\ [Next]_vars => (AllTypes /\ SessionDiscipline)'
  BY CommandStepEffect, StreamStepEffect, TelemetryStepEffect DEF AllTypes
<1>3. AllTypes => TypeOK
  BY DEF AllTypes, TelemetryTypes, SessionTypes, StreamTypes, TypeOK, Readings
<1>4. QED
  BY <1>1, <1>2, <1>3, PTL DEF Spec

-----------------------------------------------------------------------------

\* Steps that leave the task and the streams alone and open no session.
LEMMA SessionOnlyCloses ==
  ASSUME SessionTypes,
         \/ \E f \in Fields : Watch(f)
         \/ CallSome \/ Check \/ WaitExpires
         \/ ActionAccepted \/ ActionRefused \/ Confirm
         \/ ZeroSent \/ ZeroRefused \/ StopAccepted \/ StopRefused
         \/ Primed \/ Opened \/ Steered \/ MoveRefused \/ RequestBreaks
         \/ ConnectStep \/ Shutdown \/ Close
         \/ UNCHANGED vars
  PROVE  (offboard_active' => offboard_active) /\ UNCHANGED <<offboard_task, streams>>
<1> USE DEF SessionTypes
<1> DEFINE Goal == (offboard_active' => offboard_active) /\ UNCHANGED offboard_task
<1>1. UNCHANGED streams
  BY StreamsUntouched DEF ZeroSent, Primed, Steered, MoveRefused, streamVars
<1>2. ASSUME NEW c \in Commands, NEW v \in Velocities, Call(c, v) PROVE Goal
  BY <1>2, ProceedEffect DEF Call
<1>3. CASE Check
  BY <1>1, <1>3, ProceedEffect DEF Check
<1>4. CASE Shutdown
  <2>1. CASE Launch("land", Zero)
    BY <1>1, <1>4, <2>1, LaunchEffect, ControllerAssumption DEF Shutdown, Commands
  <2> QED
    BY <1>1, <1>4, <2>1 DEF Shutdown, sessionVars
<1>5. CASE ZeroSent
  BY <1>1, <1>5 DEF ZeroSent, StopOffboard, sessionVars
<1>6. CASE \/ WaitExpires \/ ActionAccepted \/ ActionRefused \/ Confirm
           \/ ZeroRefused \/ StopAccepted \/ StopRefused
           \/ Primed \/ Opened \/ Steered \/ MoveRefused \/ RequestBreaks
  BY <1>1, <1>6 DEF WaitExpires, ActionAccepted, ActionRefused, Confirm, ZeroRefused, StopAccepted,
              StopRefused, Primed, Opened, Steered, MoveRefused, RequestBreaks, sessionVars
<1>7. CASE (\E f \in Fields : Watch(f)) \/ ConnectStep \/ Close \/ UNCHANGED vars
  BY <1>1, <1>7 DEF Watch, ConnectStep, Dial, Dialed, HeartbeatSeen, TelemetrySeen, ConnectFails,
              ConnectUnchanged, Close, vars, sessionVars
<1> QED
  BY <1>1, <1>2, <1>3, <1>4, <1>5, <1>6, <1>7 DEF CallSome

LEMMA LiveSessionStep ==
  ASSUME ~TransportMayFail,
         LiveSession, SessionTypes, SessionDiscipline, StreamTypes, [Next]_vars
  PROVE  LiveSession'
<1>1. CASE (offboard_active' => offboard_active) /\ UNCHANGED <<offboard_task, streams>>
  BY <1>1 DEF LiveSession
<1>2. CASE Joined
  BY <1>2 DEF Joined, LiveSession, SessionDiscipline
<1>3. CASE Interrupt
  <2>1. CASE pc = "joining"
    BY <1>3, <2>1 DEF Interrupt, sessionVars, LiveSession, SessionDiscipline
  <2>2. CASE pc # "joining"
    BY <1>3, <2>2 DEF Interrupt, sessionVars, streamVars, LiveSession
  <2> QED
    BY <2>1, <2>2
<1>4. CASE Started
  BY <1>4 DEF Started, LiveSession, StreamTypes
<1>5. ASSUME NEW t \in Streamers, StreamStep(t) PROVE LiveSession'
  <2>1. CASE StreamSend(t)
    BY <2>1 DEF StreamSend, sessionVars, LiveSession, StreamTypes
  <2>2. CASE StreamSent(t)
    BY <2>2 DEF StreamSent, sessionVars, LiveSession, StreamTypes
  <2>3. CASE StreamExit(t) \/ StreamRefused(t)
    BY <2>3 DEF StreamExit, StreamRefused, sessionVars, LiveSession
  <2> QED
    BY <1>5, <2>1, <2>2, <2>3 DEF StreamStep, StreamBreaks
<1> QED
  BY <1>1, <1>2, <1>3, <1>4, <1>5, SessionOnlyCloses DEF Next, CommandStep

\* As long as MAVSDK raises no error the code does not handle, the task the
\* controller holds is alive whenever _offboard_active is set.
THEOREM LiveSessionHolds ==
  ASSUME ~TransportMayFail
  PROVE  Spec => []LiveSession
<1> DEFINE I == SessionTypes /\ SessionDiscipline /\ StreamTypes /\ LiveSession
<1>1. Init => I
  <2>1. Init => StreamTypes /\ LiveSession
    BY ControllerAssumption DEF Init, StreamTypes, LiveSession
  <2> QED
    BY <2>1, InitEstablishes
<1>2. I /\ [Next]_vars => I'
  BY CommandStepEffect, StreamStepEffect, LiveSessionStep
<1>3. QED
  BY <1>1, <1>2, PTL DEF Spec

-----------------------------------------------------------------------------
(* Stopping a session *)

\* The tasks that are alive: the session's own while it is open or being joined, and
\* the orphans; and a session is joined or opened by one command at a time.
OwnTask ==
  /\ pc \in {"priming", "starting"} => ~offboard_active
  /\ pc = "joining" => ~quiet
  /\ offboard_active \/ pc = "joining" => Alive \subseteq orphans \cup {offboard_task}
  /\ ~offboard_active /\ pc # "joining" => Alive \subseteq orphans

\* How a command that has passed its requirements may close or open a session.
LEMMA LaunchSession ==
  ASSUME offboard_active \in BOOLEAN, NEW c \in Commands, NEW v \in Velocities, Launch(c, v)
  PROVE  /\ pc' = "priming" => ~offboard_active'
         /\ pc' # "starting"
         /\ pc' = "joining" => offboard_active
         /\ offboard_active /\ ~offboard_active' => pc' = "joining" \/ offboard_task = NoTask
<1>1. CASE c = "land"
  BY <1>1 DEF Launch, StopOffboard, RequestAction, Suspend, sessionVars
<1>2. CASE c = "move_velocity"
  BY <1>2 DEF Launch, BeginMove, Steer, Suspend
<1>3. CASE c \in {"arm", "disarm", "takeoff", "hold"}
  BY <1>3 DEF Launch, RequestAction, Return, Raise, Suspend, sessionVars
<1> QED
  BY <1>1, <1>2, <1>3 DEF Commands

LEMMA ProceedSession ==
  ASSUME offboard_active \in BOOLEAN,
         NEW c \in Commands, NEW v \in Velocities, NEW k \in 1..3, Proceed(c, v, k)
  PROVE  /\ pc' = "priming" => ~offboard_active'
         /\ pc' # "starting"
         /\ pc' = "joining" => offboard_active
         /\ offboard_active /\ ~offboard_active' => pc' = "joining" \/ offboard_task = NoTask
<1>1. CASE Launch(c, v)
  BY <1>1, LaunchSession
<1>2. CASE pc' \in {"idle", "checking"} /\ UNCHANGED sessionVars
  BY <1>2 DEF sessionVars
<1> QED
  BY <1>1, <1>2 DEF Proceed, Suspend, Raise

\* A step that closes the session joins its task, if it does not end it otherwise.
LEMMA OwnTaskStep ==
  ASSUME OwnTask, SessionTypes, SessionDiscipline, StreamTypes, [Next]_vars
  PROVE  OwnTask'
<1> USE ControllerAssumption
<1> USE DEF OwnTask, Alive
<1>1. ASSUME NEW c \in Commands, NEW v \in Velocities, NEW k \in 1..3, Proceed(c, v, k),
             pc # "joining", UNCHANGED <<streams, orphans>>
      PROVE  OwnTask'
  <2>1. /\ pc' = "priming" => ~offboard_active'
        /\ pc' # "starting"
        /\ pc' = "joining" => offboard_active
        /\ offboard_active /\ ~offboard_active' => pc' = "joining" \/ offboard_task = NoTask
    BY <1>1, ProceedSession DEF SessionTypes
  <2>2. /\ offboard_task' = offboard_task
        /\ offboard_active' => offboard_active
        /\ quiet' => quiet
    BY <1>1, ProceedEffect DEF SessionTypes
  <2> QED
    BY <1>1, <2>1, <2>2 DEF SessionDiscipline
<1>2. CASE CallSome
  BY <1>1, <1>2 DEF CallSome, Call, streamVars
<1>3. CASE Check
  BY <1>1, <1>3 DEF Check, SessionTypes, callVars, streamVars
<1>4. CASE Shutdown
  <2>1. UNCHANGED <<streams, orphans>> /\ pc = "idle"
    BY <1>4 DEF Shutdown, streamVars
  <2>2. CASE Launch("land", Zero)
    <3>1. /\ pc' = "priming" => ~offboard_active'
          /\ pc' # "starting"
          /\ pc' = "joining" => offboard_active
          /\ offboard_active /\ ~offboard_active' => pc' = "joining" \/ offboard_task = NoTask
      BY <2>2, LaunchSession DEF SessionTypes, Commands
    <3>2. /\ offboard_task' = offboard_task
          /\ offboard_active' => offboard_active
          /\ quiet' => quiet
      BY <2>2, LaunchEffect DEF SessionTypes, Commands
    <3> QED
      BY <2>1, <3>1, <3>2 DEF SessionDiscipline
  <2>3. CASE UNCHANGED <<pc, quiet, sessionVars>>
    BY <2>1, <2>3 DEF sessionVars
  <2> QED
    BY <1>4, <2>2, <2>3 DEF Shutdown
<1>5. CASE ZeroSent
  <2>1. pc = "zeroing" /\ StopOffboard /\ UNCHANGED <<streams, orphans>>
    BY <1>5 DEF ZeroSent, streamVars
  <2> QED
    BY <2>1 DEF StopOffboard, RequestAction, Suspend, sessionVars, SessionDiscipline, SessionTypes
<1>6. CASE Joined \/ (Interrupt /\ pc = "joining")
  <2>1. /\ Cancelled(offboard_task) /\ offboard_task \in Streamers /\ ~offboard_active
        /\ pc = "joining" /\ pc' \in {"stopping", "idle"} /\ UNCHANGED <<offboard_active, orphans>>
    BY <1>6 DEF Joined, Interrupt, Cancelled, Suspend, Raise, sessionVars, SessionDiscipline
  <2>2. \A t \in Streamers : streams'[t] # "dead" => streams[t] # "dead" /\ t # offboard_task
    BY <2>1 DEF Cancelled, StreamTypes
  <2> QED
    BY <2>1, <2>2
<1>7. CASE Started
  <2>1. PICK t \in Streamers : /\ streams[t] = "dead"
                               /\ offboard_task' = t
                               /\ streams' = [streams EXCEPT ![t] = "paused"]
                               /\ orphans' = orphans \ {t}
    BY <1>7 DEF Started
  <2>2. /\ pc = "starting" /\ ~offboard_active /\ offboard_active' = TRUE
        /\ pc' \in {"steering", "opening"}
    BY <1>7 DEF Started, Steer, Suspend
  <2>3. \A u \in Streamers : streams'[u] # "dead" => u = t \/ streams[u] # "dead"
    BY <2>1 DEF StreamTypes
  <2> QED
    BY <2>1, <2>2, <2>3
<1>8. CASE MoveRefused
  BY <1>8 DEF MoveRefused, Raise
<1>9. ASSUME NEW t \in Streamers, StreamStep(t) PROVE OwnTask'
  <2>1. CASE StreamSend(t) \/ StreamSent(t) \/ StreamExit(t) \/ StreamBreaks(t)
    <3>1. UNCHANGED <<pc, quiet, offboard_active, offboard_task, orphans>>
      BY <2>1 DEF StreamSend, StreamSent, StreamExit, StreamBreaks, commandVars, sessionVars
    <3>2. \A u \in Streamers : streams'[u] # "dead" => streams[u] # "dead"
      BY <2>1 DEF StreamSend, StreamSent, StreamExit, StreamBreaks, StreamTypes
    <3> QED
      BY <3>1, <3>2
  <2>2. CASE StreamRefused(t)
    <3>1. /\ UNCHANGED <<pc, quiet, offboard_task>> /\ offboard_active' = FALSE
          /\ orphans' = orphans \cup ({u \in Streamers : streams[u] # "dead"} \ {t})
      BY <2>2 DEF StreamRefused, commandVars
    <3>2. \A u \in Streamers : streams'[u] # "dead" => streams[u] # "dead" /\ u # t
      BY <2>2 DEF StreamRefused, StreamTypes
    <3> QED
      BY <3>1, <3>2
  <2> QED
    BY <1>9, <2>1, <2>2 DEF StreamStep
<1>10. CASE \/ WaitExpires \/ ActionAccepted \/ ActionRefused \/ Confirm
            \/ ZeroRefused \/ StopAccepted \/ StopRefused
            \/ Primed \/ Opened \/ Steered \/ RequestBreaks
            \/ (Interrupt /\ pc # "joining")
  <2>1. UNCHANGED <<offboard_active, offboard_task, streams, orphans>>
    BY <1>10 DEF WaitExpires, ActionAccepted, ActionRefused, Confirm, ZeroRefused, StopAccepted,
                 StopRefused, Primed, Opened, Steered, RequestBreaks, Interrupt,
                 sessionVars, streamVars
  <2>2. /\ pc # "joining" /\ pc' \notin {"joining", "priming"}
        /\ pc' = "starting" => pc = "priming"
    BY <1>10 DEF WaitExpires, ActionAccepted, ActionRefused, Confirm, ZeroRefused, StopAccepted,
                 StopRefused, Primed, Opened, Steered, RequestBreaks, Interrupt,
                 Raise, Return, Suspend, Steer, RequestAction
  <2> QED
    BY <2>1, <2>2
<1>11. CASE ConnectStep
  <2>1. UNCHANGED <<offboard_active, offboard_task, streams, orphans, quiet>>
    BY <1>11 DEF ConnectStep, Dial, Dialed, HeartbeatSeen, TelemetrySeen, ConnectFails,
                 ConnectUnchanged, sessionVars, streamVars
  <2>2. pc # "joining" /\ pc' \in {"idle", "dialing", "heartbeat", "telemetry"}
    BY <1>11 DEF ConnectStep, Dial, Dialed, HeartbeatSeen, TelemetrySeen, ConnectFails, Suspend
  <2> QED
    BY <2>1, <2>2
<1>12. CASE (\E f \in Fields : Watch(f)) \/ Close \/ UNCHANGED vars
  BY <1>12 DEF Watch, Close, vars, commandVars, sessionVars, streamVars
<1> QED
  BY <1>2, <1>3, <1>4, <1>5, <1>6, <1>7, <1>8, <1>9, <1>10, <1>11, <1>12 DEF Next, CommandStep

\* OFFBOARD is stopped, and hold or land asked for, only when the session's own task has
\* ended; whatever still streams is the remnant of a session an OffboardError ended.
THEOREM JoinedBeforeStopHolds == Spec => []JoinedBeforeStop
<1> DEFINE I == SessionTypes /\ SessionDiscipline /\ StreamTypes /\ OwnTask
<1>1. Init => I
  <2>1. Init => StreamTypes /\ OwnTask
    BY ControllerAssumption DEF Init, StreamTypes, OwnTask, Alive
  <2> QED
    BY <2>1, InitEstablishes
<1>2. I /\ [Next]_vars => I'
  BY CommandStepEffect, StreamStepEffect, OwnTaskStep
<1>3. I => JoinedBeforeStop
  BY DEF OwnTask, SessionDiscipline, JoinedBeforeStop
<1>4. QED
  BY <1>1, <1>2, <1>3, PTL DEF Spec

-----------------------------------------------------------------------------
(* What is required when a request goes out *)

\* What connect has waited for stays known, so a command whose call found in_air and
\* the battery known never waits; and a command waits for one of its own requirements.
Waiting ==
  /\ phase = "up" => Known("armed") /\ Known("health")
  /\ pc = "checking" => ~informed /\ step \in 1..Len(Requirements(cmd))

Requesting == {"requesting", "zeroing", "joining", "stopping", "priming", "steering"}

\* Where a command goes from its requirements, and what its own last test shows.
LEMMA LaunchGuards ==
  ASSUME NEW c \in Commands, NEW v \in Velocities, Launch(c, v)
  PROVE  /\ pc' \in Requesting \cup {"idle"}
         /\ pc' \in Requesting /\ c = "arm" => HealthOK
         /\ pc' \in Requesting /\ c = "takeoff" => ~Is("in_air", "yes")
<1> USE DEF Requesting
<1>1. CASE c = "land"
  BY <1>1 DEF Launch, StopOffboard, RequestAction, Suspend
<1>2. CASE c = "move_velocity"
  BY <1>2 DEF Launch, BeginMove, Steer, Suspend
<1>3. CASE c \in {"arm", "disarm", "takeoff", "hold"}
  BY <1>3 DEF Launch, RequestAction, Return, Raise, Suspend
<1> QED
  BY <1>1, <1>2, <1>3 DEF Commands

\* A command goes out only when every requirement from its k-th on holds now, all of
\* them when k is 1; and it waits only for a field that is unknown.
LEMMA ProceedGuards ==
  ASSUME NEW c \in Commands, NEW v \in Velocities, NEW k \in 1..3,
         k = 1 \/ k <= Len(Requirements(c)), Proceed(c, v, k)
  PROVE  /\ pc' \in Requesting \cup {"idle", "checking"}
         /\ pc' = "checking" => /\ step' \in 1..Len(Requirements(c))
                                /\ \E f \in {"health", "armed", "battery", "in_air"} : ~Known(f)
         /\ pc' \in Requesting =>
              /\ c = "arm" => HealthOK
              /\ c = "takeoff" => ~Is("in_air", "yes")
              /\ c = "disarm" => Is("in_air", "no")
              /\ c \in {"hold", "move_velocity"} => Is("in_air", "yes")
              /\ k = 1 /\ c \in {"takeoff", "hold", "move_velocity"} => Is("armed", "yes")
<1> DEFINE R == Requirements(c)
           Obstacles == {i \in k..Len(R) : state[R[i][1]] \notin R[i][2]}
<1>1. CASE Obstacles = {} /\ Launch(c, v)
  <2>0. pc' # "checking"
    BY <1>1, LaunchGuards DEF Requesting
  <2>1. CASE c = "disarm"
    <3>1. Len(R) = 1 /\ R[1][1] = "in_air" /\ R[1][2] = {"no"} /\ k = 1
      BY <2>1 DEF Requirements
    <3>2. state["in_air"] = "no"
      BY <1>1, <3>1
    <3> QED
      BY <1>1, <2>0, <2>1, <3>2, LaunchGuards DEF Is
  <2>2. CASE c \in {"hold", "move_velocity"}
    <3>1. /\ Len(R) = 2 /\ R[2][1] = "in_air" /\ R[2][2] = {"yes"} /\ k <= 2
          /\ R[1][1] = "armed" /\ R[1][2] = {"yes"}
      BY <2>2 DEF Requirements
    <3>2. state["in_air"] = "yes"
      BY <1>1, <3>1
    <3>3. k = 1 => state["armed"] = "yes"
      BY <1>1, <3>1
    <3> QED
      BY <1>1, <2>0, <2>2, <3>2, <3>3, LaunchGuards DEF Is
  <2>3. CASE c = "takeoff"
    <3>1. Len(R) = 1 /\ R[1][1] = "armed" /\ R[1][2] = {"yes"}
      BY <2>3 DEF Requirements
    <3>2. k = 1 => state["armed"] = "yes"
      BY <1>1, <3>1
    <3> QED
      BY <1>1, <2>0, <2>3, <3>2, LaunchGuards DEF Is
  <2>4. CASE c \in {"arm", "land"}
    BY <1>1, <2>0, <2>4, LaunchGuards
  <2> QED
    BY <2>1, <2>2, <2>3, <2>4 DEF Commands
<1>2. CASE \E i \in Obstacles : ~Known(R[i][1]) /\ Suspend("checking") /\ step' = i
  <2>1. Obstacles \subseteq 1..Len(R)
    BY RequirementsLength
  <2>2. \A i \in 1..Len(R) : R[i][1] \in {"health", "armed", "battery", "in_air"}
    BY DEF Requirements, Commands
  <2> HIDE DEF Obstacles
  <2> QED
    BY <1>2, <2>1, <2>2 DEF Suspend, Requesting
<1>3. CASE Raise
  BY <1>3 DEF Raise, Requesting
<1>4. QED
  BY <1>1, <1>2, <1>3 DEF Proceed

\* A reading is never lost.
LEMMA KnownStays ==
  ASSUME TelemetryTypes, [Next]_vars
  PROVE  \A f \in Fields : Known(f) => Known(f)'
<1>1. ASSUME NEW g \in Fields, Watch(g) PROVE \A f \in Fields : Known(f) => Known(f)'
  <2>1. "unknown" \notin Reports[g]
    BY ControllerAssumption DEF Reports, Fields
  <2> QED
    BY <1>1, <2>1 DEF Watch, Known, TelemetryTypes
<1>2. CASE CallSome \/ CommandStep \/ UNCHANGED vars
  BY <1>2
     DEF CallSome, Call, CommandStep, Check, WaitExpires, ActionAccepted, ActionRefused,
         Confirm, ZeroSent, ZeroRefused, Joined, StopAccepted, StopRefused, Primed, Started,
         Opened, Steered, MoveRefused, RequestBreaks, telemetryVars, vars, Known
<1>3. ASSUME NEW t \in Streamers, StreamStep(t) PROVE \A f \in Fields : Known(f) => Known(f)'
  BY <1>3
     DEF StreamStep, StreamSend, StreamSent, StreamExit, StreamRefused, StreamBreaks,
         telemetryVars, Known
<1>4. CASE ConnectStep \/ Interrupt \/ Shutdown \/ Close
  BY <1>4
     DEF ConnectStep, Dial, Dialed, HeartbeatSeen, TelemetrySeen, ConnectFails, Interrupt,
         Shutdown, Close, telemetryVars, Known
<1> QED
  BY <1>1, <1>2, <1>3, <1>4 DEF Next

\* The property of one step.
Guarded ==
  GoesOut => /\ informed' => Demanded(cmd')
             /\ cmd' = "arm" => HealthOK
             /\ cmd' = "disarm" => Is("in_air", "no")
             /\ cmd' \in {"hold", "move_velocity"} => Is("in_air", "yes")

\* The steps in which no command starts or resumes its tests.
LEMMA OtherStepsSilent ==
  ASSUME \/ \E f \in Fields : Watch(f)
         \/ WaitExpires \/ ActionAccepted \/ ActionRefused \/ Confirm
         \/ ZeroSent \/ ZeroRefused \/ Joined \/ StopAccepted \/ StopRefused
         \/ Primed \/ Started \/ Opened \/ Steered \/ MoveRefused \/ RequestBreaks
         \/ \E t \in Streamers : StreamStep(t)
         \/ ConnectStep \/ Interrupt \/ Close
         \/ UNCHANGED vars
  PROVE  /\ ~GoesOut
         /\ pc' = "checking" => pc = "checking" /\ UNCHANGED <<callVars, step>>
         /\ phase' = "up" => \/ phase = "up"
                             \/ Known("armed") /\ Known("health")
<1> USE DEF GoesOut, Suspend, Raise, Return
<1>1. CASE (\E f \in Fields : Watch(f)) \/ (\E t \in Streamers : StreamStep(t)) \/ UNCHANGED vars
  <2>1. UNCHANGED <<phase, pc, callVars, step>>
    BY <1>1 DEF Watch, StreamStep, StreamSend, StreamSent, StreamExit, StreamRefused, StreamBreaks,
                commandVars, vars
  <2> QED
    BY <2>1
<1>2. CASE Close \/ Interrupt
  BY <1>2 DEF Close, Interrupt
<1>3. CASE ConnectStep
  <2>1. pc' \in {"dialing", "heartbeat", "telemetry", "idle"}
    BY <1>3 DEF ConnectStep, Dial, Dialed, HeartbeatSeen, TelemetrySeen, ConnectFails
  <2>2. phase' = "up" => phase = "up" \/ (Known("armed") /\ Known("health"))
    BY <1>3 DEF ConnectStep, Dial, Dialed, HeartbeatSeen, TelemetrySeen, ConnectFails
  <2> QED
    BY <2>1, <2>2
<1>4. CASE WaitExpires
  BY <1>4 DEF WaitExpires
<1>5. CASE \/ ActionAccepted \/ ActionRefused \/ Confirm
           \/ ZeroSent \/ ZeroRefused \/ Joined \/ StopAccepted \/ StopRefused
           \/ Primed \/ Started \/ Opened \/ Steered \/ MoveRefused \/ RequestBreaks
  <2>1. pc \notin {"idle", "checking"} /\ UNCHANGED phase
    BY <1>5 DEF ActionAccepted, ActionRefused, Confirm, ZeroSent, ZeroRefused, Joined, StopAccepted,
                StopRefused, Primed, Started, Opened, Steered, MoveRefused, RequestBreaks
  <2>2. pc' # "checking"
    BY <1>5 DEF ActionAccepted, ActionRefused, Confirm, ZeroSent, ZeroRefused, Joined, StopAccepted,
                StopRefused, Primed, Started, Opened, Steered, MoveRefused, RequestBreaks,
                StopOffboard, RequestAction, Steer
  <2> QED
    BY <2>1, <2>2
<1> QED
  BY <1>1, <1>2, <1>3, <1>4, <1>5

\* A step keeps what is said of waiting commands, and what it sends is guarded.
LEMMA GuardStep ==
  ASSUME TelemetryTypes, SessionTypes, Waiting, [Next]_vars
  PROVE  Waiting' /\ Guarded
<1> USE DEF Waiting, Guarded
<1>0. Known("armed") /\ Known("health") => (Known("armed") /\ Known("health"))'
  BY KnownStays DEF Fields
<1>1. ASSUME ~GoesOut,
             pc' = "checking" => pc = "checking" /\ UNCHANGED <<callVars, step>>,
             phase' = "up" => \/ phase = "up"
                              \/ Known("armed") /\ Known("health")
      PROVE  Waiting' /\ Guarded
  <2>1. pc' = "checking" => ~informed' /\ step' \in 1..Len(Requirements(cmd)')
    BY <1>1 DEF callVars, Requirements
  <2>2. phase' = "up" => (Known("armed") /\ Known("health"))'
    BY <1>0, <1>1
  <2> QED
    BY <1>1, <2>1, <2>2
<1>2. ASSUME NEW c \in Commands, NEW v \in Velocities, Call(c, v) PROVE Waiting' /\ Guarded
  <2>1. /\ phase = "up" /\ UNCHANGED phase /\ Eligible(c) /\ Proceed(c, v, 1) /\ cmd' = c
        /\ informed' = (Known("in_air") /\ Known("battery"))
    BY <1>2 DEF Call
  <2>2. /\ pc' = "checking" => /\ step' \in 1..Len(Requirements(c))
                               /\ \E f \in {"health", "armed", "battery", "in_air"} : ~Known(f)
        /\ pc' \in Requesting =>
             /\ c = "arm" => HealthOK
             /\ c = "takeoff" => ~Is("in_air", "yes")
             /\ c = "disarm" => Is("in_air", "no")
             /\ c \in {"hold", "move_velocity"} => Is("in_air", "yes")
             /\ c \in {"takeoff", "hold", "move_velocity"} => Is("armed", "yes")
    BY <2>1, ProceedGuards
  <2>3. Requirements(cmd)' = Requirements(c)
    BY <2>1 DEF Requirements
  <2>4. Waiting'
    BY <1>0, <2>1, <2>2, <2>3
  <2>5. pc' \in Requesting => Demanded(c)
    BY <2>1, <2>2 DEF Demanded, Eligible, HealthOK
  <2> QED
    BY <2>1, <2>2, <2>4, <2>5 DEF GoesOut, Requesting
<1>3. CASE Check
  <2>1. /\ Proceed(cmd, target, step) /\ UNCHANGED <<cmd, informed, phase>>
        /\ step <= Len(Requirements(cmd)) /\ ~informed
    BY <1>3, RequirementsLength DEF Check, callVars, SessionTypes
  <2>2. /\ pc' = "checking" => step' \in 1..Len(Requirements(cmd))
        /\ pc' \in Requesting =>
             /\ cmd = "arm" => HealthOK
             /\ cmd = "disarm" => Is("in_air", "no")
             /\ cmd \in {"hold", "move_velocity"} => Is("in_air", "yes")
    BY <2>1, ProceedGuards DEF SessionTypes
  <2>3. Requirements(cmd)' = Requirements(cmd)
    BY <2>1 DEF Requirements
  <2> QED
    BY <1>0, <2>1, <2>2, <2>3 DEF GoesOut, Requesting
<1>4. CASE Shutdown
  <2>1. cmd' = "land" /\ phase' # "up"
    BY <1>4 DEF Shutdown
  <2>2. CASE Eligible("land") /\ Launch("land", Zero)
    <3>1. Demanded("land")
      BY <2>2 DEF Demanded, Eligible
    <3>2. pc' # "checking"
      BY <2>2, LaunchGuards, ControllerAssumption DEF Commands, Requesting
    <3> QED
      BY <2>1, <3>1, <3>2
  <2>3. CASE UNCHANGED pc
    BY <1>4, <2>1, <2>3 DEF Shutdown, GoesOut
  <2> QED
    BY <1>4, <2>2, <2>3 DEF Shutdown
<1> QED
  BY <1>1, <1>2, <1>3, <1>4, OtherStepsSilent DEF Next, CallSome, CommandStep

\* A command called when in_air and the battery are known sends its first request under
\* everything it demands of the telemetry, for every set of velocities and tasks; one
\* called before sends it under what it tests after its wait.
THEOREM RequestsAreGuardedHolds == Spec => RequestsAreGuarded
<1> DEFINE I == TelemetryTypes /\ SessionTypes /\ SessionDiscipline /\ Waiting
<1>1. Init => I
  <2>1. Init => Waiting
    BY DEF Init, Waiting
  <2>2. Init => TelemetryTypes
    <3>1. "no" \in Reports["connected"]
      BY DEF Reports, Fields
    <3> QED
      BY <3>1 DEF Init, TelemetryTypes, Fields, Readings
  <2> QED
    BY <2>1, <2>2, InitEstablishes
<1>2. I /\ [Next]_vars => I'
  BY CommandStepEffect, TelemetryStepEffect, GuardStep
<1>3. I /\ [Next]_vars
        => [GoesOut => /\ informed' => Demanded(cmd')
                       /\ cmd' = "arm" => HealthOK
                       /\ cmd' = "disarm" => Is("in_air", "no")
                       /\ cmd' \in {"hold", "move_velocity"} => Is("in_air", "yes")]_vars
  BY GuardStep DEF Guarded
<1>4. QED
  BY <1>1, <1>2, <1>3, PTL DEF Spec, RequestsAreGuarded
=============================================================================
