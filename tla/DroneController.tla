--------------------------- MODULE DroneController ---------------------------
(***************************************************************************)
(* The MAVSDK command surface of src/action/drone_controller.py.           *)
(*                                                                         *)
(* One asyncio event loop runs three kinds of coroutine: the telemetry     *)
(* watchers, which overwrite one field of the cached DroneState each; the  *)
(* command in progress (its callers issue one at a time); and the tasks    *)
(* that stream the OFFBOARD setpoint.  A step of this model is what a      *)
(* coroutine does between two awaits that really suspend it, so a test and *)
(* the request behind it are one step when the code does not yield between *)
(* them, and two when it does.  The answer of the autopilot to a request   *)
(* is nondeterministic: success, the MAVSDK error the code handles, or     *)
(* (TransportMayFail) an exception it does not.                            *)
(***************************************************************************)
EXTENDS Naturals, Sequences

CONSTANTS
  Velocities,       \* the velocity setpoints a caller may ask for
  Zero,             \* the setpoint that keeps the vehicle still
  Streamers,        \* identities of streaming tasks; bounds how many are alive at once
  NoTask,           \* the value None of _offboard_task
  HealthReports,    \* what the health stream may report: "good", "bad"
  BatteryReports,   \* what the battery stream may report: "good", "low"
  TransportMayFail  \* whether a request may fail with neither ActionError nor OffboardError

ASSUME ControllerAssumption ==
  /\ Zero \in Velocities
  /\ NoTask \notin Streamers
  /\ HealthReports \subseteq {"good", "bad"}
  /\ BatteryReports \subseteq {"good", "low"}
  /\ TransportMayFail \in BOOLEAN

VARIABLES
  state,              \* the cached DroneState, one reading per field
  watching,           \* the watcher tasks are running
  phase,              \* life of the controller: "new", "up", "down", "closing", "closed"
  pc,                 \* where the command in progress is suspended, or "idle"
  cmd,                \* the command in progress (the last one when idle)
  target,             \* the velocity argument of move_velocity
  informed,           \* history: in_air and the battery had been reported when it was called
  step,               \* the requirement a command that is "checking" waits to know
  offboard_active,    \* _offboard_active
  offboard_setpoint,  \* _offboard_setpoint
  offboard_task,      \* _offboard_task
  streams,            \* each streaming task: "dead", "paused" before its loop test, or "sending"
  payload,            \* the setpoint in the request of a task that is "sending"
  autopilot,          \* the last setpoint that reached the autopilot
  quiet,              \* history: hold or land has succeeded since the last move began
  orphans             \* history: tasks whose session an OffboardError ended elsewhere

telemetryVars == <<state, watching>>
sessionVars == <<offboard_active, offboard_setpoint, offboard_task>>
streamVars == <<streams, payload, orphans>>
callVars == <<cmd, target, informed>>
commandVars == <<phase, pc, callVars, step>>
vars == <<telemetryVars, commandVars, sessionVars, streamVars, autopilot, quiet>>

Commands == {"arm", "disarm", "takeoff", "land", "hold", "move_velocity"}

Fields == {"connected", "armed", "in_air", "health", "battery", "flight_mode"}
Reports == [f \in Fields |->
              CASE f = "health"      -> HealthReports
                [] f = "battery"     -> BatteryReports
                [] f = "flight_mode" -> {"OFFBOARD", "other"}
                [] OTHER             -> {"yes", "no"}]

Init ==
  /\ state = [f \in Fields |-> IF f = "connected" THEN "no" ELSE "unknown"]
  /\ watching = FALSE
  /\ phase = "new"
  /\ pc = "idle"
  /\ cmd = "hold"
  /\ target = Zero
  /\ step = 1
  /\ offboard_active = FALSE
  /\ offboard_setpoint = Zero
  /\ offboard_task = NoTask
  /\ streams = [t \in Streamers |-> "dead"]
  /\ payload = [t \in Streamers |-> Zero]
  /\ autopilot = Zero
  /\ quiet = FALSE
  /\ informed = FALSE
  /\ orphans = {}

-----------------------------------------------------------------------------
(* The telemetry watchers *)

Watch(f) ==
  /\ watching
  /\ \E v \in Reports[f] : state' = [state EXCEPT ![f] = v]
  /\ UNCHANGED <<watching, commandVars, sessionVars, streamVars, autopilot, quiet>>

-----------------------------------------------------------------------------
(* How a command ends, and how it suspends itself *)

Suspend(label) == pc' = label

\* The coroutine returns: the caller sees success (or a skip).
Return(c) ==
  /\ pc' = "idle"
  /\ quiet' = (quiet \/ c \in {"hold", "land"})

\* The coroutine raises.
Raise ==
  /\ pc' = "idle"
  /\ UNCHANGED quiet

\* await self.drone.action.<cmd>(): the request is out.
RequestAction ==
  /\ Suspend("requesting")
  /\ UNCHANGED quiet

-----------------------------------------------------------------------------
(* Stopping and starting an OFFBOARD session *)

\* Mutant: the task is cancelled and _offboard_active stays set.
StopOffboardKeepsFlag ==
  \/ /\ offboard_active
     /\ Suspend(IF offboard_task = NoTask THEN "stopping" ELSE "joining")
     /\ UNCHANGED <<sessionVars, quiet>>
  \/ /\ ~offboard_active
     /\ RequestAction
     /\ UNCHANGED sessionVars

\* Mutant: OFFBOARD is stopped without cancelling the task and waiting for it.
StopOffboardUnjoined ==
  \/ /\ offboard_active
     /\ offboard_active' = FALSE
     /\ Suspend("stopping")
     /\ UNCHANGED <<offboard_setpoint, offboard_task, quiet>>
  \/ /\ ~offboard_active
     /\ RequestAction
     /\ UNCHANGED sessionVars

\* _stop_offboard up to its first await, with what follows when there is no session.
StopOffboard ==
  \/ /\ offboard_active
     /\ offboard_active' = FALSE
     /\ Suspend(IF offboard_task = NoTask THEN "stopping" ELSE "joining")
     /\ UNCHANGED <<offboard_setpoint, offboard_task, quiet>>
  \/ /\ ~offboard_active
     /\ RequestAction
     /\ UNCHANGED sessionVars

\* move_velocity's own send, once a session is believed to be open.
Steer(v) ==
  /\ offboard_setpoint' = v
  /\ Suspend("steering")

\* _ensure_offboard_started up to its first await, then the velocity when it returns at once.
BeginMove(v) ==
  /\ quiet' = FALSE
  /\ \/ /\ offboard_active
        /\ Steer(v)
     \/ /\ ~offboard_active
        /\ offboard_setpoint' = Zero
        /\ Suspend("priming")
  /\ UNCHANGED <<offboard_active, offboard_task>>

-----------------------------------------------------------------------------
(* The requirements of a command, in the order it awaits and tests them *)

Known(f) == state[f] # "unknown"
Is(f, v) == state[f] = v

\* Mutant: disarm tests in_air without waiting for it, and None is falsy.
RequirementsTestFirst(c) ==
  CASE c = "disarm" -> << <<"in_air", {"no", "unknown"}>> >>
    [] c = "land"   -> << >>
    [] OTHER        -> << <<"armed", {"yes"}>>, <<"in_air", {"yes"}>> >>

\* Each requirement names a field that must be known and the values it may have.
Requirements(c) ==
  CASE c = "arm"     -> << <<"health", {"good", "bad"}>>, <<"armed", {"yes", "no"}>>,
                           <<"battery", {"good", "low"}>> >>
    [] c = "disarm"  -> << <<"in_air", {"no"}>> >>
    [] c = "takeoff" -> << <<"armed", {"yes"}>> >>
    [] c = "land"    -> << >>
    [] OTHER         -> << <<"armed", {"yes"}>>, <<"in_air", {"yes"}>> >>

\* validate_health_report, on the report built from the cache at this instant.
HealthOK == Is("connected", "yes") /\ Is("health", "good") /\ Is("battery", "good")

\* The command once all it requires is known and tested.
Launch(c, v) ==
  \/ /\ c = "arm" /\ HealthOK
     /\ RequestAction /\ UNCHANGED sessionVars
  \/ /\ c = "arm" /\ ~HealthOK
     /\ Raise /\ UNCHANGED sessionVars
  \/ /\ c = "takeoff" /\ Is("in_air", "yes")
     /\ Return(c) /\ UNCHANGED sessionVars
  \/ /\ c = "disarm" \/ (c = "takeoff" /\ ~Is("in_air", "yes"))
     /\ RequestAction /\ UNCHANGED sessionVars
  \/ /\ c = "land"
     /\ StopOffboard
  \/ /\ c = "hold" /\ offboard_active
     /\ Suspend("zeroing") /\ UNCHANGED <<sessionVars, quiet>>
  \/ /\ c = "hold" /\ ~offboard_active
     /\ RequestAction /\ UNCHANGED sessionVars
  \/ /\ c = "move_velocity"
     /\ BeginMove(v)

\* Command c from its k-th requirement on, up to the first await that suspends it.
Proceed(c, v, k) ==
  LET R == Requirements(c)
      Obstacles == {i \in k..Len(R) : state[R[i][1]] \notin R[i][2]}
  IN  \/ /\ Obstacles = {}
         /\ Launch(c, v)
         /\ step' = 1
      \/ \E i \in Obstacles :
           /\ \A j \in Obstacles : i <= j
           /\ \/ ~Known(R[i][1]) /\ Suspend("checking") /\ step' = i
              \/ Known(R[i][1]) /\ Raise /\ step' = 1
           /\ UNCHANGED <<sessionVars, quiet>>

\* The tests a command makes first.  One that fails returns or raises with no effect.
Eligible(c) ==
  /\ Is("connected", "yes")
  /\ c = "arm" => ~Is("armed", "yes")
  /\ c = "disarm" => Is("armed", "yes")
  /\ c = "land" => Is("armed", "yes") \/ Is("in_air", "yes")

Call(c, v) ==
  /\ phase = "up" /\ pc = "idle"
  /\ Eligible(c)
  /\ cmd' = c
  /\ target' = v
  /\ informed' = (Known("in_air") /\ Known("battery"))
  /\ Proceed(c, v, 1)
  /\ UNCHANGED <<telemetryVars, phase, streamVars, autopilot>>

\* _wait_until finds the field known at one of its polls.
Check ==
  /\ pc = "checking"
  /\ Known(Requirements(cmd)[step][1])
  /\ Proceed(cmd, target, step)
  /\ UNCHANGED <<telemetryVars, phase, callVars, streamVars, autopilot>>

-----------------------------------------------------------------------------
(* The action request and its confirmation by telemetry *)

Confirmed ==
  CASE cmd = "arm"     -> Is("armed", "yes")
    [] cmd = "disarm"  -> Is("armed", "no")
    [] cmd = "takeoff" -> Is("in_air", "yes")
    [] cmd = "land"    -> Is("in_air", "no")
    [] OTHER           -> TRUE

ActionAccepted ==
  /\ pc = "requesting"
  /\ \/ Confirmed /\ Return(cmd)
     \/ ~Confirmed /\ Suspend("confirming") /\ UNCHANGED quiet
  /\ UNCHANGED <<telemetryVars, phase, callVars, step, sessionVars, streamVars, autopilot>>

ActionRefused ==
  /\ pc = "requesting"
  /\ Raise
  /\ UNCHANGED <<telemetryVars, phase, callVars, step, sessionVars, streamVars, autopilot>>

Confirm ==
  /\ pc = "confirming" /\ Confirmed
  /\ Return(cmd)
  /\ UNCHANGED <<telemetryVars, phase, callVars, step, sessionVars, streamVars, autopilot>>

\* Mutant: _wait_until polls without a deadline.
WaitForever == pc = "expired" /\ UNCHANGED vars

\* A deadline of _wait_until passes.  The last sleep may end after the deadline
\* although the predicate has become true, so nothing is required of the cache.
WaitExpires ==
  /\ pc \in {"checking", "confirming", "opening"}
  /\ Raise
  /\ step' = 1
  /\ UNCHANGED <<telemetryVars, phase, callVars, sessionVars, streamVars, autopilot>>

-----------------------------------------------------------------------------
(* hold and land leave OFFBOARD *)

ZeroSent ==
  /\ pc = "zeroing"
  /\ autopilot' = Zero
  /\ StopOffboard
  /\ UNCHANGED <<telemetryVars, phase, callVars, step, streamVars>>

\* hold has no handler for this OffboardError.
ZeroRefused ==
  /\ pc = "zeroing"
  /\ Raise
  /\ UNCHANGED <<telemetryVars, phase, callVars, step, sessionVars, streamVars, autopilot>>

\* A cancelled task ends at its await; its request may or may not get through.
Cancelled(t) ==
  /\ streams' = [streams EXCEPT ![t] = "dead"]
  /\ payload' = [payload EXCEPT ![t] = Zero]
  /\ autopilot' \in IF streams[t] = "sending" THEN {autopilot, payload[t]} ELSE {autopilot}
  /\ UNCHANGED orphans

Joined ==
  /\ pc = "joining"
  /\ Cancelled(offboard_task)
  /\ offboard_task' = NoTask
  /\ Suspend("stopping")
  /\ UNCHANGED <<telemetryVars, phase, callVars, step, offboard_active, offboard_setpoint, quiet>>

StopAccepted ==
  /\ pc = "stopping"
  /\ RequestAction
  /\ UNCHANGED <<telemetryVars, phase, callVars, step, sessionVars, streamVars, autopilot>>

StopRefused ==
  /\ pc = "stopping"
  /\ Raise
  /\ UNCHANGED <<telemetryVars, phase, callVars, step, sessionVars, streamVars, autopilot>>

-----------------------------------------------------------------------------
(* move_velocity opens a session when it believes there is none *)

Primed ==
  /\ pc = "priming"
  /\ autopilot' = Zero
  /\ Suspend("starting")
  /\ UNCHANGED <<telemetryVars, phase, callVars, step, sessionVars, streamVars, quiet>>

Started ==
  /\ pc = "starting"
  /\ offboard_active' = TRUE
  /\ \E t \in Streamers :
       /\ streams[t] = "dead"
       /\ offboard_task' = t
       /\ streams' = [streams EXCEPT ![t] = "paused"]
       /\ orphans' = orphans \ {t}
  /\ \/ Is("flight_mode", "OFFBOARD") /\ Steer(target)
     \/ ~Is("flight_mode", "OFFBOARD") /\ Suspend("opening") /\ UNCHANGED offboard_setpoint
  /\ UNCHANGED <<telemetryVars, phase, callVars, step, payload, autopilot, quiet>>

Opened ==
  /\ pc = "opening" /\ Is("flight_mode", "OFFBOARD")
  /\ Steer(target)
  /\ UNCHANGED <<telemetryVars, phase, callVars, step, offboard_active, offboard_task,
                 streamVars, autopilot, quiet>>

Steered ==
  /\ pc = "steering"
  /\ autopilot' = target
  /\ Return(cmd)
  /\ UNCHANGED <<telemetryVars, phase, callVars, step, sessionVars, streamVars>>

Alive == {t \in Streamers : streams[t] # "dead"}

\* OffboardError inside move_velocity: the flag is cleared, the task is left alone.
MoveRefused ==
  /\ pc \in {"priming", "starting", "steering"}
  /\ offboard_active' = FALSE
  /\ Raise
  /\ orphans' = orphans \cup Alive
  /\ UNCHANGED <<telemetryVars, phase, callVars, step, offboard_setpoint, offboard_task,
                 streams, payload, autopilot>>

\* An exception the controller does not handle ends a request of the command.
RequestBreaks ==
  /\ TransportMayFail
  /\ pc \in {"requesting", "zeroing", "stopping", "priming", "starting", "steering"}
  /\ Raise
  /\ UNCHANGED <<telemetryVars, phase, callVars, step, sessionVars, streamVars, autopilot>>

-----------------------------------------------------------------------------
(* _stream_offboard_setpoints *)

\* Mutant: the task streams the setpoint it was created with.
StreamSendFirst(t) ==
  /\ streams[t] = "paused" /\ offboard_active
  /\ streams' = [streams EXCEPT ![t] = "sending"]
  /\ payload' = [payload EXCEPT ![t] = Zero]
  /\ UNCHANGED <<telemetryVars, commandVars, sessionVars, autopilot, quiet, orphans>>

StreamSend(t) ==
  /\ streams[t] = "paused" /\ offboard_active
  /\ streams' = [streams EXCEPT ![t] = "sending"]
  /\ payload' = [payload EXCEPT ![t] = offboard_setpoint]
  /\ UNCHANGED <<telemetryVars, commandVars, sessionVars, autopilot, quiet, orphans>>

StreamSent(t) ==
  /\ streams[t] = "sending"
  /\ streams' = [streams EXCEPT ![t] = "paused"]
  /\ payload' = [payload EXCEPT ![t] = Zero]
  /\ autopilot' = payload[t]
  /\ UNCHANGED <<telemetryVars, commandVars, sessionVars, quiet, orphans>>

\* Mutant: only the task the controller still holds leaves its loop.
StreamExitCurrent(t) ==
  /\ streams[t] = "paused" /\ ~offboard_active /\ t = offboard_task
  /\ streams' = [streams EXCEPT ![t] = "dead"]
  /\ UNCHANGED <<telemetryVars, commandVars, sessionVars, payload, autopilot, quiet, orphans>>

StreamExit(t) ==
  /\ streams[t] = "paused" /\ ~offboard_active
  /\ streams' = [streams EXCEPT ![t] = "dead"]
  /\ UNCHANGED <<telemetryVars, commandVars, sessionVars, payload, autopilot, quiet, orphans>>

\* Mutant: the failing task does not clear _offboard_active.
StreamRefusedSilently(t) ==
  /\ streams[t] = "sending"
  /\ streams' = [streams EXCEPT ![t] = "dead"]
  /\ payload' = [payload EXCEPT ![t] = Zero]
  /\ UNCHANGED <<telemetryVars, commandVars, sessionVars, autopilot, quiet, orphans>>

StreamRefused(t) ==
  /\ streams[t] = "sending"
  /\ streams' = [streams EXCEPT ![t] = "dead"]
  /\ payload' = [payload EXCEPT ![t] = Zero]
  /\ offboard_active' = FALSE
  /\ orphans' = orphans \cup (Alive \ {t})
  /\ UNCHANGED <<telemetryVars, commandVars, offboard_setpoint, offboard_task, autopilot, quiet>>

\* Any other exception ends the task with _offboard_active still set.
StreamBreaks(t) ==
  /\ TransportMayFail
  /\ streams[t] = "sending"
  /\ streams' = [streams EXCEPT ![t] = "dead"]
  /\ payload' = [payload EXCEPT ![t] = Zero]
  /\ UNCHANGED <<telemetryVars, commandVars, sessionVars, autopilot, quiet, orphans>>

-----------------------------------------------------------------------------
(* connect, interruption, shutdown and close *)

ConnectUnchanged == UNCHANGED <<callVars, step, sessionVars, streamVars, autopilot, quiet>>

Dial ==
  /\ phase = "new" /\ pc = "idle"
  /\ Suspend("dialing")
  /\ UNCHANGED <<telemetryVars, phase>> /\ ConnectUnchanged

\* drone.connect returned: the watchers start, and the heartbeat is awaited.
Dialed ==
  /\ pc = "dialing"
  /\ watching' = TRUE
  /\ Suspend("heartbeat")
  /\ UNCHANGED <<state, phase>> /\ ConnectUnchanged

\* Mutant: connect returns at the first heartbeat, with telemetry still to come.
HeartbeatEnough ==
  /\ pc = "heartbeat" /\ Is("connected", "yes")
  /\ phase' = "up" /\ Suspend("idle")
  /\ UNCHANGED telemetryVars /\ ConnectUnchanged

HeartbeatSeen ==
  /\ pc = "heartbeat" /\ Is("connected", "yes")
  /\ IF Known("armed") /\ Known("health")
     THEN phase' = "up" /\ Suspend("idle")
     ELSE Suspend("telemetry") /\ UNCHANGED phase
  /\ UNCHANGED telemetryVars /\ ConnectUnchanged

TelemetrySeen ==
  /\ pc = "telemetry" /\ Known("armed") /\ Known("health")
  /\ phase' = "up"
  /\ Suspend("idle")
  /\ UNCHANGED telemetryVars /\ ConnectUnchanged

ConnectFails ==
  /\ pc \in {"heartbeat", "telemetry"}
  /\ phase' = "down"
  /\ Suspend("idle")
  /\ UNCHANGED telemetryVars /\ ConnectUnchanged

\* The caller is cancelled (Ctrl-C) at the await it is suspended in; its owner
\* goes to shutdown.  A task that was being joined has its cancellation already.
Interrupt ==
  /\ phase \in {"new", "up"}
  /\ phase = "new" => pc # "idle"
  /\ phase' = "down"
  /\ Raise
  /\ step' = 1
  /\ IF pc = "joining" THEN Cancelled(offboard_task) ELSE UNCHANGED <<streamVars, autopilot>>
  /\ UNCHANGED <<telemetryVars, callVars, sessionVars>>

\* AgentLoop.shutdown: land when the cache says it is needed, once.
Shutdown ==
  /\ phase = "down" /\ pc = "idle"
  /\ phase' = "closing"
  /\ cmd' = "land"
  /\ step' = 1
  /\ IF Eligible("land")
     THEN Launch("land", Zero)
     ELSE UNCHANGED <<pc, quiet, sessionVars>>
  /\ UNCHANGED <<telemetryVars, target, informed, streamVars, autopilot>>

\* close cancels the watchers and nothing else.
Close ==
  /\ phase \in {"up", "closing"} /\ pc = "idle"
  /\ watching' = FALSE
  /\ phase' = "closed"
  /\ UNCHANGED <<state, pc, callVars, step, sessionVars, streamVars, autopilot, quiet>>

-----------------------------------------------------------------------------

CallSome ==
  \E c \in Commands : \E v \in Velocities : (c = "move_velocity" \/ v = Zero) /\ Call(c, v)

\* What the command in progress does next, once the autopilot or the clock lets it.
CommandStep ==
  \/ Check \/ WaitExpires
  \/ ActionAccepted \/ ActionRefused \/ Confirm
  \/ ZeroSent \/ ZeroRefused \/ Joined \/ StopAccepted \/ StopRefused
  \/ Primed \/ Started \/ Opened \/ Steered \/ MoveRefused
  \/ RequestBreaks

StreamStep(t) ==
  StreamSend(t) \/ StreamSent(t) \/ StreamExit(t) \/ StreamRefused(t) \/ StreamBreaks(t)

ConnectStep == Dial \/ Dialed \/ HeartbeatSeen \/ TelemetrySeen \/ ConnectFails

Next ==
  \/ \E f \in Fields : Watch(f)
  \/ CallSome
  \/ CommandStep
  \/ \E t \in Streamers : StreamStep(t)
  \/ ConnectStep
  \/ Interrupt
  \/ Shutdown
  \/ Close

Spec == Init /\ [][Next]_vars

\* Every request is answered and every _wait_until has a deadline, so the command
\* in progress moves on; the event loop serves each streaming task.
Fairness ==
  /\ WF_vars(CommandStep)
  /\ WF_vars(ConnectStep)
  /\ \A t \in Streamers : WF_vars(StreamStep(t))

FairSpec == Spec /\ Fairness

-----------------------------------------------------------------------------
(* Properties *)

PcLabels ==
  {"idle", "dialing", "heartbeat", "telemetry", "checking", "requesting", "confirming",
   "zeroing", "joining", "stopping", "priming", "starting", "opening", "steering"}

\* Types of the controller's fields.
TypeOK ==
  /\ state \in [Fields -> {"yes", "no", "unknown", "good", "bad", "low", "OFFBOARD", "other"}]
  /\ \A f \in Fields : state[f] \in Reports[f] \cup {"unknown"}
  /\ state["connected"] # "unknown"
  /\ watching \in BOOLEAN
  /\ phase \in {"new", "up", "down", "closing", "closed"}
  /\ pc \in PcLabels
  /\ cmd \in Commands
  /\ target \in Velocities
  /\ step \in 1..3
  /\ offboard_active \in BOOLEAN
  /\ offboard_setpoint \in Velocities
  /\ offboard_task \in Streamers \cup {NoTask}
  /\ streams \in [Streamers -> {"dead", "paused", "sending"}]
  /\ payload \in [Streamers -> Velocities]
  /\ autopilot \in Velocities
  /\ quiet \in BOOLEAN
  /\ informed \in BOOLEAN
  /\ orphans \subseteq Streamers

\* While the controller believes it is in OFFBOARD, the task it holds is alive: the
\* autopilot is never left in OFFBOARD with _offboard_active set and nobody
\* streaming.  Orphan tasks of earlier sessions, which survive a refused move,
\* neither end the current session's task nor pass for it.
LiveSession ==
  offboard_active => /\ offboard_task \in Streamers
                     /\ streams[offboard_task] # "dead"

\* A command that is leaving OFFBOARD, or has asked for hold or land, runs with the
\* session closed, so no streaming task starts a request under it; only a
\* move_velocity opens or steers a session; and a session that is open belongs to
\* a move begun after the last successful hold or land.
SessionDiscipline ==
  /\ pc \in {"joining", "stopping"} => ~offboard_active /\ cmd \in {"hold", "land"}
  /\ (pc \in {"requesting", "confirming"} /\ cmd \in {"hold", "land"}) => ~offboard_active
  /\ pc \in {"priming", "starting", "opening", "steering"} => cmd = "move_velocity" /\ ~quiet
  /\ pc = "zeroing" => cmd = "hold"
  /\ pc = "joining" => offboard_task \in Streamers
  /\ quiet => ~offboard_active

\* offboard.stop, hold and land go out only after the session's own streaming task has
\* been cancelled and has ended: a task that is alive then, or at any time before the
\* next move_velocity, is left over from a session that an OffboardError ended, on
\* whichever task or command that error struck.
JoinedBeforeStop ==
  (\/ pc = "stopping"
   \/ pc \in {"requesting", "confirming"} /\ cmd \in {"hold", "land"}
   \/ quiet)
     => Alive \subseteq orphans

\* A command leaves its tests and makes its first request.
GoesOut ==
  /\ pc \in {"idle", "checking"}
  /\ pc' \in {"requesting", "zeroing", "joining", "stopping", "priming", "steering"}

\* What a command demands of the telemetry, all of it at once.
Demanded(c) ==
  /\ Is("connected", "yes")
  /\ c = "arm" => HealthOK
  /\ c = "disarm" => Is("armed", "yes") /\ Is("in_air", "no")
  /\ c = "takeoff" => Is("armed", "yes") /\ ~Is("in_air", "yes")
  /\ c = "land" => Is("armed", "yes") \/ Is("in_air", "yes")
  /\ c \in {"hold", "move_velocity"} => Is("armed", "yes") /\ Is("in_air", "yes")

\* When its first request goes out, everything a command demands of the telemetry holds
\* at that very instant, if in_air and the battery had been reported when it was called:
\* connect has waited for the rest, no reading is ever lost, and so nothing is awaited
\* between the tests.  A command called earlier does wait.  For it only what it tests
\* after the wait holds when the request goes out: the vehicle is healthy for arm, on the
\* ground for disarm, in the air for hold and move_velocity.  That it is still connected
\* and armed is then as old as the call, up to the time limit of the wait.
RequestsAreGuarded ==
  [][GoesOut => /\ informed' => Demanded(cmd')
                /\ cmd' = "arm" => HealthOK
                /\ cmd' = "disarm" => Is("in_air", "no")
                /\ cmd' \in {"hold", "move_velocity"} => Is("in_air", "yes")]_vars

\* Every command ends, whatever telemetry and the autopilot do: each wait has a deadline.
CommandsReturn == (pc # "idle") ~> (pc = "idle")

\* After a successful hold or land every streaming task ends, orphans included.
StreamersDrain ==
  quiet ~> (~quiet \/ \A t \in Streamers : streams[t] = "dead")

\* A move that returned with its session open takes effect: a slower request with an
\* older setpoint may reach the autopilot after it, but not for good.
SetpointArrives ==
  \A v \in Velocities :
    (pc = "idle" /\ offboard_active /\ offboard_setpoint = v)
      ~> (autopilot = v \/ ~offboard_active \/ offboard_setpoint # v)
=============================================================================
