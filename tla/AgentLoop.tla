------------------------------ MODULE AgentLoop ------------------------------
(***************************************************************************)
(* The local orchestration of src/core/agent_loop.py: one coroutine that   *)
(* listens, looks, asks cognition, and acts, while the watchers change the *)
(* cached telemetry under it at every await.  The controller's commands    *)
(* are here the requests they make and the ways they may end; the module   *)
(* DroneController has their inside.                                       *)
(***************************************************************************)
EXTENDS CommandSafety, Sequences

CONSTANTS
  MaxFailures,  \* max_cognition_failures
  MaxStreak     \* bound on the history variable streak

ASSUME LoopAssumption == MaxFailures \in Nat \ {0} /\ MaxStreak \in Nat

VARIABLES
  telemetry,     \* the cached telemetry, as the snapshot builder and the loop read it
  pc,            \* the await the loop is suspended in
  memory,        \* the snapshot builder's fields
  snapshot,      \* drone_state: the snapshot cognition was asked with
  command,       \* the validated command being dispatched, or "none"
  reason,        \* why a fallback hold is in progress, or "none"
  failures,      \* _consecutive_cognition_failures
  shutdown_done, \* _shutdown_done
  open,          \* the components shutdown has not closed
  streak,        \* history: cognition errors since the last success or emergency
  landed_out     \* history: shutdown found it had nothing to land, or its land() is over

vars == <<telemetry, pc, memory, snapshot, command, reason, failures, shutdown_done, open,
          streak, landed_out>>
iterationVars == <<snapshot, command, reason>>
failureVars == <<failures, streak>>
shutdownVars == <<shutdown_done, open, landed_out>>

\* Mutant: the cognition service is closed before the loggers.
ComponentsCognitionFirst ==
  <<"drone", "cognition", "audio", "vision", "blackbox", "performance">>

Components == <<"drone", "audio", "vision", "blackbox", "performance", "cognition">>
ComponentNames == {Components[i] : i \in 1..Len(Components)}

NoSnapshot == [state |-> "GROUNDED", connected |-> FALSE, low_battery |-> FALSE]

Init ==
  /\ telemetry = [connected |-> FALSE, armed |-> FALSE, in_air |-> FALSE,
                  flight_mode |-> "other", low_battery |-> FALSE]
  /\ pc = "connect"
  /\ memory = FreshBuilder
  /\ snapshot = NoSnapshot
  /\ command = "none"
  /\ reason = "none"
  /\ failures = 0
  /\ shutdown_done = FALSE
  /\ open = ComponentNames
  /\ streak = 0
  /\ landed_out = FALSE

\* The watchers: one field changes.  Each has a stream of its own, so any combination
\* of fields may be cached at some moment.
Telemetry_changes ==
  /\ \E c, a, f, b \in BOOLEAN : \E m \in FlightModes :
       /\ telemetry' = [connected |-> c, armed |-> a, in_air |-> f, flight_mode |-> m,
                        low_battery |-> b]
       /\ \E field \in DOMAIN telemetry :
            \A other \in DOMAIN telemetry \ {field} : telemetry'[other] = telemetry[other]
  /\ UNCHANGED <<pc, memory, iterationVars, failureVars, shutdownVars>>

-----------------------------------------------------------------------------
(* The end of an iteration, and the fallback hold *)

\* _emit_status builds a snapshot of its own; the loop then listens again.
Emit ==
  /\ pc' = "listen"
  /\ memory' = Remember(memory, telemetry)
  /\ snapshot' = NoSnapshot
  /\ command' = "none"
  /\ reason' = "none"

\* _safe_hold up to its await.
safe_hold(why) ==
  \/ /\ ~telemetry.in_air
     /\ Emit
  \/ /\ telemetry.in_air
     /\ pc' = "holding"
     /\ reason' = why
     /\ command' = "none"
     /\ UNCHANGED <<memory, snapshot>>

\* run_iteration's except clause.
LoopException == safe_hold("LOOP_EXCEPTION_HOLD")

-----------------------------------------------------------------------------
(* One iteration *)

Connected ==
  /\ pc = "connect"
  /\ pc' = "listen"
  /\ UNCHANGED <<telemetry, memory, iterationVars, failureVars, shutdownVars>>

\* Silence, after idle_sleep_s, or speech that is not for the drone.
HearNothing ==
  /\ pc = "listen"
  /\ Emit
  /\ UNCHANGED <<telemetry, failureVars, shutdownVars>>

\* Mutant: the emergency branch leaves the failure counter alone.
HearEmergencyKeepCount ==
  /\ pc = "listen"
  /\ streak' = 0
  /\ safe_hold("EMERGENCY_KEYWORD")
  /\ UNCHANGED <<telemetry, failures, shutdownVars>>

HearEmergency ==
  /\ pc = "listen"
  /\ failures' = 0
  /\ streak' = 0
  /\ safe_hold("EMERGENCY_KEYWORD")
  /\ UNCHANGED <<telemetry, shutdownVars>>

\* The snapshot is taken and cognition asked in one go.
AskCognition ==
  /\ pc' = "thinking"
  /\ snapshot' = Snapshot(memory, telemetry)
  /\ memory' = Remember(memory, telemetry)
  /\ UNCHANGED <<command, reason>>

HearCommand ==
  /\ pc = "listen"
  /\ \/ AskCognition
     \/ pc' = "looking" /\ UNCHANGED <<memory, iterationVars>>
  /\ UNCHANGED <<telemetry, failureVars, shutdownVars>>

\* A frame, or a VisionError: the loop goes on either way.
Looked ==
  /\ pc = "looking"
  /\ AskCognition
  /\ UNCHANGED <<telemetry, failureVars, shutdownVars>>

\* Mutant: the except clause takes the same words up again.
IterationBreaksRetry ==
  /\ pc \in {"looking", "thinking"}
  /\ pc' = "looking"
  /\ UNCHANGED <<telemetry, memory, iterationVars, failureVars, shutdownVars>>

\* Anything else raised while listening, looking or waiting for cognition.
IterationBreaks ==
  /\ pc \in {"listen", "looking", "thinking"}
  /\ LoopException
  /\ UNCHANGED <<telemetry, failureVars, shutdownVars>>

\* A CognitionError: malformed output, a rejected command, a timeout.
CognitionFails ==
  /\ pc = "thinking"
  /\ streak < MaxStreak
  /\ streak' = streak + 1
  /\ \/ failures + 1 < MaxFailures
        /\ failures' = failures + 1
        /\ safe_hold("VALIDATION_HOLD")
     \/ failures + 1 >= MaxFailures
        /\ failures' = 0
        /\ safe_hold("COGNITION_FAILSAFE_HOLD")
  /\ UNCHANGED <<telemetry, shutdownVars>>

\* A command the validator admitted for the snapshot; _dispatch_command up to its await.
CommandAdmitted ==
  /\ pc = "thinking"
  /\ \E c \in Commands :
       /\ Admits(c, snapshot)
       /\ \/ /\ c = "hold" /\ ~telemetry.in_air
             /\ Emit
          \/ /\ c = "hold" => telemetry.in_air
             /\ pc' = "acting"
             /\ command' = c
             /\ UNCHANGED <<memory, snapshot, reason>>
  /\ failures' = 0
  /\ streak' = 0
  /\ UNCHANGED <<telemetry, shutdownVars>>

Acted ==
  /\ pc = "acting"
  /\ Emit
  /\ UNCHANGED <<telemetry, failureVars, shutdownVars>>

\* The controller's method raises: DroneStateError, DroneHealthError or anything else.
ActFails ==
  /\ pc = "acting"
  /\ LoopException
  /\ UNCHANGED <<telemetry, failureVars, shutdownVars>>

\* hold() returned or raised DroneStateError.
Held ==
  /\ pc = "holding"
  /\ Emit
  /\ UNCHANGED <<telemetry, failureVars, shutdownVars>>

-----------------------------------------------------------------------------
(* Shutdown *)

\* Mutant: shutdown asks only whether the vehicle is armed and in the air.
BeginShutdownBoth ==
  /\ shutdown_done' = TRUE
  /\ \/ /\ telemetry.connected /\ telemetry.armed /\ telemetry.in_air
        /\ pc' = "landing"
        /\ UNCHANGED landed_out
     \/ /\ ~(telemetry.connected /\ telemetry.armed /\ telemetry.in_air)
        /\ pc' = "closing"
        /\ landed_out' = ~(telemetry.connected /\ (telemetry.armed \/ telemetry.in_air))
  /\ snapshot' = NoSnapshot /\ command' = "none" /\ reason' = "none"
  /\ UNCHANGED open

\* shutdown, from the finally clause of run, up to its first await.
BeginShutdown ==
  /\ shutdown_done' = TRUE
  /\ \/ /\ telemetry.connected /\ (telemetry.armed \/ telemetry.in_air)
        /\ pc' = "landing"
        /\ UNCHANGED landed_out
     \/ /\ ~(telemetry.connected /\ (telemetry.armed \/ telemetry.in_air))
        /\ pc' = "closing"
        /\ landed_out' = TRUE
  /\ snapshot' = NoSnapshot /\ command' = "none" /\ reason' = "none"
  /\ UNCHANGED open

\* hold() raised something else (its zero setpoint has no handler): the except clause of
\* run_iteration tries again, and a second failure leaves run.
HoldBreaks ==
  /\ pc = "holding"
  /\ \/ /\ reason # "LOOP_EXCEPTION_HOLD"
        /\ LoopException
        /\ UNCHANGED shutdownVars
     \/ /\ reason = "LOOP_EXCEPTION_HOLD"
        /\ BeginShutdown
        /\ UNCHANGED memory
  /\ UNCHANGED <<telemetry, failureVars>>

\* connect or check_health raises, or the program is interrupted at any await of run.
Interrupt ==
  /\ pc \in {"connect", "listen", "looking", "thinking", "acting", "holding"}
  /\ BeginShutdown
  /\ UNCHANGED <<telemetry, memory, failureVars>>

\* Mutant: after the landing the loop listens again.
LandEndsResumes ==
  /\ pc = "landing"
  /\ pc' = "listen"
  /\ landed_out' = TRUE
  /\ UNCHANGED <<telemetry, memory, iterationVars, failureVars, shutdown_done, open>>

\* Mutant: shutdown waits for the touchdown itself, with no deadline.
LandEndsOnGround ==
  /\ pc = "landing" /\ ~telemetry.in_air
  /\ pc' = "closing"
  /\ landed_out' = TRUE
  /\ UNCHANGED <<telemetry, memory, iterationVars, failureVars, shutdown_done, open>>

\* land() returned or raised: shutdown goes on.
LandEnds ==
  /\ pc = "landing"
  /\ pc' = "closing"
  /\ landed_out' = TRUE
  /\ UNCHANGED <<telemetry, memory, iterationVars, failureVars, shutdown_done, open>>

\* The next component in the order of _close_components.
NextOpen == CHOOSE i \in 1..Len(Components) :
              /\ Components[i] \in open
              /\ \A j \in 1..(i - 1) : Components[j] \notin open

CloseNext ==
  /\ pc = "closing"
  /\ open' = open \ {Components[NextOpen]}
  /\ pc' = IF open' = {} THEN "closed" ELSE "closing"
  /\ UNCHANGED <<telemetry, memory, iterationVars, failureVars, shutdown_done, landed_out>>

\* The close() of every component but the cognition service, whose executor is shut down
\* with wait=True and so only when the call of its worker has ended.
CloseBounded == CloseNext /\ Components[NextOpen] # "cognition"

\* A close() raises, or is interrupted: the components after it stay open.
CloseFails ==
  /\ pc = "closing"
  /\ pc' = "broken"
  /\ UNCHANGED <<telemetry, memory, iterationVars, failureVars, shutdownVars>>

-----------------------------------------------------------------------------

IterationStep ==
  \/ Connected
  \/ HearNothing \/ HearEmergency \/ HearCommand
  \/ Looked \/ IterationBreaks
  \/ CognitionFails \/ CommandAdmitted
  \/ Acted \/ ActFails
  \/ Held \/ HoldBreaks

ShutdownStep == LandEnds \/ CloseNext \/ CloseFails

Next == Telemetry_changes \/ IterationStep \/ Interrupt \/ ShutdownStep

Spec == Init /\ [][Next]_vars

\* The await of each step returns or raises: audio capture and cognition have timeouts, and
\* the controller's commands end, land among them.  The controller's close cancels what it
\* waits for, those of audio and vision are empty, those of the loggers wait for file
\* writes.  Nothing is assumed of the close of the cognition service.
FairSpec ==
  /\ Spec
  /\ WF_vars(IterationStep)
  /\ WF_vars(LandEnds)
  /\ WF_vars(CloseBounded)

-----------------------------------------------------------------------------
(* Properties *)

IterationPcs == {"connect", "listen", "looking", "thinking", "acting", "holding"}
ShutdownPcs == {"landing", "closing", "closed", "broken"}
Reasons == {"EMERGENCY_KEYWORD", "VALIDATION_HOLD", "COGNITION_FAILSAFE_HOLD",
            "LOOP_EXCEPTION_HOLD"}

\* Types of the loop's fields.
TypeOK ==
  /\ telemetry \in Telemetry
  /\ pc \in IterationPcs \cup ShutdownPcs
  /\ memory \in BuilderMemory
  /\ snapshot \in Snapshots
  /\ command \in Commands \cup {"none"}
  /\ reason \in Reasons \cup {"none"}
  /\ failures \in 0..(MaxFailures - 1)
  /\ shutdown_done \in BOOLEAN
  /\ open \subseteq ComponentNames
  /\ streak \in Nat
  /\ landed_out \in BOOLEAN

\* The counter is the length of the streak of cognition errors, modulo its limit,
\* whatever emergencies, exceptions, silences and skipped holds come in between:
\* the failsafe hold is for every MaxFailures-th error in a row and for no other.
FailsafeOnStreak ==
  /\ failures = streak % MaxFailures
  /\ reason = "COGNITION_FAILSAFE_HOLD" => failures = 0 /\ streak > 0
  /\ reason = "VALIDATION_HOLD" => failures > 0

\* The controller is closed, and with it the telemetry, only after shutdown has seen
\* that a connected vehicle is neither armed nor in the air, or has tried to land it.
LandedBeforeClosing == "drone" \notin open => landed_out

\* Once shutdown has begun no iteration runs and no other command is dispatched,
\* whichever await it began from.
ShutdownIsFinal == shutdown_done <=> pc \in ShutdownPcs

\* An iteration ends: words whose handling raises are not taken up again, and the
\* exception of a fallback hold leads to at most one more hold.
IterationEnds ==
  pc \in {"looking", "thinking", "acting", "holding"} ~> pc \in {"listen"} \cup ShutdownPcs

\* Whatever the vehicle and the cognition worker do, a shutdown closes everything but the
\* cognition service, unless a close() on the way raises: neither a landing that telemetry
\* never confirms nor a worker that never answers keeps the connection, the sensors and the
\* loggers open.  The program itself may still wait for that worker for ever.
ShutdownEnds == shutdown_done ~> (open \subseteq {"cognition"} \/ pc = "broken")

\* The commands the snapshot of the iteration admits, while cognition is awaited.
Verdict == IF pc = "thinking" THEN {c \in Commands : Admits(c, snapshot)} ELSE {}

\* What the controller executes for the loop.
Running == CASE pc = "acting"  -> command
             [] pc = "holding" -> "hold"
             [] pc = "landing" -> "land"
             [] OTHER          -> "none"

Gate == INSTANCE CommandGate
          WITH Local <- TRUE, verdict <- Verdict, running <- Running, over <- shutdown_done

\* The loop implements the gate: the controller is asked for a command only on the verdict
\* of the words in hand, one at a time, and for a hold of the loop's own only in the air; from
\* whichever await a shutdown begins, it asks for a landing and then for nothing more; and
\* nothing but a snapshot of the moment moves the memory.
KeepsGate == Gate!Spec

-----------------------------------------------------------------------------
(* A property the documentation states and the loop does not have *)

\* What DroneController itself requires before it makes the request.
ControllerAdmits(c, t) ==
  /\ t.connected
  /\ c \in {"takeoff", "hold", "move_velocity"} => t.armed
  /\ c \in {"hold", "move_velocity"} => t.in_air
  /\ c = "land" => t.armed \/ t.in_air

\* What the loop asks of the controller when cognition has answered: the admitted command,
\* or the hold that answers an error.
AnswersWith(c) ==
  /\ pc = "thinking"
  /\ \/ pc' = "acting" /\ command' = c
     \/ pc' = "holding" /\ reason' # "LOOP_EXCEPTION_HOLD" /\ c = "hold"

\* ARCHITECTURE.md:13, "Control executes only validated actions": a hold or a motion that
\* reaches a flying vehicle is one the validator admits in the state the vehicle is in.
OnlyValidatedMotion ==
  [][\A c \in {"hold", "move_velocity"} :
       AnswersWith(c) /\ ControllerAdmits(c, telemetry) => Admits(c, Snapshot(memory, telemetry))]_vars
=============================================================================
