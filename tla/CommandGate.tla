----------------------------- MODULE CommandGate -----------------------------
(***************************************************************************)
(* What both deployments promise the vehicle: one command at a time, each  *)
(* on a verdict of the validator; a memory of the flight that moves only   *)
(* by builds of the snapshot; and once the program has begun to end,       *)
(* nothing but a landing.  Nothing is said of requests, locks, cognition,  *)
(* counters and components.                                                *)
(***************************************************************************)
EXTENDS CommandSafety

CONSTANT
  Local  \* TRUE: src/core/agent_loop.py, which awaits cognition between the verdict's snapshot
         \* and the command, holds when an iteration fails and lands at its end.
         \* FALSE: src/api/cognition_server.py, which does none of the three.

VARIABLES
  telemetry,  \* the cached telemetry
  memory,     \* the snapshot builder's fields
  verdict,    \* the commands the snapshot of the words in hand admits
  running,    \* the command the controller executes, or "none"
  over        \* the program has begun to end

vars == <<telemetry, memory, verdict, running, over>>

Init ==
  /\ telemetry \in Telemetry
  /\ memory = FreshBuilder
  /\ verdict = {}
  /\ running = "none"
  /\ over = FALSE

\* The commands admitted in the state of this moment.
Admitted == {c \in Commands : Admits(c, Snapshot(memory, telemetry))}

\* A snapshot may be built on the way, for the response or the status display.
MayBuild == memory' \in {memory, Remember(memory, telemetry)}

Report ==
  /\ telemetry' \in Telemetry
  /\ UNCHANGED <<memory, verdict, running, over>>

Build ==
  /\ memory' = Remember(memory, telemetry)
  /\ UNCHANGED <<telemetry, verdict, running, over>>

\* Words are taken up: whatever cognition makes of them, the snapshot is this one.
Judge ==
  /\ Local /\ ~over
  /\ running = "none"
  /\ verdict' = Admitted
  /\ memory' = Remember(memory, telemetry)
  /\ UNCHANGED <<telemetry, running, over>>

Begin ==
  /\ ~over
  /\ running = "none"
  /\ running' \in IF Local THEN verdict ELSE Admitted
  /\ verdict' = {}
  /\ MayBuild
  /\ UNCHANGED <<telemetry, over>>

\* The command returns or fails, or the words lead to none.
End ==
  /\ running' = "none"
  /\ verdict' = {}
  /\ MayBuild
  /\ UNCHANGED <<telemetry, over>>

\* The hold that answers a failure, an error of cognition or an emergency word, in the air.
FallbackHold ==
  /\ Local /\ ~over
  /\ telemetry.in_air
  /\ running' = "hold"
  /\ verdict' = {}
  /\ UNCHANGED <<telemetry, memory, over>>

\* The program begins to end, whatever is running: the vehicle lands if there is need to.
Shutdown ==
  /\ Local /\ ~over
  /\ over' = TRUE
  /\ running' = IF telemetry.connected /\ (telemetry.armed \/ telemetry.in_air)
                THEN "land" ELSE "none"
  /\ verdict' = {}
  /\ UNCHANGED <<telemetry, memory>>

Next == Report \/ Build \/ Judge \/ Begin \/ End \/ FallbackHold \/ Shutdown

Spec == Init /\ [][Next]_vars
=============================================================================
