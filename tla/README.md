# Edge-VLA-Micro: specifications and proofs

TLA+ models of the control path of Edge-VLA-Micro, from the operator's voice to the
MAVSDK request and to the logs of what was done, with TLC runs on small instances and
theorems checked by TLAPS. `PROJECT.json` lists the runs, the source lines each definition
stands for, the mutants that show each property can fail, the hazards and the theorems.

    tlc -workers 2 -config MCDroneController_offboard.cfg MCDroneController.tla
    tlapm DroneControllerProofs.tla

Definitions keep the code's names. A definition introduced by "Mutant:" is never part of
a specification: it is what a plausible bug would make of the definition after it.

## 1. The system

Two deployments share one safety layer and one flight controller.

*Local agent* (`src/core`): one coroutine listens, captures a frame if the words call for
one, asks a cognition service, and calls the controller. *Distributed*
(`src/api/cognition_server.py`): a Mac client posts a transcript, perhaps with a frame, to
a FastAPI server, which decides and calls the controller.

| Component | State it keeps | Operations | Hard behaviour |
| --- | --- | --- | --- |
| Command validator `safety/command_validator.py` | none | `validate` | replacement of a command without a target by hold, before the state rules |
| Snapshot builder `core/drone_snapshot.py` | `has_been_airborne`, `_previous_armed` | `build` | sees the flight only when it is built; `/health` builds too |
| Controller `action/drone_controller.py` | cached telemetry, OFFBOARD flag, setpoint, streaming task, watchers | `connect`, `close`, six commands | three kinds of coroutine on one event loop; a request may be refused at every await |
| Agent loop `core/agent_loop.py` | failure counter, shutdown flag | `run_iteration`, `shutdown` | telemetry changes while cognition thinks; shutdown from any await; failures of the fallback itself |
| Cognition services `perception/cognition_service.py` | the executor | `warmup`, `process_intent`, `close` | workers that hang, die, answer late, outlive their executor |
| VLM runtimes `perception/vlm_runtime.py`, `smolvlm_runtime.py` | the model's fields, per process | load, warm up, generate | a load that fails between two assignments; a worker that was never warmed up |
| Engine, guardrails, SmolVLM normalisation `perception/` | none between requests | `process_intent` | five rewritings of an untrusted proposal, whose order matters |
| Cognition server `api/cognition_server.py` | command lock, snapshot builder, controller | `/process_intent`, `/health`, start, close | requests of clients that gave up; inference that blocks the event loop |
| Mac client `tools/mac_sensor_client.py` | last response, one frame file, a temporary recording, a subprocess | prompt, listen, transcribe, capture, post, log | every step may raise; the server answers late or not at all |
| Audio capture `audio/audio_module.py` | queue, onset and silence times, chunks | `transcribe_audio` | a thread feeds a queue read with a timeout; limits looked at only between waits |
| Camera `perception/vision_module.py` | the device while open | capture | a device that must be released on each way out |
| Loggers `monitoring/telemetry_logger.py`, `perception/transaction_log.py` | pending writes | `log_*`, `close` | processes and threads append to one file, which a script may move |
| Jetson monitor `tools/jetson_monitor.py` | one file kept open | monitor | as above |
| `scripts/reset_demo_logs.sh` | - | moves logs to an archive | runs while others write |
| Heartbeat monitor, probes, charts, benchmarks | - | - | read-only tools |

Interaction: the watchers write the controller's cached state; the snapshot builder, the
loop and the server read it, each at moments of its own. The loop and the server call the
controller's commands and await them. The controller shares its setpoint and its session
flag with the streaming tasks. The loop talks to a service by future, the service to
worker processes by executor, the console to the server by HTTP, and to the audio thread
by callbacks into the event loop. Everything that logs shares files by path only.

## 2. What would make it wrong

The list with source lines is in `PROJECT.json`, `hazards`. In short: a decision made on a
state that has changed (loop, controller); sessions whose task, flag and autopilot mode
disagree; a late answer taken for the present one; a repair that turns a refusal into
motion; a history kept by sampling; an old frame or verdict taken for the present one; a
device, file or process left behind by a step that raised; a block of speech lost between
a thread and a timeout; a log whose header or rows are lost between two writers; a
shutdown that starts in the middle of anything; and everything that must end, though what
it waits for may never come.

## 3. Modules

| Module | Models | Built on |
| --- | --- | --- |
| `CommandSafety` | the validator's rules and the builder's classification, as operators | |
| `CommandGate` | abstract: what both deployments promise the vehicle | `CommandSafety` |
| `DroneSnapshot` | the builder over a flight | `CommandSafety` |
| `DroneController` | the controller | |
| `AgentLoop` | the loop and its shutdown; refines `CommandGate` | `CommandSafety` |
| `CognitionCall` | abstract: what a cognition service promises | |
| `CognitionService` | both services; refines `CognitionCall` | |
| `WorkerRuntime` | the model inside each worker; refines the workers of `CognitionService` | `CognitionService` |
| `IntentPipeline` | one request from words to command, both backends | `CommandSafety` |
| `CognitionServer` | server and clients; refines `CommandGate` | `CommandSafety` |
| `VoiceCapture` | one capture: audio thread, queue, clock | |
| `SensorConsole` | the operator's console, with voice, camera, subprocess and server | `VoiceCapture` |
| `LogFiles` | the logs, their writers and the reset script | |
| `MC...` | constants for TLC | |
| `...Proofs` | theorems; those on `WorkerRuntime` are in `CognitionServiceProofs` | |

**Steps.** asyncio is cooperative: what a coroutine does between two awaits that suspend
it is one action, and a check and the request after it are separate actions only when the
code awaits in between. `pc` names the await. In `DroneController` an await on the
autopilot ends in success, in the MAVSDK error the code handles, or, with
`TransportMayFail`, in an exception it does not; `_wait_until` ends when its predicate
holds at a poll (`Check`, `Confirm`, `Opened`) or at its deadline (`WaitExpires`). Between
processes (`LogFiles`, `WorkerRuntime`) each system call or assignment that another can
observe is an action.

**CommandSafety.** Telemetry is a record; `None` is falsy in the code and is FALSE here
(`DroneController`, where the difference matters, keeps `unknown`). The flight modes are
the two the code tests and `other`. Battery readings are hundredths, so that the boundary
between a fraction and a percentage is exact.

**CommandGate.** What the vehicle sees of either deployment: telemetry, the builder's
memory, the verdict in hand, the command that runs and whether the program is ending. `Local` says which of the two. The
loop judges when it takes words up and commands later, on that verdict; it also holds and
lands of its own accord, the one only in the air, the other only at its end. The server
judges and commands in one step and does nothing else. In both the memory moves only by
builds. The loop maps `verdict` to what its snapshot admits while cognition thinks and
`running` to the command it awaits, and `over` to `_shutdown_done`; the server maps `running` to the command of the handler
that executes.

**DroneSnapshot.** `t` is the telemetry, `memory` the builder's fields; `seen` and `flown`
are history. `VehicleMoves` requires `seen`: the guarantee is about flights whose changes
are all seen. The loop builds a snapshot when it takes up a command and in every emitted
status, so an iteration that awaits cognition or a command for long can miss a change, and
then the guarantee does not apply.

**DroneController.** `streams` and `payload` are the streaming tasks and what each has in
flight, `autopilot` the last setpoint that arrived. A refused move clears the flag and
leaves its task, so tasks of several sessions may live at once; `Streamers` bounds how
many. `Requirements` lists what each command waits for, in its order. `quiet`, `informed`
(in_air and the battery were known at the call) and `orphans` (tasks whose session an
OffboardError ended elsewhere) are history.
`Interrupt` is Ctrl-C at any await, `Shutdown` the loop's landing.

**AgentLoop.** A command of the controller is its request and its end. What is heard is
silence, an emergency word, an actionable text or neither; the cognition service's answer
is any command the validator admits for the snapshot, or an error. `streak` and
`landed_out` are history.

**CognitionService.** One module for both backends (`Isolated`). An executor is an
identity with one worker and the call it runs. `future` is the call the loop awaits. A
result is identified by the call it was computed for, so that a stale answer would show.
`Executors` bounds how many executors one behaviour creates; an executor given up is
never used again, as in the code.

**WorkerRuntime.** A call in a worker is several steps: it reaches the runtime, the fields
are assigned in two parts, the model generates. `runtime` survives from call to call and is
lost with the process; `backend` decides which part the early return looks at. The service
is used as it is: each of its steps is one of this module with the runtime added, so every
behaviour of `RuntimeSpec` is one of `CognitionService`, with some of its choices (whether
a warm-up raises) decided by what the process went through.

**IntentPipeline.** A transcript is what the code's searches find in it: phrases found as
words, as substrings, by the patterns of the prompt module, and whether a colour is named.
The model's answer is arbitrary, and generating it, or looking at the frame, may raise. The
stages are those of the code, in its order.

**CognitionServer.** `Blocked` says what the synchronous inference means: no coroutine
moves. A client that gives up changes nothing on the server. `sight` is history: what the
latest builds, for a request, a response or a poll, have seen of a flight.

**VoiceCapture.** The clock counts blocks since the stream was opened. The audio thread
delivers a block per tick, or nothing when the device fails; the reader takes blocks or
times out, and may be kept from going on for `MaxStall` blocks, so that a backlog occurs.
Blocks are numbered, so that a block lost or taken twice would show. `voice` is history.

**SensorConsole.** `at` is the step of the console; every step may raise, and the module
says which exceptions reach the handler of `run_interactive_console` (`CommandFails`) and
which end the program (`Crash`). `frame` is the command whose picture the one frame file
holds. The server executes a request at any moment, also after its client gave up.

**LogFiles.** A behaviour is about one log, of one `kind`; the kinds differ in who tests for
the file, when the header is written and who waits for the writers. A file is an identity,
`path` what the name stands for now, so that a writer whose file was moved keeps writing
to it. For the loggers of the event loop `pending` is the set `_pending_tasks`: a task is
created, a thread of the pool takes it up, writes, and only later the loop hears of it;
the loop may close the logger or end without it, which loses the tasks no thread has
taken up. `tested`, `overtaken` and `parted` are history.

Each module has one type invariant. It is a conjunct of the invariants proved, and is
not a question any run asks.

## 4. Runs

| Run | Instance | Asks |
| --- | --- | --- |
| `snapshot` | 14 readings around every boundary | what the builder remembers and the validator admits |
| `commands` | one task, one velocity and zero, all telemetry, broken transport | what holds of telemetry when the request goes out |
| `offboard` | two tasks, one velocity and zero | sessions, the order of join and stop, and that commands and tasks end |
| `loop` | limit 2, streaks up to 5 | counter, holds, shutdown, the gate |
| `loop_unvalidated` | limit 2, streaks up to 2 | disagreement 1 |
| `service` | `WorkerRuntime`: 3 executors, 2 requests and the warm-up, both runtimes | promise, independence of calls, what a failed load leaves, termination |
| `pipeline` | texts of up to two phrases and one more as a substring; every model output up to fields no stage reads together; ten states | order and soundness of the repairs |
| `pipeline_visual`, `pipeline_evidence` | the same | disagreements 2 and 3 |
| `server` | 3 requests, seven reports of a flight | lock, dispatch, the memory polls share with requests, the gate |
| `console` | 2 commands, 2 cameras, all options; limits of 3 blocks, silence and poll of 2, stall of 1 | what is left open, what is sent and shown, the capture |
| `logs` | 3 writers, 2 samples, 2 resets, five kinds of log | headers, rows, records beside their frames, close and a loop that ends without it |

Why the bounds are enough. Two streaming tasks are an orphan and the current one, and the
properties speak of one task or of one against the current. One velocity and zero tell
"the old" from "the new". A limit of 2 separates first, middle and failsafe errors, and a streak of
5 wraps twice. Three executors are one abandoned and still working, one that just failed
and the current one. Three requests are one at work, one waiting and one arriving behind
it. The reports in `server` are those of one flight with the landing and a low battery: a
superset changes no guard, and the theorems hold for all. In `console` two commands are an
old one, whose frame, answer or request may linger, and the present one; two cameras are
one that fails and the next; a stall of one block makes a backlog, a poll of two lets a
wait end with and without a block, and the limit of three lets a recording end by silence
and at its limit. In `logs` three writers are two that race and one that finds what they
did; two resets put one before and one after any write. Deadlock is not checked where
the program may end (a closed loop, a closed service) or a bound may be reached.

Runs without fairness use `Spec`. The fairness of the others:
- `DroneController`: weak fairness of the command in progress, of connect and of each
  streaming task. Each request is answered by MAVSDK and each `_wait_until` has a
  deadline; no telemetry and no confirmation is assumed.
- `AgentLoop`: an await of an iteration returns or raises. Capture has its own limit,
  cognition a timeout (default backend), commands end by the run above, the landing of the
  shutdown among them. Of the closes, those of controller, sensors and loggers return.
  Nothing is assumed of the close of the cognition service, which waits for its worker
  without a limit: `ShutdownEnds` says that everything else is closed by then.
- `WorkerRuntime`: the event loop only. Workers may never finish; `CloseReturns` alone
  assumes that they do, since `close` waits without a limit.
- `CognitionServer`: each handler moves on when it can. Generation is bounded by a number
  of tokens, and a command of the controller ends. For requests waiting at the lock this
  is weak fairness, because the lock is first in, first out.
- `SensorConsole`: the console's own steps. Each wait in it has a limit: the capture
  its clock, the subprocess and the request a timeout. Nothing is assumed of
  the operator or the server.

### Properties worth a second look

- `NoSecondTakeoff` with `FreshArmingReleases`: the history neither forgets a flight nor
  locks out the next one.
- `LiveSession`: with an orphan asleep when the next session opens,
  the flag it tests is the new session's. It streams beside the new task and ends with it.
- `JoinedBeforeStop`: offboard.stop, hold and land go out only after the session's own task
  was cancelled and has ended. Orphans may be alive then: nothing in the code joins those.
- `RequestsAreGuarded`: a command tests the connection and the arming before it waits for
  the readings it tests next, and does not test them again. Once in_air and the battery
  have been reported nothing is awaited in between, so the request goes out on a telemetry
  that fulfils everything at once; connect waits for the rest, which is what the mutant
  `HeartbeatEnough` drops. A command called before that may go out on an arming as old as
  its wait, and the property promises no more for it than its last tests.
- `SetpointArrives`: an old setpoint in flight may overtake the new one, not for good.
- `KeepsGate`: one abstract specification for both deployments, in which a command begins
  only on a verdict. What the loop does not have, the server has: its verdict is that of the
  moment (`DispatchValidated`), but only because its inference blocks the event loop;
  awaiting it is the mutant that breaks the property. For the loop the property says in
  addition that a shutdown, begun at any await, is followed by a landing and by nothing else.
- `LockComesFree`: a command that raises, a client that gave up and a handler that was
  refused all hand the lock on; a lock kept by a handler that ended stops the server.
- `OneMemory`: polls do change what the requests are told. A flight that a poll has seen
  locks takeoff for the requests as one they have seen themselves; and a disarming that
  only a poll has seen opens it to the next request after an arming, where without the
  poll the vehicle would still count as landed. Either way the memory is one, and what was
  seen is not lost between two builds.
- `ShutdownEnds`: see the fairness above. That a `close()` raises, as at a second Ctrl-C, is
  in the model and leaves the rest open; the property excepts it.
- `AbsentTargetHolds`: the hold that replaces a command for a target nobody sees survives
  the repairs and is itself judged by the rules. On the local agent this is so for any
  command the words or the model name: "land on the red one" without red in the frame
  becomes a hold, and at a low battery a refusal.
- `ClosedMeansWritten`: a write is in the pending set from its creation until the loop has
  heard of its end, so that close waits for those no thread has begun.
- `WrittenOnce`: a reset between the frame and the record of the blackbox leaves them in two
  directories. The property names that case and allows it no other.
- `StartsAtOnce`, `OneErrorPerWorker`: a stuck or broken worker costs one request.
- `FaultsDoNotLast`: a fault that is over is over for the next call, also in a worker that
  was never warmed up. The exception it names is real: the MLX runtime assigns model and
  processor (vlm_runtime.py:166) before the functions that generate, and its early return
  (146) asks for the first two only; a load that raises in between makes every later call of
  that worker fail until it is replaced.
- `HoldWins`, `ModelCannotEscalate`, `MotionIsVouched`, `TargetSeenBeforeMotion`: which
  authority a proposal needs, on each backend, after all repairs.
- `RecordingFaithful`: what is transcribed begins with the onset and misses no block,
  though a wait may time out at the moment a block arrives.
- `PayloadIsCurrent`, `VerdictIsCurrent`: one file holds every frame, and one variable every
  answer; failures leave the old ones in place and the console must not use them.
- `HeaderFirst`: of two writers that both find no file both write a header, so a second one
  may stand in the middle; that the first entry is a header holds all the same, except in
  a file opened by a writer that looked before a reset and opened after it.

## 5. Disagreements between documents and code

1. `loop_unvalidated`. ARCHITECTURE.md:13: "Control executes only validated actions". A
   rejected command is answered by a hold (agent_loop.py:114) that no validator sees, also
   while landing, where the validator does not admit hold. Moves break the property too:
   the snapshot is taken before cognition (agent_loop.py:106) and the command dispatched
   after it (118), and all the controller asks is that the vehicle is armed and in the air.
2. `pipeline_visual`. ARCHITECTURE.md:186 promises a target check for visual commands. The
   server's fast path asks whether a frame was sent (cognition_server.py:355), not whether
   one is needed.
3. `pipeline_evidence`. ARCHITECTURE.md:153 and :151 require explicit operator evidence,
   in exact words. When the model's output cannot be parsed, a substring is enough
   (smolvlm_runtime.py:212, 291-320).

Observed and not made a run, because no text promises the contrary for certain:
the thread backend is not given `--cognition-timeout` (cli.py:40 and 106,
cognition_service.py:64), so its calls may wait for ever; recording and transcribing stand
outside the handler that keeps the console alive (mac_sensor_client.py:102 and 110), so a
microphone that cannot be opened ends it; the server's close lands nothing, the loop's
shutdown does.

## 6. Theorems

| Module | Theorem | Argument |
| --- | --- | --- |
| `DroneSnapshotProofs` | `AdmissionHolds`, `NoSecondTakeoffHolds`, `FreshArmingReleasesHolds` | `BuilderKeepsUp` is inductive: it says how far the builder's memory may lag behind the flight, which `NoSecondTakeoff` alone does not. `ForgetsFlight` is its converse, for the release |
| `DroneControllerProofs` | `TypeCorrect`, `SessionDisciplineHolds`, `JoinedBeforeStopHolds`, `LiveSessionHolds`, `RequestsAreGuardedHolds` | `SessionDiscipline` with the types of the session: leaving a session and opening one exclude each other through `pc` and `cmd`. For `JoinedBeforeStop`: a task that is alive is an orphan or is the one recorded, and from the join on none is recorded. `WaitsForItsOwn`: where a command stands in its `Requirements`, and that the last of them is seen in the step that sends the request |
| `AgentLoopProofs` | `FailsafeOnStreakHolds`, `LandedBeforeClosingHolds`, `ShutdownIsFinalHolds`, `TypeCorrect`, `KeepsGateHolds` | `LoopInv`: the counter is the streak modulo the limit, a reason is recorded only while its hold is awaited, and a component is closed only after the landing was tried. The arithmetic is proved first. With it, each step maps to one of `CommandGate` or to a stutter: that a shutdown is final is what the gate needs of it |
| `CognitionServiceProofs` | `NoIdleOrphanHolds`, `OneErrorPerWorkerHolds`, `StartsAtOnceHolds`, `KeepsPromiseHolds`; `RuntimeKeepsPromise`, `RuntimeIsolates`, `FaultsDoNotLastHolds` | the worker of the executor in use is busy with the call awaited or with none; executors blamed are given up. From it, each step maps to a step of `CognitionCall` or to a stutter. `RuntimeSpec` takes its steps from `Spec` by construction, which carries the theorems over. `FaultsDoNotLast` needs that a worker generates only with a runtime that takes itself for loaded |
| `CognitionServerProofs` | `OneCommandAtATimeHolds`, `OneMemoryHolds`, `DispatchValidatedHolds`, `LockComesFreeHolds`, `KeepsGateHolds` | handlers at work hold the lock; a handler that decides has a snapshot equal to the one the memory and the telemetry give at this moment, because nothing moves meanwhile. `Remembered` ties what builds have seen to the two fields that remember it. `LockInv`: the queue has no duplicates and its members are those waiting. With the invariants, each step maps to one of `CommandGate` or to a stutter |
| `IntentPipelineProofs` | `TypeCorrect`, `TargetSeenBeforeMotionHolds`, `HoldWinsHolds`, `ModelCannotEscalateHolds`, `MotionIsVouchedHolds`, `AbsentTargetHoldsAlways` | `Provenance` says at each stage where the object under repair comes from; lemmas say what each search, repair and the normalisation can yield |
| `SensorConsoleProofs` | `TypeCorrect`, `NothingLeftOpenHolds`, `PayloadIsCurrentHolds`, `VerdictIsCurrentHolds`, `CaptureBoundedHolds`, `RecordingFaithfulHolds` | five invariants: where each resource is held; whose frame the file has once the camera succeeded; which verdicts the server can have reached; how far the clock may run past a wait; that recording and queue are one interval of numbers |
| `LogFilesProofs` | `TypeCorrect`, `ClosedMeansWrittenHolds`, `HeaderFirstHolds`, `WrittenOnceHolds` | a writer that has a file open carries the header or knows that the file has one, unless a reset overtook it. `Once`: what a writer has written is in one file at one place (`Accounted`), and what is in a file stays where it is (`Kept`). `Beside`: a writer at its record has its frame in the present directory, unless a reset came since |

Assumptions are the named `ASSUME`s of the modules: identities are distinct from the
"none" values, limits are natural numbers, and sets of reports are among the possible
ones. `LiveSessionHolds` assumes in addition that `TransportMayFail` is FALSE: an exception
that is no `OffboardError` ends a streaming task with the flag set (`StreamBreaks`), so
without it the property is false.

Only model-checked: liveness, because fairness and ENABLED are beyond the prover
(`CommandsReturn`, `StreamersDrain`, `SetpointArrives`, `IterationEnds`, `ShutdownEnds`,
`CallsReturn`, `CloseReturns`, `RequestsAnswered`, `PromptReturns`). Every safety property
of a passing run is stated by a theorem, and so are `OneCommandAtATime`, `DispatchValidated`
and `ShutdownIsFinal`, which no run asks for since `LockComesFree` and `KeepsGate` imply what
they say of commands. No recursive definition is used, so nothing here
needs induction over data.

## 7. Not modelled

- Real time. A deadline is a step that may happen (in `VoiceCapture` it is a count of
  blocks); the 100 ms period of the setpoints, and the fact that blocking inference on the
  server starves it, are out of reach.
- Parsing of JSON and of numbers, regular expressions, prompts, the colour masks' arithmetic,
  tegrastats lines: seen by their outcomes.
- Camera, microphone, model inference, MAVSDK, PX4: external, any outcome their interface
  allows. PX4's reactions to commands are not assumed; telemetry is arbitrary.
- Setpoint order inside `hold`: the task may resend the old setpoint after hold's zero and
  before it is cancelled. The code promises nothing there; the session ends right after.
- What the blackbox's frames show: the next capture may replace the file that a thread is
  copying, and the code orders the two by nothing.
- The order of rows in a log: each has its time stamp, and nothing reads the order.
- The console's one-shot mode, which is one turn of the loop modelled, and Ctrl-C in it.
- The heartbeat monitor prints what it hears and commands nothing; probes, charts,
  benchmarks and set-up scripts are run by hand.

## 8. What is left

The parts of the plan that carry the control path are done. A team that goes on would
take, in this order:

1. The agent loop composed with `CognitionCall` and with what the controller promises, so
   that its liveness rests on theirs and not on an assumption of its own.
2. `balanced_json_slice` against a reference definition of balance, with a fold.
3. `HeartbeatMonitor`: exit codes against the telemetry seen.
