---------------------------- MODULE SensorConsole ----------------------------
(***************************************************************************)
(* The operator's console on the Mac, src/tools/mac_sensor_client.py with  *)
(* --interactive: a command is typed or spoken, a frame is taken if it     *)
(* needs one, the request is posted to the server, and the verdict is      *)
(* logged and shown.  Speech goes through AudioModule (VoiceCapture) or    *)
(* through a recording of fixed length and a subprocess; the camera        *)
(* through src/perception/vision_module.py.  The server is the executor of *)
(* requests, at a moment of its own; CognitionServer has its inside.       *)
(***************************************************************************)
EXTENDS VoiceCapture

CONSTANTS
  MaxCommands,  \* bound on the commands of one session
  Cameras       \* how many indices resolve_camera_index probes

ASSUME ConsoleAssumption == MaxCommands \in Nat /\ Cameras \in Nat \ {0}

VARIABLES
  mode,      \* the options: audio_mode, effective_image_mode, whether the camera is searched for
  at,        \* what the console is doing
  command,   \* the number of the command taken up last
  text,      \* its words: "none", "plain", or "visual" (is_visual_command)
  wav,       \* the temporary recording exists
  child,     \* the transcription subprocess runs
  camera,    \* a capture device is open
  probe,     \* the next position in the probe order
  frame,     \* the command whose frame frame_path holds, or 0
  payload,   \* what was posted last: the command and the command its frame was taken for, or 0
  pending,   \* the requests the server has and did not execute yet
  verdict,   \* what the server decided, by command
  response,  \* the variable of that name: the last response, with its command
  shown,     \* what the operator was told last
  rows       \* the commands with a row in the telemetry log

consoleVars == <<mode, at, command, text, wav, child, camera, probe, frame, payload, pending,
                 verdict, response, shown, rows>>
vars == <<captureVars, consoleVars>>

Modes == [audio : {"vad", "fixed"}, images : {"never", "auto", "always"}, search : BOOLEAN]
Verdicts == {"accepted", "rejected"}
NoResponse == [command |-> 0, verdict |-> "none"]

Init ==
  /\ CaptureInit
  /\ mode \in Modes
  /\ at = "prompt"
  /\ command = 0
  /\ text = "none"
  /\ wav = FALSE /\ child = FALSE /\ camera = FALSE
  /\ probe = 1 /\ frame = 0
  /\ payload = [command |-> 0, frame |-> 0]
  /\ pending = {}
  /\ verdict = [n \in 1..MaxCommands |-> "none"]
  /\ response = NoResponse
  /\ shown = "none"
  /\ rows = {}

speechVars == <<wav, child>>
imageVars == <<camera, probe, frame>>
serverVars == <<payload, pending, verdict>>
outcomeVars == <<response, shown, rows>>

-----------------------------------------------------------------------------
(* How a step of run_interactive_console ends *)

\* The loop asks for the next command after telling the operator something.
Prompt(message) ==
  /\ at' = "prompt"
  /\ shown' = message

\* Mutant: the except clause does not continue, and the summary of an older response is printed.
CommandFailsThrough ==
  /\ Prompt(IF response.command = 0 THEN "error" ELSE response.verdict)
  /\ UNCHANGED <<response, rows>>

\* An exception in process_command: the console says so and stays alive.
CommandFails ==
  /\ Prompt("error")
  /\ UNCHANGED <<response, rows>>

\* An exception while recording or transcribing, which no handler covers, ends the program.
Crash ==
  /\ at' = "crashed"
  /\ UNCHANGED <<text, outcomeVars>>

NeedsFrame(t) == mode.images = "always" \/ (mode.images = "auto" /\ t = "visual")

\* process_command begins: maybe_capture_image.
Process(t) ==
  /\ text' = t
  /\ probe' = 1
  /\ at' = CASE ~NeedsFrame(t) -> "posting"
             [] NeedsFrame(t) /\ mode.search -> "probing"
             [] NeedsFrame(t) /\ ~mode.search -> "shooting"
  /\ UNCHANGED outcomeVars

\* What transcribe_from_microphone returned: words, or nothing after clean_transcript.
Transcribed ==
  \/ \E t \in {"plain", "visual"} : Process(t)
  \/ Prompt("retry") /\ text' = "none" /\ UNCHANGED <<probe, response, rows>>

-----------------------------------------------------------------------------
(* The prompt *)

TakeUp ==
  /\ at = "prompt" /\ command < MaxCommands
  /\ command' = command + 1

TypeCommand ==
  /\ TakeUp
  /\ \E t \in {"plain", "visual"} : Process(t)
  /\ UNCHANGED <<captureVars, mode, speechVars, camera, frame, serverVars>>

\* An empty line: AudioModule opens the microphone, or the fixed recording begins; either
\* may raise.
PressEnter ==
  /\ TakeUp
  /\ \/ /\ mode.audio = "vad" /\ OpenStream
        /\ at' = "listening" /\ UNCHANGED <<text, outcomeVars>>
     \/ /\ mode.audio = "fixed" /\ at' = "recording"
        /\ UNCHANGED <<captureVars, text, outcomeVars>>
     \/ Crash /\ UNCHANGED captureVars
  /\ UNCHANGED <<mode, speechVars, imageVars, serverVars>>

Quit ==
  /\ at = "prompt"
  /\ at' = "ended"
  /\ UNCHANGED <<captureVars, mode, command, text, speechVars, imageVars, serverVars, outcomeVars>>

-----------------------------------------------------------------------------
(* Speech *)

\* transcribe_audio with the samples of the capture, or None.
Captured ==
  /\ at = "listening"
  /\ Return
  /\ \/ Recorded /\ at' = "transcribing" /\ UNCHANGED <<text, probe, outcomeVars>>
     \/ ~Recorded /\ Prompt("retry") /\ text' = "none" /\ UNCHANGED <<probe, response, rows>>
  /\ UNCHANGED <<mode, command, speechVars, camera, frame, serverVars>>

\* faster-whisper in this process: loading the model or transcribing may raise.
WhisperEnds ==
  /\ at = "transcribing"
  /\ Transcribed \/ (Crash /\ UNCHANGED probe)
  /\ UNCHANGED <<captureVars, mode, command, speechVars, camera, frame, serverVars>>

\* sounddevice has recorded, and the temporary file is made.
FixedRecorded ==
  /\ at = "recording"
  /\ \/ at' = "writing" /\ wav' = TRUE /\ UNCHANGED <<text, outcomeVars>>
     \/ Crash /\ UNCHANGED wav
  /\ UNCHANGED <<captureVars, mode, command, child, imageVars, serverVars>>

\* write_wav, and the subprocess starts; if either raises the file is removed.
AsrStarts ==
  /\ at = "writing"
  /\ \/ at' = "asr" /\ child' = TRUE /\ UNCHANGED <<wav, text, outcomeVars>>
     \/ Crash /\ wav' = FALSE /\ UNCHANGED child
  /\ UNCHANGED <<captureVars, mode, command, imageVars, serverVars>>

\* The subprocess ends, or is killed at asr_timeout; its file is removed in any case.
\* Failure, the timeout and unreadable output count as no text; output that is no object raises.
AsrEnds ==
  /\ at = "asr"
  /\ child' = FALSE
  /\ wav' = FALSE
  /\ Transcribed \/ (Crash /\ UNCHANGED probe)
  /\ UNCHANGED <<captureVars, mode, command, camera, frame, serverVars>>

-----------------------------------------------------------------------------
(* The frame *)

\* resolve_camera_index opens the next camera, or raises when there is none left.
ProbeOpens ==
  /\ at = "probing" /\ ~camera
  /\ \/ /\ probe <= Cameras /\ camera' = TRUE
        /\ UNCHANGED <<at, outcomeVars>>
     \/ probe > Cameras /\ CommandFails /\ UNCHANGED camera
  /\ UNCHANGED <<captureVars, mode, command, text, speechVars, probe, frame, serverVars>>

\* Mutant: the camera is released only where no frame came.
ProbeReadsKeeps ==
  /\ at = "probing" /\ camera
  /\ \/ at' = "shooting" /\ UNCHANGED <<camera, probe, outcomeVars>>
     \/ probe' = probe + 1 /\ camera' = FALSE /\ UNCHANGED <<at, outcomeVars>>
     \/ CommandFails /\ UNCHANGED <<camera, probe>>
  /\ UNCHANGED <<captureVars, mode, command, text, speechVars, frame, serverVars>>

\* It reads a frame: this camera, the next one, or an exception; the camera is released.
ProbeReads ==
  /\ at = "probing" /\ camera
  /\ camera' = FALSE
  /\ \/ at' = "shooting" /\ UNCHANGED <<probe, outcomeVars>>
     \/ probe' = probe + 1 /\ UNCHANGED <<at, outcomeVars>>
     \/ CommandFails /\ UNCHANGED probe
  /\ UNCHANGED <<captureVars, mode, command, text, speechVars, frame, serverVars>>

\* VisionModule opens the camera anew.
ShotOpens ==
  /\ at = "shooting" /\ ~camera
  /\ camera' = TRUE
  /\ UNCHANGED <<captureVars, mode, at, command, text, speechVars, probe, frame, serverVars,
                 outcomeVars>>

\* Mutant: a failed capture is ignored, as the agent loop does, and the file is sent as it is.
ShotEndsRegardless ==
  /\ at = "shooting" /\ camera
  /\ camera' = FALSE
  /\ at' = "posting"
  /\ frame' \in {frame, command}
  /\ UNCHANGED <<captureVars, mode, command, text, speechVars, probe, serverVars, outcomeVars>>

\* The frame is read, resized and written over the last one; or the camera does not open,
\* yields nothing, or the file cannot be written.
ShotEnds ==
  /\ at = "shooting" /\ camera
  /\ camera' = FALSE
  /\ \/ at' = "posting" /\ frame' = command /\ UNCHANGED outcomeVars
     \/ CommandFails /\ frame' \in {frame, command}
  /\ UNCHANGED <<captureVars, mode, command, text, speechVars, probe, serverVars>>

-----------------------------------------------------------------------------
(* The request *)

\* build_payload and post_json, up to the wait.
Post ==
  /\ at = "posting"
  /\ at' = "waiting"
  /\ payload' = [command |-> command, frame |-> IF NeedsFrame(text) THEN frame ELSE 0]
  /\ pending' = pending \cup {command}
  /\ UNCHANGED <<captureVars, mode, command, text, speechVars, imageVars, verdict, outcomeVars>>

\* The server executes a request, also one whose client has given up.
ServerExecutes ==
  /\ \E n \in pending, v \in Verdicts :
       /\ verdict' = [verdict EXCEPT ![n] = v]
       /\ pending' = pending \ {n}
  /\ UNCHANGED <<captureVars, mode, at, command, text, speechVars, imageVars, payload, outcomeVars>>

Answered ==
  /\ at = "waiting" /\ verdict[command] \in Verdicts
  /\ at' = "logging"
  /\ UNCHANGED <<captureVars, mode, command, text, speechVars, imageVars, serverVars, outcomeVars>>

\* An HTTP error, a refused connection or the timeout.
PostFails ==
  /\ at = "waiting"
  /\ CommandFails
  /\ UNCHANGED <<captureVars, mode, command, text, speechVars, imageVars, serverVars>>

\* The debug image is saved and the row appended, or one of them raises; then the verdict
\* is shown.
Log ==
  /\ at = "logging"
  /\ \/ /\ rows' = rows \cup {command}
        /\ response' = [command |-> command, verdict |-> verdict[command]]
        /\ Prompt(verdict[command])
     \/ CommandFails
  /\ UNCHANGED <<captureVars, mode, command, text, speechVars, imageVars, serverVars>>

-----------------------------------------------------------------------------

\* While the console listens, the capture goes on.
Listening ==
  /\ at = "listening"
  /\ CaptureStep \/ Tick
  /\ UNCHANGED consoleVars

ConsoleStep ==
  \/ Listening \/ Captured \/ WhisperEnds
  \/ FixedRecorded \/ AsrStarts \/ AsrEnds
  \/ ProbeOpens \/ ProbeReads \/ ShotOpens \/ ShotEnds
  \/ Post \/ Answered \/ PostFails \/ Log

Next == TypeCommand \/ PressEnter \/ Quit \/ ServerExecutes \/ ConsoleStep

Spec == Init /\ [][Next]_vars

\* Everything the console waits for returns or has a timeout; the operator need not come
\* back, and the server need not answer.
FairSpec == Spec /\ WF_vars(ConsoleStep)

-----------------------------------------------------------------------------
(* Properties *)

Resting == {"prompt", "ended", "crashed"}

\* Types of the console's variables.
TypeOK ==
  /\ CaptureTypeOK
  /\ mode \in Modes
  /\ at \in Resting \cup {"listening", "transcribing", "recording", "writing", "asr",
                          "probing", "shooting", "posting", "waiting", "logging"}
  /\ command \in 0..MaxCommands
  /\ text \in {"none", "plain", "visual"}
  /\ {wav, child, camera} \subseteq BOOLEAN
  /\ probe \in 1..(Cameras + 1)
  /\ frame \in 0..MaxCommands
  /\ payload \in [command : 0..MaxCommands, frame : 0..MaxCommands]
  /\ pending \subseteq 1..MaxCommands
  /\ verdict \in [1..MaxCommands -> Verdicts \cup {"none"}]
  /\ response \in [command : 0..MaxCommands, verdict : Verdicts \cup {"none"}]
  /\ shown \in Verdicts \cup {"none", "retry", "error"}
  /\ rows \subseteq 1..MaxCommands

\* Whichever step failed, nothing is left behind when the operator is asked again or the
\* program ends: no open microphone or camera, no temporary file, no subprocess.
NothingLeftOpen ==
  at \in Resting => capture = "off" /\ ~wav /\ ~child /\ ~camera

\* A verdict shown is the one the server reached on the command given last, and its row
\* is in the log: no failure makes the console repeat an older answer.
VerdictIsCurrent ==
  (at = "prompt" /\ shown \in Verdicts) => verdict[command] = shown /\ command \in rows

\* The server never judges by an old picture: a request whose words call for a frame
\* carries the frame taken for it, although the file is the same for all and captures fail.
PayloadIsCurrent ==
  (at = "waiting" /\ NeedsFrame(text)) => payload = [command |-> command, frame |-> command]

\* Every command is over some time: the operator is asked again, or the program has ended.
PromptReturns == at \notin Resting ~> at \in Resting
=============================================================================
