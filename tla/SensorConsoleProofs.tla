------------------------- MODULE SensorConsoleProofs -------------------------
(***************************************************************************)
(* The operator's console for every number of commands and cameras and for *)
(* every setting of the capture's limits: nothing is left open, a capture  *)
(* is bounded, and verdicts and frames belong to the command they are      *)
(* shown or sent with.                                                     *)
(***************************************************************************)
EXTENDS SensorConsole, TLAPS

-----------------------------------------------------------------------------
(* What is open, and where *)

\* A resource is held only in the steps that use it.
Held ==
  /\ capture # "off" => at = "listening"
  /\ wav => at \in {"writing", "asr"}
  /\ child => at = "asr"
  /\ camera => at \in {"probing", "shooting"}

LEMMA InitHeld == Init => Held
BY DEF Init, CaptureInit, Held

\* Steps of the prompt find everything closed, and open at most the microphone.
LEMMA PromptHeld ==
  Held /\ (TypeCommand \/ PressEnter \/ Quit \/ ServerExecutes) => Held'
BY DEF Held, TypeCommand, PressEnter, Quit, ServerExecutes, TakeUp, OpenStream, Crash, captureVars,
       speechVars, imageVars

\* Recording and transcribing let go of what they hold, whether they succeed or raise.
LEMMA SpeechHeld ==
  Held /\ (Listening \/ Captured \/ WhisperEnds \/ FixedRecorded \/ AsrStarts \/ AsrEnds) => Held'
<1> SUFFICES ASSUME Held,
                    Listening \/ Captured \/ WhisperEnds \/ FixedRecorded \/ AsrStarts \/ AsrEnds
             PROVE  Held'
  OBVIOUS
<1> USE DEF Held
<1>1. CASE Listening
  BY <1>1 DEF Listening, consoleVars
<1>2. CASE Captured
  BY <1>2 DEF Captured, Return, speechVars
<1>3. CASE WhisperEnds
  BY <1>3 DEF WhisperEnds, captureVars, speechVars
<1>4. CASE FixedRecorded \/ AsrStarts \/ AsrEnds
  BY <1>4 DEF FixedRecorded, AsrStarts, AsrEnds, Crash, captureVars, imageVars
<1> QED
  BY <1>1, <1>2, <1>3, <1>4

\* The camera is released by the step that reads from it.
LEMMA ImageHeld ==
  Held /\ (ProbeOpens \/ ProbeReads \/ ShotOpens \/ ShotEnds \/ Post \/ Answered \/ PostFails \/ Log)
    => Held'
BY DEF Held, ProbeOpens, ProbeReads, ShotOpens, ShotEnds, Post, Answered, PostFails, Log,
       CommandFails, Prompt, captureVars, speechVars, imageVars

LEMMA HeldHolds == Spec => []Held
<1>1. Held /\ [Next]_vars => Held'
  <2>1. Held /\ UNCHANGED vars => Held'
    BY DEF Held, vars, captureVars, consoleVars
  <2> QED
    BY <2>1, PromptHeld, SpeechHeld, ImageHeld DEF Next, ConsoleStep
<1> QED
  BY <1>1, InitHeld, PTL DEF Spec

\* However a command ends, microphone, camera, file and subprocess are gone with it.
THEOREM NothingLeftOpenHolds == Spec => []NothingLeftOpen
<1>1. Held => NothingLeftOpen
  BY DEF Held, NothingLeftOpen, Resting
<1> QED
  BY <1>1, HeldHolds, PTL

-----------------------------------------------------------------------------
(* The frame that is sent *)

\* Before the request and while it waits, the frame is the one of this command.
FrameIsCurrent ==
  /\ at = "posting" /\ NeedsFrame(text) => frame = command
  /\ PayloadIsCurrent

\* A command starts over, with a frame to be taken or none needed.
LEMMA ProcessFrame ==
  ASSUME NEW t, Process(t), UNCHANGED mode PROVE FrameIsCurrent'
<1>1. at' = "posting" => ~NeedsFrame(t)
  BY DEF Process
<1>2. text' = t /\ (NeedsFrame(text)' <=> NeedsFrame(t)) /\ at' # "waiting"
  BY DEF Process, NeedsFrame
<1> QED
  BY <1>1, <1>2 DEF FrameIsCurrent, PayloadIsCurrent

\* A failed capture is never followed by a request, and a request carries what was taken.
LEMMA NextFrame == FrameIsCurrent /\ [Next]_vars => FrameIsCurrent'
<1> SUFFICES ASSUME FrameIsCurrent, [Next]_vars PROVE FrameIsCurrent'
  OBVIOUS
<1> USE DEF FrameIsCurrent, PayloadIsCurrent
<1>1. CASE TypeCommand
  BY <1>1, ProcessFrame DEF TypeCommand
<1>2. CASE WhisperEnds \/ AsrEnds
  BY <1>2, ProcessFrame DEF WhisperEnds, AsrEnds, Transcribed, Prompt, Crash
<1>3. CASE at' \notin {"posting", "waiting"}
  BY <1>3
<1>4. CASE ShotEnds
  BY <1>4 DEF ShotEnds, CommandFails, Prompt
<1>5. CASE Post
  BY <1>5 DEF Post, NeedsFrame
<1>6. CASE ServerExecutes \/ UNCHANGED vars
  BY <1>6 DEF ServerExecutes, vars, consoleVars, imageVars, NeedsFrame
<1>7. Quit \/ PressEnter \/ Listening \/ Captured \/ FixedRecorded \/ AsrStarts \/ ProbeOpens
        \/ ProbeReads \/ ShotOpens \/ Answered \/ PostFails \/ Log
      => at' \notin {"posting", "waiting"}
  BY DEF Quit, PressEnter, Listening, Captured, FixedRecorded, AsrStarts, ProbeOpens, ProbeReads,
         ShotOpens, Answered, PostFails, Log, CommandFails, Prompt, Crash, consoleVars
<1> QED
  BY <1>1, <1>2, <1>3, <1>4, <1>5, <1>6, <1>7 DEF Next, ConsoleStep

\* The server is never sent a picture that was taken for another command.
THEOREM PayloadIsCurrentHolds == Spec => []PayloadIsCurrent
<1>1. Init => FrameIsCurrent
  BY DEF Init, FrameIsCurrent, PayloadIsCurrent
<1>2. FrameIsCurrent => PayloadIsCurrent
  BY DEF FrameIsCurrent
<1> QED
  BY <1>1, <1>2, NextFrame, PTL DEF Spec

-----------------------------------------------------------------------------
(* The verdict that is shown *)

Numbers == 1..MaxCommands
BeforePost == {"listening", "transcribing", "recording", "writing", "asr", "probing", "shooting", "posting"}

\* What was asked of the server, and what it can still decide.
AskedOnce ==
  /\ command \in 0..MaxCommands
  /\ verdict \in [Numbers -> Verdicts \cup {"none"}]
  /\ pending \subseteq {n \in Numbers : n <= command /\ verdict[n] = "none"}
  /\ \A n \in Numbers : n > command => verdict[n] = "none"
  /\ at \in BeforePost => command \in Numbers /\ verdict[command] = "none" /\ command \notin pending
  /\ at \in {"waiting", "logging"} => command \in Numbers
  /\ at = "logging" => verdict[command] \in Verdicts

VerdictInv == AskedOnce /\ VerdictIsCurrent

\* A step that neither takes up a command nor asks the server.
LEMMA KeepsVerdicts ==
  ASSUME AskedOnce, UNCHANGED <<command, verdict, pending>>,
         at' \in BeforePost => at \in BeforePost,
         at' \in {"waiting", "logging"} => at' = at,
         at' = "prompt" => shown' \notin Verdicts
  PROVE  VerdictInv'
BY DEF AskedOnce, VerdictInv, VerdictIsCurrent

\* A command that is taken up has a new number, which the server has not heard of.
LEMMA TakesUp ==
  ASSUME AskedOnce, TakeUp, UNCHANGED <<verdict, pending>>, at' \in BeforePost \cup {"crashed"}
  PROVE  VerdictInv'
<1>1. MaxCommands \in Nat /\ command' = command + 1 /\ command' \in Numbers
  BY ConsoleAssumption DEF TakeUp, AskedOnce, Numbers
<1>2. AskedOnce'
  BY <1>1 DEF AskedOnce, BeforePost, Numbers
<1> QED
  BY <1>2 DEF VerdictInv, VerdictIsCurrent, BeforePost

LEMMA NextVerdict == VerdictInv /\ [Next]_vars => VerdictInv'
<1> SUFFICES ASSUME VerdictInv, [Next]_vars PROVE VerdictInv'
  OBVIOUS
<1> USE DEF VerdictInv
<1>1. CASE TypeCommand \/ PressEnter
  BY <1>1, TakesUp DEF TypeCommand, PressEnter, Process, Crash, BeforePost, serverVars
<1>2. CASE Quit \/ Captured \/ WhisperEnds \/ FixedRecorded \/ AsrStarts \/ AsrEnds \/ ShotOpens
           \/ ProbeOpens \/ ProbeReads \/ ShotEnds \/ PostFails
  <2>1. UNCHANGED <<command, verdict, pending>>
    BY <1>2 DEF Quit, Captured, WhisperEnds, FixedRecorded, AsrStarts, AsrEnds, ShotOpens,
                ProbeOpens, ProbeReads, ShotEnds, PostFails, serverVars
  <2>2. at' \in BeforePost => at \in BeforePost
    BY <1>2 DEF Quit, Captured, WhisperEnds, FixedRecorded, AsrStarts, AsrEnds, ShotOpens,
                ProbeOpens, ProbeReads, ShotEnds, PostFails, BeforePost, Prompt, CommandFails
  <2>3. at' \notin {"waiting", "logging"} /\ (at' = "prompt" => shown' \notin Verdicts)
    BY <1>2 DEF Quit, Captured, WhisperEnds, FixedRecorded, AsrStarts, AsrEnds, ShotOpens,
                ProbeOpens, ProbeReads, ShotEnds, PostFails, Transcribed, Process, Crash, Prompt,
                CommandFails, Verdicts
  <2> QED
    BY <2>1, <2>2, <2>3, KeepsVerdicts
<1>3. CASE Listening \/ UNCHANGED vars
  <2>1. UNCHANGED <<at, command, verdict, pending, shown, rows>>
    BY <1>3 DEF Listening, vars, consoleVars, serverVars, outcomeVars
  <2> QED
    BY <2>1 DEF AskedOnce, VerdictIsCurrent
<1>4. CASE Post
  <2>1. command \in Numbers /\ verdict[command] = "none" /\ UNCHANGED <<command, verdict>>
    BY <1>4 DEF Post, AskedOnce, BeforePost
  <2>2. pending' = pending \cup {command} /\ at' = "waiting"
    BY <1>4 DEF Post
  <2> QED
    BY <2>1, <2>2, ConsoleAssumption DEF AskedOnce, VerdictIsCurrent, BeforePost, Numbers
<1>5. CASE ServerExecutes
  <2>1. PICK n \in pending, v \in Verdicts :
          verdict' = [verdict EXCEPT ![n] = v] /\ pending' = pending \ {n}
    BY <1>5 DEF ServerExecutes
  <2>2. UNCHANGED <<at, command, shown, rows>>
    BY <1>5 DEF ServerExecutes, outcomeVars
  <2>3. n \in Numbers /\ n <= command /\ verdict[n] = "none"
    BY <2>1 DEF AskedOnce
  <2>4. AskedOnce'
    <3> USE DEF AskedOnce
    <3>1. command' \in 0..MaxCommands /\ verdict' \in [Numbers -> Verdicts \cup {"none"}]
      BY <2>1, <2>2
    <3>2. pending' \subseteq {m \in Numbers : m <= command' /\ verdict'[m] = "none"}
      BY <2>1, <2>2
    <3>3. \A m \in Numbers : m > command' => verdict'[m] = "none"
      <4> SUFFICES ASSUME NEW m \in Numbers, m > command PROVE verdict'[m] = "none"
        BY <2>2
      <4>1. m # n
        BY <2>3, ConsoleAssumption DEF Numbers
      <4> QED
        BY <2>1, <4>1
    <3>4. at \in BeforePost => n # command
      BY <2>1
    <3> QED
      BY <2>1, <2>2, <3>1, <3>2, <3>3, <3>4 DEF BeforePost
  <2>5. VerdictIsCurrent'
    <3> SUFFICES ASSUME at = "prompt", shown \in Verdicts
                 PROVE  verdict'[command] = shown /\ command \in rows
      BY <2>2 DEF VerdictIsCurrent
    <3>1. verdict[command] = shown /\ command \in rows
      BY DEF VerdictIsCurrent
    <3>2. n # command
      BY <2>3, <3>1 DEF Verdicts
    <3> QED
      BY <2>1, <3>1, <3>2 DEF AskedOnce
  <2> QED
    BY <2>4, <2>5
<1>6. CASE Answered
  <2>1. UNCHANGED <<command, verdict, pending>> /\ at = "waiting" /\ at' = "logging"
    BY <1>6 DEF Answered, serverVars
  <2>2. verdict[command] \in Verdicts
    BY <1>6 DEF Answered
  <2> QED
    BY <2>1, <2>2 DEF AskedOnce, VerdictIsCurrent, BeforePost
<1>7. CASE Log
  <2>1. UNCHANGED <<command, verdict, pending>> /\ at' = "prompt"
    BY <1>7 DEF Log, CommandFails, Prompt, serverVars
  <2>2. \/ shown' = "error"
        \/ shown' = verdict[command] /\ command \in rows'
    BY <1>7 DEF Log, CommandFails, Prompt
  <2>3. AskedOnce'
    BY <2>1 DEF AskedOnce, BeforePost
  <2>4. VerdictIsCurrent'
    BY <2>1, <2>2 DEF VerdictIsCurrent, Verdicts
  <2> QED
    BY <2>3, <2>4
<1> QED
  BY <1>1, <1>2, <1>3, <1>4, <1>5, <1>6, <1>7 DEF Next, ConsoleStep

LEMMA VerdictInvHolds == Spec => []VerdictInv
<1>1. Init => VerdictInv
  BY ConsoleAssumption DEF Init, VerdictInv, AskedOnce, VerdictIsCurrent, Numbers, BeforePost, Verdicts
<1> QED
  BY <1>1, NextVerdict, PTL DEF Spec

\* An answer that is shown is the answer to the command given last, and is in the log.
THEOREM VerdictIsCurrentHolds == Spec => []VerdictIsCurrent
<1>1. VerdictInv => VerdictIsCurrent
  BY DEF VerdictInv
<1> QED
  BY <1>1, VerdictInvHolds, PTL

-----------------------------------------------------------------------------
(* What a step of the console does to the capture *)

\* The steps of the capture, or none of them.
LEMMA CaptureMoves == [Next]_vars => CaptureNext \/ UNCHANGED captureVars
BY DEF vars, Next, ConsoleStep, TypeCommand, PressEnter, Quit, ServerExecutes, Listening, Captured,
       WhisperEnds, FixedRecorded, AsrStarts, AsrEnds, ProbeOpens, ProbeReads, ShotOpens, ShotEnds,
       Post, Answered, PostFails, Log, CaptureNext

-----------------------------------------------------------------------------
(* The length of a capture *)

Clocks ==
  /\ clock \in Nat /\ deadline \in Nat
  /\ late \in 0..MaxStall
  /\ speech \in [started : BOOLEAN, at : Nat, last : Nat]

\* The wait for a block began before the limit, and the clock is past its deadline by at
\* most the time for which the capture was kept from going on.
WaitBounded ==
  capture = "waiting" =>
    /\ clock <= deadline + late
    /\ ~speech.started => deadline < ListenTimeout + Poll
    /\ speech.started => deadline < speech.at + MaxRecord + Poll

TimingInv == Clocks /\ WaitBounded

\* A turn of the loop that waits again has found the limit not yet reached.
LEMMA NextTurnBounded ==
  ASSUME Clocks, NEW s \in [started : BOOLEAN, at : Nat, last : Nat],
         NextTurn(s), speech' = s, late' = 0, clock' = clock
  PROVE  TimingInv'
<1>1. CASE Exhausted(s)
  BY <1>1, CaptureAssumption DEF NextTurn, Clocks, WaitBounded, TimingInv
<1>2. CASE ~Exhausted(s)
  <2>1. capture' = "waiting" /\ deadline' = clock + Poll
    BY <1>2 DEF NextTurn
  <2>2. /\ ~s.started => clock < ListenTimeout
        /\ s.started => clock < s.at + MaxRecord
    BY <1>2, CaptureAssumption DEF Exhausted, Clocks
  <2>3. Clocks'
    BY <2>1, CaptureAssumption DEF Clocks
  <2>4. WaitBounded'
    BY <2>1, <2>2, CaptureAssumption DEF WaitBounded, Clocks
  <2> QED
    BY <2>3, <2>4 DEF TimingInv
<1> QED
  BY <1>1, <1>2

LEMMA CaptureTiming == TimingInv /\ CaptureNext => TimingInv'
<1> SUFFICES ASSUME TimingInv, CaptureNext PROVE TimingInv'
  OBVIOUS
<1> USE CaptureAssumption
<1>1. CASE OpenStream \/ Return
  <2>1. /\ clock' = 0 /\ late' = 0 /\ speech' = NoSpeech
        /\ \/ capture' = "waiting" /\ deadline' = Poll
           \/ capture' = "off" /\ deadline' = 0
    BY <1>1 DEF OpenStream, Return
  <2>2. Clocks'
    BY <2>1 DEF Clocks, NoSpeech
  <2>3. ~speech'.started
    BY <2>1 DEF NoSpeech
  <2>4. WaitBounded'
    BY <2>1, <2>3 DEF WaitBounded
  <2> QED
    BY <2>2, <2>4 DEF TimingInv
<1>2. CASE Take
  <2>1. PICK voiced : /\ speech' = Hear(voiced)
                      /\ NextTurn(Hear(voiced))
    BY <1>2 DEF Take
  <2>2. Hear(voiced) \in [started : BOOLEAN, at : Nat, last : Nat]
    BY DEF Hear, TimingInv, Clocks
  <2> QED
    BY <1>2, <2>1, <2>2, NextTurnBounded DEF Take, TimingInv
<1>3. CASE PollExpires
  BY <1>3, NextTurnBounded DEF PollExpires, TimingInv, Clocks
<1>4. CASE Tick
  <2>1. capture = "waiting" /\ clock' = clock + 1 /\ UNCHANGED <<capture, deadline, speech>>
    BY <1>4 DEF Tick
  <2>2. CASE CanGoOn /\ late < MaxStall /\ late' = late + 1
    BY <2>1, <2>2 DEF TimingInv, Clocks, WaitBounded
  <2>3. CASE ~CanGoOn /\ late' = 0
    <3>1. clock < deadline
      BY <2>1, <2>3 DEF CanGoOn, TimingInv, Clocks
    <3> QED
      BY <2>1, <2>3, <3>1 DEF TimingInv, Clocks, WaitBounded
  <2> QED
    BY <1>4, <2>2, <2>3 DEF Tick
<1> QED
  BY <1>1, <1>2, <1>3, <1>4 DEF CaptureNext, CaptureStep

LEMMA TimingInvHolds == Spec => []TimingInv
<1>1. Init => TimingInv
  BY CaptureAssumption DEF Init, CaptureInit, TimingInv, Clocks, WaitBounded, NoSpeech
<1>2. TimingInv /\ [Next]_vars => TimingInv'
  <2>1. TimingInv /\ UNCHANGED captureVars => TimingInv'
    BY DEF TimingInv, Clocks, WaitBounded, captureVars
  <2> QED
    BY <2>1, CaptureMoves, CaptureTiming
<1> QED
  BY <1>1, <1>2, PTL DEF Spec

\* Silence and speech have their limits, one wait and one stall added, for every setting.
THEOREM CaptureBoundedHolds == Spec => []CaptureBounded
<1>1. TimingInv => CaptureBounded
  <2> SUFFICES ASSUME TimingInv, capture = "waiting" PROVE CaptureBounded
    BY DEF CaptureBounded
  <2>1. clock <= deadline + MaxStall
    BY CaptureAssumption DEF TimingInv, Clocks, WaitBounded
  <2> QED
    BY <2>1, CaptureAssumption DEF TimingInv, Clocks, WaitBounded, CaptureBounded
<1> QED
  BY <1>1, TimingInvHolds, PTL

-----------------------------------------------------------------------------
(* What is recorded *)

\* How many blocks the reader has taken.
Taken == delivered - Len(queue)

\* The blocks in the queue are the last ones delivered, in order; voice is the first with voice.
QueueInOrder ==
  /\ delivered \in Nat /\ voice \in Nat
  /\ queue \in Seq(Blocks)
  /\ Len(queue) <= delivered
  /\ \A i \in 1..Len(queue) : queue[i].number = Taken + i
  /\ \A i \in 1..Len(queue) : queue[i].voiced => voice # 0 /\ voice <= queue[i].number
  /\ \A i \in 1..Len(queue) : voice = queue[i].number => queue[i].voiced
  /\ voice <= delivered

\* A recording runs from the first block with voice to the last one taken; without one no
\* block with voice has been taken.
RecordingInOrder ==
  /\ chunks \in Seq(Nat)
  /\ speech.started \in BOOLEAN
  /\ ~speech.started => chunks = <<>> /\ (voice # 0 => voice > Taken)
  /\ speech.started => /\ voice # 0 /\ Taken = voice + Len(chunks) - 1 /\ Len(chunks) > 0
                       /\ \A i \in 1..Len(chunks) : chunks[i] = voice + i - 1

RecordingInv == QueueInOrder /\ RecordingInOrder

LEMMA RecordingInvImplies == RecordingInv => RecordingFaithful
<1> SUFFICES ASSUME RecordingInv PROVE RecordingFaithful
  OBVIOUS
<1> USE DEF RecordingInv, QueueInOrder, RecordingInOrder
<1>1. CASE speech.started
  <2>1. chunks[1] = voice /\ chunks[Len(chunks)] = Taken
    <3>1. 1 \in 1..Len(chunks) /\ Len(chunks) \in 1..Len(chunks)
      BY <1>1
    <3>2. chunks[1] = voice + 1 - 1 /\ chunks[Len(chunks)] = voice + Len(chunks) - 1
      BY <1>1, <3>1
    <3> QED
      BY <1>1, <3>2
  <2>2. queue # <<>> => queue[1].number = Taken + 1
    BY DEF Taken
  <2> QED
    BY <1>1, <2>1, <2>2 DEF RecordingFaithful
<1>2. CASE ~speech.started
  BY <1>2 DEF RecordingFaithful
<1> QED
  BY <1>1, <1>2

\* A block is taken: either all before it were silent and it is the onset, if it has
\* voice, or it continues the recording.
LEMMA TakeKeepsRecording == RecordingInv /\ Take => RecordingInv'
<1> SUFFICES ASSUME RecordingInv, Take PROVE RecordingInv'
  OBVIOUS
<1> USE DEF RecordingInv
<1> DEFINE block == Head(queue)
<1>1. queue # <<>> /\ queue' = Tail(queue) /\ UNCHANGED <<delivered, voice>>
  BY DEF Take
<1>2. /\ block = queue[1] /\ block.number = Taken + 1 /\ block.voiced \in BOOLEAN
      /\ Len(queue') = Len(queue) - 1 /\ Taken' = Taken + 1
      /\ \A i \in 1..Len(queue') : queue'[i] = queue[i + 1]
  <2> USE DEF QueueInOrder
  <2>1. Len(queue) \in Nat \ {0} /\ 1 \in 1..Len(queue) /\ block = queue[1]
    BY <1>1
  <2>2. block.number = Taken + 1 /\ block.voiced \in BOOLEAN
    <3>1. queue[1] \in Blocks
      BY <2>1
    <3>2. queue[1].number = Taken + 1
      BY <2>1
    <3> QED
      BY <2>1, <3>1, <3>2 DEF Blocks
  <2>3. Len(queue') = Len(queue) - 1 /\ \A i \in 1..Len(queue') : queue'[i] = queue[i + 1]
    BY <1>1, <2>1
  <2>4. Taken' = Taken + 1
    BY <1>1, <2>1, <2>3 DEF Taken
  <2> QED
    BY <2>1, <2>2, <2>3, <2>4
<1>3. QueueInOrder'
  <2> USE DEF QueueInOrder
  <2>1. queue' \in Seq(Blocks) /\ Len(queue') <= delivered'
    BY <1>1, <1>2
  <2>2. ASSUME NEW i \in 1..Len(queue')
        PROVE  /\ queue'[i].number = Taken' + i
               /\ queue'[i].voiced => voice # 0 /\ voice <= queue'[i].number
               /\ voice = queue'[i].number => queue'[i].voiced
    <3>1. i + 1 \in 1..Len(queue) /\ queue'[i] = queue[i + 1]
      BY <1>2
    <3>2. queue[i + 1].number = Taken + (i + 1)
      BY <3>1
    <3>3. Taken + (i + 1) = Taken' + i
      BY <1>2 DEF Taken
    <3> QED
      BY <3>1, <3>2, <3>3
  <2> QED
    BY <1>1, <2>1, <2>2
<1>4. speech' = Hear(block.voiced)
      /\ chunks' = IF speech'.started THEN Append(chunks, block.number) ELSE chunks
  BY DEF Take
<1>5. Taken \in Nat /\ 1 \in 1..Len(queue)
  BY <1>1 DEF QueueInOrder, Taken
<1>6. RecordingInOrder'
  <2> USE DEF RecordingInOrder
  <2>1. CASE speech.started
    <3>1. speech'.started
      BY <1>4, <2>1 DEF Hear
    <3>2. chunks' = Append(chunks, Taken + 1) /\ Taken + 1 = voice + Len(chunks)
      BY <1>2, <1>4, <2>1, <3>1, <1>5 DEF QueueInOrder
    <3>3. /\ chunks' \in Seq(Nat) /\ Len(chunks') = Len(chunks) + 1
          /\ \A i \in 1..Len(chunks) : chunks'[i] = chunks[i]
          /\ chunks'[Len(chunks) + 1] = Taken + 1
      BY <1>5, <3>2
    <3>4. ASSUME NEW i \in 1..Len(chunks') PROVE chunks'[i] = voice' + i - 1
      <4>1. CASE i \in 1..Len(chunks)
        BY <1>1, <2>1, <3>3, <4>1
      <4>2. CASE i = Len(chunks) + 1
        BY <1>1, <3>2, <3>3, <4>2
      <4> QED
        BY <3>3, <4>1, <4>2
    <3>5. voice' # 0 /\ Taken' = voice' + Len(chunks') - 1 /\ Len(chunks') > 0
      BY <1>1, <1>2, <1>5, <2>1, <3>2, <3>3
    <3> QED
      BY <3>1, <3>3, <3>4, <3>5
  <2>2. CASE ~speech.started /\ block.voiced
    <3>1. speech'.started
      BY <1>4, <2>2 DEF Hear
    <3>2. voice = Taken + 1
      BY <1>2, <1>5, <2>2 DEF QueueInOrder
    <3>3. chunks' = Append(<<>>, voice) /\ voice \in Nat
      <4>1. chunks' = Append(chunks, block.number)
        BY <1>4, <3>1
      <4>2. chunks = <<>>
        BY <2>2
      <4>3. block.number = voice /\ voice \in Nat
        BY <1>2, <1>5, <3>2
      <4> HIDE DEF block
      <4> QED
        BY <4>1, <4>2, <4>3
    <3>4. chunks' \in Seq(Nat) /\ Len(chunks') = 1 /\ chunks'[1] = voice
      BY <3>3
    <3>5. \A i \in 1..Len(chunks') : chunks'[i] = voice' + i - 1
      BY <1>1, <3>3, <3>4
    <3>6. voice' # 0 /\ Taken' = voice' + Len(chunks') - 1
      BY <1>1, <1>2, <1>5, <3>2, <3>3, <3>4
    <3> QED
      BY <3>1, <3>4, <3>5, <3>6
  <2>3. CASE ~speech.started /\ ~block.voiced
    <3>1. speech' = speech /\ chunks' = chunks
      BY <1>4, <2>3 DEF Hear
    <3>2. voice # Taken + 1
      BY <1>2, <1>5, <2>3 DEF QueueInOrder
    <3> QED
      BY <1>1, <1>2, <1>5, <2>3, <3>1, <3>2 DEF QueueInOrder
  <2> QED
    BY <1>2, <2>1, <2>2, <2>3
<1> QED
  BY <1>3, <1>6

\* A block is delivered while time passes.
LEMMA TickKeepsRecording == RecordingInv /\ Tick => RecordingInv'
<1> SUFFICES ASSUME RecordingInv, Tick PROVE RecordingInv'
  OBVIOUS
<1> USE DEF RecordingInv, RecordingInOrder, QueueInOrder
<1>1. UNCHANGED <<speech, chunks>>
  BY DEF Tick
<1>2. CASE UNCHANGED <<queue, delivered, voice>>
  BY <1>1, <1>2 DEF Taken
<1>3. ASSUME NEW voiced \in BOOLEAN,
             delivered' = delivered + 1,
             queue' = Append(queue, [number |-> delivered', voiced |-> voiced]),
             voice' = IF voiced /\ voice = 0 THEN delivered' ELSE voice
      PROVE  RecordingInv'
  <2>1. Len(queue') = Len(queue) + 1 /\ Taken' = Taken /\ Taken \in Nat
    BY <1>3 DEF Taken
  <2>2. queue' \in Seq(Blocks)
    <3>1. [number |-> delivered', voiced |-> voiced] \in Blocks
      BY <1>3 DEF Blocks
    <3> QED
      BY <1>3, <3>1
  <2>3. ASSUME NEW i \in 1..Len(queue')
        PROVE  /\ queue'[i].number = Taken' + i
               /\ queue'[i].voiced => voice' # 0 /\ voice' <= queue'[i].number
               /\ voice' = queue'[i].number => queue'[i].voiced
    <3>1. CASE i \in 1..Len(queue)
      <4>1. queue'[i] = queue[i] /\ queue[i].number = Taken + i /\ Taken + i <= delivered
        BY <1>3, <3>1 DEF Taken
      <4>2. queue[i].voiced => voice' = voice /\ voice # 0 /\ voice <= queue[i].number
        BY <1>3, <3>1
      <4>3. queue[i].number < delivered' /\ voice' \in {voice, delivered'}
        BY <1>3, <2>1, <3>1, <4>1
      <4>4. voice' = queue[i].number => queue[i].voiced
        BY <1>3, <3>1, <4>3
      <4> QED
        BY <2>1, <4>1, <4>2, <4>4
    <3>2. CASE i = Len(queue) + 1
      <4>1. queue'[i] = [number |-> delivered', voiced |-> voiced]
        BY <1>3, <3>2
      <4>2. delivered' = Taken + i
        BY <1>3, <3>2 DEF Taken
      <4>3. queue'[i].number = delivered' /\ queue'[i].voiced = voiced
        BY <4>1
      <4>4. /\ voiced => voice' # 0 /\ voice' <= delivered'
            /\ voice' = delivered' => voiced
        BY <1>3
      <4> QED
        BY <2>1, <4>2, <4>3, <4>4
    <3> QED
      BY <2>1, <3>1, <3>2
  <2>4. QueueInOrder'
    <3>1. delivered' \in Nat /\ voice' \in Nat /\ voice' <= delivered' /\ Len(queue') <= delivered'
      BY <1>3, <2>1
    <3> QED
      BY <2>2, <2>3, <3>1
  <2>5. RecordingInOrder'
    <3>1. speech.started => voice' = voice
      BY <1>3
    <3>2. ~speech.started /\ voice' # 0 => voice' > Taken
      BY <1>3, <2>1 DEF Taken
    <3> QED
      BY <1>1, <2>1, <3>1, <3>2
  <2> QED
    BY <2>4, <2>5
<1> QED
  BY <1>2, <1>3 DEF Tick

LEMMA RecordingInvHolds == Spec => []RecordingInv
<1>1. Init => RecordingInv
  BY DEF Init, CaptureInit, RecordingInv, QueueInOrder, RecordingInOrder, Taken, NoSpeech
<1>2. RecordingInv /\ [Next]_vars => RecordingInv'
  <2> SUFFICES ASSUME RecordingInv, [Next]_vars PROVE RecordingInv'
    OBVIOUS
  <2>1. CASE UNCHANGED <<queue, delivered, speech, chunks, voice>>
    BY <2>1 DEF RecordingInv, QueueInOrder, RecordingInOrder, Taken
  <2>2. CASE OpenStream \/ Return
    <3>1. queue' = <<>> /\ delivered' = 0 /\ speech' = NoSpeech /\ chunks' = <<>> /\ voice' = 0
      BY <2>2 DEF OpenStream, Return
    <3>2. Len(queue') = 0 /\ ~speech'.started /\ speech'.started \in BOOLEAN
      BY <3>1 DEF NoSpeech
    <3>3. QueueInOrder'
      BY <3>1, <3>2 DEF QueueInOrder
    <3>4. RecordingInOrder'
      BY <3>1, <3>2 DEF RecordingInOrder
    <3> QED
      BY <3>3, <3>4 DEF RecordingInv
  <2> QED
    BY <2>1, <2>2, CaptureMoves, TakeKeepsRecording, TickKeepsRecording
       DEF CaptureNext, CaptureStep, PollExpires, captureVars
<1> QED
  BY <1>1, <1>2, PTL DEF Spec

\* A recording starts with the onset and has no gap, whatever the waits and stalls.
THEOREM RecordingFaithfulHolds == Spec => []RecordingFaithful
BY RecordingInvHolds, RecordingInvImplies, PTL

-----------------------------------------------------------------------------
(* Types *)

Doing == {"listening", "transcribing", "recording", "writing", "asr", "probing", "shooting",
          "posting", "waiting", "logging"}
Messages == Verdicts \cup {"none", "retry", "error"}

\* The fields that the other invariants say nothing about; a camera that is probed is
\* one of those there are.
ConsoleTypes ==
  /\ capture \in {"off", "waiting", "over"}
  /\ mode \in Modes
  /\ at \in Resting \cup Doing
  /\ text \in {"none", "plain", "visual"}
  /\ wav \in BOOLEAN /\ child \in BOOLEAN /\ camera \in BOOLEAN
  /\ probe \in 1..(Cameras + 1)
  /\ at = "probing" /\ camera => probe <= Cameras
  /\ frame \in 0..MaxCommands
  /\ payload \in [command : 0..MaxCommands, frame : 0..MaxCommands]
  /\ response \in [command : 0..MaxCommands, verdict : Verdicts \cup {"none"}]
  /\ shown \in Messages
  /\ rows \subseteq Numbers

\* The capture is off, waiting or over.
LEMMA CaptureTypes ==
  ASSUME capture \in {"off", "waiting", "over"}, [Next]_vars
  PROVE  capture' \in {"off", "waiting", "over"}
BY CaptureMoves DEF CaptureNext, CaptureStep, OpenStream, Take, PollExpires, Tick, Return, NextTurn,
   captureVars

\* Every step keeps the types: what is recorded, sent and shown carries a number in use.
LEMMA NextConsoleTypes == ConsoleTypes /\ Held /\ VerdictInv /\ [Next]_vars => ConsoleTypes'
<1> SUFFICES ASSUME ConsoleTypes, Held, VerdictInv, [Next]_vars PROVE ConsoleTypes'
  OBVIOUS
<1>1. /\ capture' \in {"off", "waiting", "over"}
      /\ command \in 0..MaxCommands /\ MaxCommands \in Nat /\ Cameras \in Nat \ {0}
      /\ verdict \in [Numbers -> Verdicts \cup {"none"}]
      /\ at \in {"waiting", "logging"} => command \in Numbers
  BY CaptureTypes, ConsoleAssumption DEF ConsoleTypes, VerdictInv, AskedOnce
<1> USE DEF ConsoleTypes, Resting, Doing, Messages
<1>2. CASE TypeCommand \/ PressEnter \/ Quit
  BY <1>1, <1>2 DEF TypeCommand, PressEnter, Quit, TakeUp, Process, Crash, Held, speechVars,
                    imageVars, serverVars, outcomeVars
<1>3. CASE Listening \/ Captured \/ ServerExecutes \/ UNCHANGED vars
  BY <1>1, <1>3 DEF Listening, Captured, ServerExecutes, vars, consoleVars, Prompt, speechVars,
                    imageVars, serverVars, outcomeVars
<1>4. CASE WhisperEnds \/ AsrEnds
  <2>1. /\ ~camera /\ wav' \in BOOLEAN /\ child' \in BOOLEAN
        /\ UNCHANGED <<mode, camera, frame, payload>>
    BY <1>4 DEF WhisperEnds, AsrEnds, Held, speechVars, serverVars
  <2>2. CASE \E t \in {"plain", "visual"} : Process(t)
    <3>1. at' \in {"posting", "probing", "shooting"}
      BY <2>2 DEF Process, Modes
    <3> QED
      BY <1>1, <2>1, <2>2, <3>1 DEF Process, outcomeVars
  <2>3. CASE Prompt("retry") /\ text' = "none" /\ UNCHANGED <<probe, response, rows>>
    BY <1>1, <2>1, <2>3 DEF Prompt
  <2>4. CASE Crash /\ UNCHANGED probe
    BY <1>1, <2>1, <2>4 DEF Crash, outcomeVars
  <2> QED
    BY <1>4, <2>2, <2>3, <2>4 DEF WhisperEnds, AsrEnds, Transcribed
<1>5. CASE FixedRecorded \/ AsrStarts
  BY <1>1, <1>5 DEF FixedRecorded, AsrStarts, Crash, imageVars, serverVars, outcomeVars
<1>6. CASE ProbeOpens
  BY <1>1, <1>6 DEF ProbeOpens, CommandFails, Prompt, speechVars, serverVars, outcomeVars
<1>7. CASE ProbeReads
  <2>1. probe' \in 1..(Cameras + 1)
    BY <1>1, <1>7 DEF ProbeReads
  <2> QED
    BY <1>1, <1>7, <2>1 DEF ProbeReads, CommandFails, Prompt, speechVars, serverVars, outcomeVars
<1>8. CASE ShotOpens
  BY <1>1, <1>8 DEF ShotOpens, speechVars, serverVars, outcomeVars
<1>9. CASE ShotEnds
  BY <1>1, <1>9 DEF ShotEnds, CommandFails, Prompt, speechVars, serverVars, outcomeVars
<1>10. CASE Post
  BY <1>1, <1>10 DEF Post, speechVars, imageVars, outcomeVars
<1>11. CASE Answered \/ PostFails
  BY <1>1, <1>11 DEF Answered, PostFails, CommandFails, Prompt, speechVars, imageVars, serverVars,
                    outcomeVars
<1>12. CASE Log
  BY <1>1, <1>12 DEF Log, CommandFails, Prompt, VerdictInv, AskedOnce, speechVars, imageVars,
                    serverVars
<1> QED
  BY <1>2, <1>3, <1>4, <1>5, <1>6, <1>7, <1>8, <1>9, <1>10, <1>11, <1>12 DEF Next, ConsoleStep

\* The console's variables keep their types, for every number of commands and of cameras.
THEOREM TypeCorrect == Spec => []TypeOK
<1>1. Init => ConsoleTypes
  <2> SUFFICES ASSUME Init PROVE ConsoleTypes
    OBVIOUS
  <2>1. probe \in 1..(Cameras + 1) /\ 0 \in 0..MaxCommands
    BY ConsoleAssumption DEF Init
  <2>2. /\ payload \in [command : 0..MaxCommands, frame : 0..MaxCommands]
        /\ response \in [command : 0..MaxCommands, verdict : Verdicts \cup {"none"}]
    BY <2>1 DEF Init, NoResponse
  <2> QED
    BY <2>1, <2>2 DEF Init, CaptureInit, ConsoleTypes, Resting, Messages, Numbers
<1>2. ConsoleTypes /\ TimingInv /\ RecordingInv /\ VerdictInv => TypeOK
  <2> SUFFICES ASSUME ConsoleTypes, TimingInv, RecordingInv, VerdictInv PROVE TypeOK
    OBVIOUS
  <2>1. CaptureTypeOK
    BY DEF ConsoleTypes, TimingInv, Clocks, RecordingInv, QueueInOrder, RecordingInOrder,
           CaptureTypeOK
  <2>2. /\ command \in 0..MaxCommands /\ pending \subseteq 1..MaxCommands
        /\ verdict \in [1..MaxCommands -> Verdicts \cup {"none"}]
    BY DEF VerdictInv, AskedOnce, Numbers
  <2> QED
    BY <2>1, <2>2 DEF ConsoleTypes, TypeOK, Resting, Doing, Messages, Numbers
<1> QED
  BY <1>1, <1>2, NextConsoleTypes, HeldHolds, VerdictInvHolds, TimingInvHolds, RecordingInvHolds, PTL
     DEF Spec
=============================================================================
