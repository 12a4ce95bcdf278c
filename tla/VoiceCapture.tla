----------------------------- MODULE VoiceCapture -----------------------------
(***************************************************************************)
(* One capture of AudioModule (src/audio/audio_module.py): the audio       *)
(* thread delivers blocks, the event loop puts them into a queue, and      *)
(* _capture_voice_chunk takes them out, waits for the onset of speech and  *)
(* ends on silence or at a limit.                                          *)
(*                                                                         *)
(* The clock counts blocks of block_duration_s since the stream was        *)
(* opened.  A coroutine that can go on does so within MaxStall blocks; so  *)
(* blocks may pile up in the queue.  A block that wait_for invents when    *)
(* nothing arrives is one sample long: it counts for the silence and adds  *)
(* nothing to the recording.                                               *)
(***************************************************************************)
EXTENDS Naturals, Sequences

CONSTANTS
  ListenTimeout,    \* listen_timeout_s, in blocks like all that follow
  MaxRecord,        \* max_record_s
  TrailingSilence,  \* trailing_silence_s
  MinRecord,        \* min_record_s
  Poll,             \* the timeout of one queue.get, 0.25 s
  MaxStall          \* how long the event loop may be kept from the capture

ASSUME CaptureAssumption ==
  /\ {ListenTimeout, MaxRecord, TrailingSilence, Poll} \subseteq Nat \ {0}
  /\ {MinRecord, MaxStall} \subseteq Nat

VARIABLES
  capture,    \* "off", "waiting" in queue.get, or "over" with an outcome not yet taken
  clock,      \* blocks since the stream was opened
  late,       \* for how long the capture has been able to go on and did not
  queue,      \* the blocks delivered and not yet taken
  delivered,  \* how many blocks the stream has delivered
  deadline,   \* when the present queue.get gives up
  speech,     \* speech_started, speech_started_at and last_speech_at
  chunks,     \* the numbers of the recorded blocks
  voice       \* history: the number of the first block with voice, or 0

captureVars == <<capture, clock, late, queue, delivered, deadline, speech, chunks, voice>>

NoSpeech == [started |-> FALSE, at |-> 0, last |-> 0]

CaptureInit ==
  /\ capture = "off"
  /\ clock = 0 /\ late = 0 /\ deadline = 0
  /\ queue = <<>> /\ delivered = 0
  /\ speech = NoSpeech
  /\ chunks = <<>>
  /\ voice = 0

-----------------------------------------------------------------------------
(* The reader *)

\* Mutant: only silence ends a recording.
ExhaustedBySilence(s) ==
  \/ ~s.started /\ clock >= ListenTimeout
  \/ s.started /\ clock - s.last >= TrailingSilence

\* The tests of _next_audio_chunk before it waits.
Exhausted(s) ==
  \/ ~s.started /\ clock >= ListenTimeout
  \/ s.started /\ clock - s.at >= MaxRecord
  \/ s.started /\ clock - s.last >= TrailingSilence

\* The next turn of the loop: the capture ends, or waits again.
NextTurn(s) ==
  IF Exhausted(s)
  THEN capture' = "over" /\ UNCHANGED deadline
  ELSE capture' = "waiting" /\ deadline' = clock + Poll

\* The stream is opened; nothing has been heard yet.
OpenStream ==
  /\ capture = "off"
  /\ capture' = "waiting"
  /\ clock' = 0 /\ late' = 0 /\ deadline' = Poll
  /\ queue' = <<>> /\ delivered' = 0
  /\ speech' = NoSpeech
  /\ chunks' = <<>>
  /\ voice' = 0

\* What the loop makes of a block: the first one with voice is the onset, and each one
\* with voice puts off the end.
Hear(voiced) ==
  IF voiced
  THEN [started |-> TRUE, at |-> IF speech.started THEN speech.at ELSE clock, last |-> clock]
  ELSE speech

\* Mutant: the block that starts the recording is not part of it.
TakeAfterOnset ==
  /\ capture = "waiting" /\ queue # <<>>
  /\ LET block == Head(queue)
         heard == Hear(block.voiced)
     IN  /\ speech' = heard
         /\ chunks' = IF speech.started THEN Append(chunks, block.number) ELSE chunks
         /\ NextTurn(heard)
  /\ queue' = Tail(queue)
  /\ late' = 0
  /\ UNCHANGED <<clock, delivered, voice>>

Take ==
  /\ capture = "waiting" /\ queue # <<>>
  /\ LET block == Head(queue)
         heard == Hear(block.voiced)
     IN  /\ speech' = heard
         /\ chunks' = IF heard.started THEN Append(chunks, block.number) ELSE chunks
         /\ NextTurn(heard)
  /\ queue' = Tail(queue)
  /\ late' = 0
  /\ UNCHANGED <<clock, delivered, voice>>

\* Mutant: queue.get is awaited without a timeout, so only a block ends the wait.
PollExpiresNever ==
  /\ capture = "waiting" /\ clock >= deadline /\ queue # <<>>
  /\ NextTurn(speech)
  /\ late' = 0
  /\ UNCHANGED <<clock, queue, delivered, speech, chunks, voice>>

\* wait_for gives up; a block that arrives at that moment stays in the queue.
PollExpires ==
  /\ capture = "waiting" /\ clock >= deadline
  /\ NextTurn(speech)
  /\ late' = 0
  /\ UNCHANGED <<clock, queue, delivered, speech, chunks, voice>>

\* _validated_audio: whether the capture has a recording to return.
Recorded == speech.started /\ Len(chunks) > 0 /\ Len(chunks) >= MinRecord

\* _capture_voice_chunk returns and its locals are gone.
Return ==
  /\ capture = "over"
  /\ capture' = "off"
  /\ clock' = 0 /\ late' = 0 /\ deadline' = 0
  /\ queue' = <<>> /\ delivered' = 0
  /\ speech' = NoSpeech
  /\ chunks' = <<>>
  /\ voice' = 0

-----------------------------------------------------------------------------
(* Time and the audio thread *)

CanGoOn == capture = "waiting" /\ (queue # <<>> \/ clock >= deadline)

\* One block of time passes.  The device delivers a block, or nothing if it has failed.
Tick ==
  /\ capture = "waiting"
  /\ CanGoOn => late < MaxStall
  /\ clock' = clock + 1
  /\ late' = IF CanGoOn THEN late + 1 ELSE 0
  /\ \/ UNCHANGED <<queue, delivered, voice>>
     \/ \E voiced \in BOOLEAN :
          /\ delivered' = delivered + 1
          /\ queue' = Append(queue, [number |-> delivered', voiced |-> voiced])
          /\ voice' = IF voiced /\ voice = 0 THEN delivered' ELSE voice
  /\ UNCHANGED <<capture, deadline, speech, chunks>>

CaptureStep == Take \/ PollExpires

CaptureNext == OpenStream \/ CaptureStep \/ Tick \/ Return

-----------------------------------------------------------------------------
(* Properties *)

Blocks == [number : Nat \ {0}, voiced : BOOLEAN]

\* Types of the capture's variables.
CaptureTypeOK ==
  /\ capture \in {"off", "waiting", "over"}
  /\ clock \in Nat /\ late \in 0..MaxStall /\ deadline \in Nat
  /\ queue \in Seq(Blocks) /\ delivered \in Nat
  /\ speech \in [started : BOOLEAN, at : Nat, last : Nat]
  /\ chunks \in Seq(Nat)
  /\ voice \in Nat

\* A recording begins with the first block that has voice and holds every block taken
\* from there on, in the order in which the device delivered them: none is lost between
\* the audio thread and the reader, whatever the timeouts in between.
RecordingFaithful ==
  /\ Len(chunks) > 0 => chunks[1] = voice
  /\ \A i \in 1..Len(chunks) : chunks[i] = chunks[1] + i - 1
  /\ Len(chunks) > 0 /\ queue # <<>> => queue[1].number = chunks[Len(chunks)] + 1

\* A capture is over in time although it looks at the clock only between two waits:
\* silence takes at most the listening limit, and speech at most the recording limit,
\* and each at most one wait and one stall more.
CaptureBounded ==
  /\ capture = "waiting" /\ ~speech.started => clock < ListenTimeout + Poll + MaxStall
  /\ capture = "waiting" /\ speech.started  => clock < speech.at + MaxRecord + Poll + MaxStall
=============================================================================
