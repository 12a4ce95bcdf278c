------------------------------- MODULE LogFiles -------------------------------
(***************************************************************************)
(* The files the system logs to, and what happens to them while they are   *)
(* written: src/monitoring/telemetry_logger.py, the transaction log of     *)
(* src/perception/transaction_log.py, the monitor of                       *)
(* src/tools/jetson_monitor.py and scripts/reset_demo_logs.sh.             *)
(*                                                                         *)
(* A behaviour is about one log, of one kind.  "telemetry": the CSV file   *)
(* of TelemetryCsvLogger, to which each writer, a process of its own,      *)
(* appends a row.  "performance": the CSV file of PerformanceLogger, to    *)
(* which threads append for the tasks of one event loop, which closes the  *)
(* logger or ends without it.  "sessions": the directory of                *)
(* BlackboxLogger, likewise, with two files per record.  "jetson": the CSV *)
(* file of the monitor, which is opened once and kept open.  "cognition":  *)
(* the text to which the engines of workers append a block each, the       *)
(* workers that were given up among them; it has no header.  A file is     *)
(* what the path named when it was opened: moving it away changes nothing  *)
(* for who has it open.                                                    *)
(***************************************************************************)
EXTENDS Naturals, Sequences, FiniteSets

CONSTANTS
  Writers,    \* the rows, or for the monitor the processes, that are written
  Samples,    \* bound on the samples of a monitor
  MaxResets   \* bound on the runs of the reset script

ASSUME LogAssumption == Samples \in Nat /\ MaxResets \in Nat

VARIABLES
  kind,       \* which log this behaviour is about
  path,       \* the file the path names, or 0
  stored,     \* the contents of each file, in the order of their creation
  pc,         \* where each writer is
  header,     \* write_header of each writer
  handle,     \* the file each writer has open, or 0
  samples,    \* how many samples each monitor has written
  status,     \* of the event loop's logger: "open", "closing", "closed"; "ended": the loop
              \* is over without a close
  pending,    \* _pending_tasks: the writers whose task the loop has not seen done
  awaited,    \* the writers that close awaits
  resets,     \* how often the script has moved the log away
  tested,     \* history: resets at the time each writer looked at the path
  overtaken,  \* history: the files opened by a writer that had looked before a reset
  parted      \* history: the writers whose frame and record a reset came between

logVars == <<path, stored>>
writerVars == <<pc, header, handle, samples, tested>>
closeVars == <<status, pending, awaited>>
resetVars == <<resets, overtaken, parted>>
vars == <<kind, logVars, writerVars, closeVars, resetVars>>

Kinds == {"telemetry", "performance", "sessions", "jetson", "cognition"}
Finished == {"stored", "failed"}

Init ==
  /\ kind \in Kinds
  /\ IF kind = "sessions" THEN path = 1 /\ stored = <<<<>>>> ELSE path = 0 /\ stored = <<>>
  /\ pc = [w \in Writers |-> "idle"]
  /\ header = [w \in Writers |-> FALSE]
  /\ handle = [w \in Writers |-> 0]
  /\ samples = [w \in Writers |-> 0]
  /\ status = "open"
  /\ pending = {}
  /\ awaited = {}
  /\ resets = 0
  /\ tested = [w \in Writers |-> 0]
  /\ overtaken = {}
  /\ parted = {}

Header == [what |-> "header", by |-> 0, number |-> 0]
Row(w, n) == [what |-> "row", by |-> w, number |-> n]
Frame(w) == [what |-> "jpg", by |-> w, number |-> 0]
Record(w) == [what |-> "json", by |-> w, number |-> 0]

Append_to(f, entries) == stored' = [stored EXCEPT ![f] = @ \o entries]

GoTo(w, where) == pc' = [pc EXCEPT ![w] = where]

-----------------------------------------------------------------------------
(* The event loop of "performance" and "sessions" *)

\* The logs whose writes are tasks of an event loop.
ByTask == kind \in {"performance", "sessions"}

FirstStep == CASE kind = "sessions" -> "frame"
               [] kind = "cognition" -> "open"
               [] OTHER -> "exists"

\* log_event, log_run or log_inference, or the monitor is started.
Begin(w) ==
  /\ pc[w] = "idle"
  /\ status = "open"
  /\ GoTo(w, IF ByTask THEN "queued" ELSE FirstStep)
  /\ pending' = IF ByTask THEN pending \cup {w} ELSE pending
  /\ tested' = [tested EXCEPT ![w] = resets]
  /\ UNCHANGED <<kind, logVars, header, handle, samples, status, awaited, resetVars>>

\* The task has started, and a thread of the pool takes its call up.
TakeUp(w) ==
  /\ pc[w] = "queued"
  /\ GoTo(w, FirstStep)
  /\ UNCHANGED <<kind, logVars, header, handle, samples, tested, closeVars, resetVars>>

\* The loop hears that the thread has returned or raised: _on_write_done.
TaskDone(w) ==
  /\ w \in pending
  /\ pc[w] \in Finished
  /\ pending' = pending \ {w}
  /\ UNCHANGED <<kind, logVars, writerVars, status, awaited, resetVars>>

\* Mutant: close awaits the writes that a thread has in hand.
closeStarted ==
  /\ ByTask
  /\ status = "open"
  /\ status' = "closing"
  /\ awaited' = {w \in pending : pc[w] # "queued"}
  /\ UNCHANGED <<kind, logVars, writerVars, pending, resetVars>>

\* close gathers the tasks that are pending.
close ==
  /\ ByTask
  /\ status = "open"
  /\ status' = "closing"
  /\ awaited' = pending
  /\ UNCHANGED <<kind, logVars, writerVars, pending, resetVars>>

Closed ==
  /\ status = "closing"
  /\ awaited \cap pending = {}
  /\ status' = "closed"
  /\ UNCHANGED <<kind, logVars, writerVars, pending, awaited, resetVars>>

\* The loop ends before close has returned: a close before it has raised, or a second
\* Ctrl-C.  asyncio.run cancels every task; a call that no thread has taken up is lost
\* with its task, the threads go on.
LoopEnds ==
  /\ ByTask
  /\ status \in {"open", "closing"}
  /\ status' = "ended"
  /\ pc' = [w \in Writers |-> IF pc[w] = "queued" THEN "lost" ELSE pc[w]]
  /\ pending' = {}
  /\ UNCHANGED <<kind, logVars, header, handle, samples, tested, awaited, resetVars>>

-----------------------------------------------------------------------------
(* _append_row, and the beginning of monitor *)

\* The first half of the test for a header: path.exists().
TestExists(w) ==
  /\ pc[w] = "exists"
  /\ GoTo(w, IF path = 0 THEN "open" ELSE "size")
  /\ header' = [header EXCEPT ![w] = (path = 0)]
  /\ tested' = [tested EXCEPT ![w] = resets]
  /\ UNCHANGED <<kind, logVars, handle, samples, closeVars, resetVars>>

\* Mutant: a file that exists has its header.
TestSizeTrusting(w) ==
  /\ pc[w] = "size"
  /\ GoTo(w, IF path = 0 THEN "failed" ELSE "open")
  /\ UNCHANGED <<kind, logVars, header, handle, samples, tested, closeVars, resetVars>>

\* The second half: path.stat().st_size, which raises if the file has gone meanwhile.
TestSize(w) ==
  /\ pc[w] = "size"
  /\ \/ path = 0 /\ GoTo(w, "failed") /\ UNCHANGED header
     \/ /\ path # 0
        /\ GoTo(w, "open")
        /\ header' = [header EXCEPT ![w] = (stored[path] = <<>>)]
  /\ UNCHANGED <<kind, logVars, handle, samples, tested, closeVars, resetVars>>

\* Mutant: the file is opened for writing and not for appending.
OpenTruncates(w) ==
  /\ pc[w] = "open"
  /\ \/ path # 0 /\ UNCHANGED path /\ stored' = [stored EXCEPT ![path] = <<>>]
     \/ path = 0 /\ path' = Len(stored) + 1 /\ stored' = Append(stored, <<>>)
  /\ handle' = [handle EXCEPT ![w] = path']
  /\ overtaken' = IF tested[w] = resets THEN overtaken ELSE overtaken \cup {path'}
  /\ GoTo(w, "write")
  /\ UNCHANGED <<kind, header, samples, tested, closeVars, resets, parted>>

\* open("a") makes the file if there is none.
Open(w) ==
  /\ pc[w] = "open"
  /\ \/ path # 0 /\ UNCHANGED logVars
     \/ path = 0 /\ path' = Len(stored) + 1 /\ stored' = Append(stored, <<>>)
  /\ handle' = [handle EXCEPT ![w] = path']
  /\ overtaken' = IF tested[w] = resets THEN overtaken ELSE overtaken \cup {path'}
  /\ GoTo(w, "write")
  /\ UNCHANGED <<kind, header, samples, tested, closeVars, resets, parted>>

Heading(w) == IF header[w] THEN <<Header>> ELSE <<>>

\* The header, if any, and the row are buffered and reach the file together when it is closed.
Write(w) ==
  /\ pc[w] = "write" /\ kind \in {"telemetry", "performance", "cognition"}
  /\ Append_to(handle[w], Heading(w) \o <<Row(w, 1)>>)
  /\ GoTo(w, "stored")
  /\ handle' = [handle EXCEPT ![w] = 0]
  /\ UNCHANGED <<kind, path, header, samples, tested, closeVars, resetVars>>

\* Opening or writing raises: no space, no permission.
WriteFails(w) ==
  /\ pc[w] \in {"open", "write", "frame", "record"}
  /\ GoTo(w, "failed")
  /\ handle' = [handle EXCEPT ![w] = 0]
  /\ UNCHANGED <<kind, logVars, header, samples, tested, closeVars, resetVars>>

-----------------------------------------------------------------------------
(* The rest of monitor *)

\* A sample of tegrastats is written and flushed; the first takes the header with it.
Sample(w) ==
  /\ pc[w] = "write" /\ kind = "jetson" /\ samples[w] < Samples
  /\ Append_to(handle[w], Heading(w) \o <<Row(w, samples[w] + 1)>>)
  /\ header' = [header EXCEPT ![w] = FALSE]
  /\ samples' = [samples EXCEPT ![w] = @ + 1]
  /\ UNCHANGED <<kind, path, pc, handle, tested, closeVars, resetVars>>

\* The deadline, Ctrl-C, or no tegrastats: the file is closed, and a header that was not
\* flushed yet goes with it.
Stop(w) ==
  /\ pc[w] = "write" /\ kind = "jetson"
  /\ Append_to(handle[w], Heading(w))
  /\ GoTo(w, "stored")
  /\ handle' = [handle EXCEPT ![w] = 0]
  /\ UNCHANGED <<kind, path, header, samples, tested, closeVars, resetVars>>

-----------------------------------------------------------------------------
(* _write_bundle of BlackboxLogger *)

\* Mutant: a frame that cannot be written is passed over.
WriteFrameUnchecked(w) ==
  /\ pc[w] = "frame" /\ path # 0
  /\ stored' \in {stored, [stored EXCEPT ![path] = @ \o <<Frame(w)>>]}
  /\ GoTo(w, "record")
  /\ tested' = [tested EXCEPT ![w] = resets]
  /\ UNCHANGED <<kind, path, header, handle, samples, closeVars, resetVars>>

\* The frame, or a placeholder for it, and then the record that names it, each under the
\* directory's name at that moment; without a directory the write raises.
WriteFrame(w) ==
  /\ pc[w] = "frame" /\ path # 0
  /\ Append_to(path, <<Frame(w)>>)
  /\ GoTo(w, "record")
  /\ tested' = [tested EXCEPT ![w] = resets]
  /\ UNCHANGED <<kind, path, header, handle, samples, closeVars, resetVars>>

WriteRecord(w) ==
  /\ pc[w] = "record" /\ path # 0
  /\ Append_to(path, <<Record(w)>>)
  /\ GoTo(w, "stored")
  /\ parted' = IF tested[w] = resets THEN parted ELSE parted \cup {w}
  /\ UNCHANGED <<kind, path, header, handle, samples, tested, closeVars, resets, overtaken>>

-----------------------------------------------------------------------------
(* reset_demo_logs.sh *)

\* mv, for a file or a directory that exists.
Archive ==
  /\ path # 0
  /\ resets < MaxResets
  /\ resets' = resets + 1
  /\ path' = 0
  /\ UNCHANGED <<kind, stored, writerVars, closeVars, overtaken, parted>>

\* mkdir -p, which follows for the directory.
Recreate ==
  /\ kind = "sessions" /\ path = 0
  /\ path' = Len(stored) + 1
  /\ stored' = Append(stored, <<>>)
  /\ UNCHANGED <<kind, writerVars, closeVars, resetVars>>

-----------------------------------------------------------------------------

WriterStep(w) ==
  \/ TestExists(w) \/ TestSize(w) \/ Open(w) \/ Write(w) \/ WriteFails(w)
  \/ Sample(w) \/ Stop(w)
  \/ WriteFrame(w) \/ WriteRecord(w)

Next ==
  \/ \E w \in Writers : Begin(w) \/ TakeUp(w) \/ WriterStep(w) \/ TaskDone(w)
  \/ close \/ Closed \/ LoopEnds
  \/ Archive \/ Recreate

Spec == Init /\ [][Next]_vars

-----------------------------------------------------------------------------
(* Properties *)

Entries == {Header} \cup [what : {"row", "jpg", "json"}, by : Writers, number : Nat]

\* Types of the files and their writers.
TypeOK ==
  /\ kind \in Kinds
  /\ stored \in Seq(Seq(Entries))
  /\ path \in 0..Len(stored)
  /\ pc \in [Writers -> Finished \cup {"idle", "queued", "lost", "exists", "size", "open", "write", "frame", "record"}]
  /\ header \in [Writers -> BOOLEAN]
  /\ handle \in [Writers -> 0..Len(stored)]
  /\ samples \in [Writers -> 0..Samples]
  /\ status \in {"open", "closing", "closed", "ended"}
  /\ pending \subseteq Writers
  /\ awaited \subseteq Writers
  /\ resets \in 0..MaxResets
  /\ tested \in [Writers -> 0..MaxResets]
  /\ overtaken \subseteq 1..Len(stored)
  /\ parted \subseteq Writers

\* A CSV file begins with its header, whoever else appends to it or has just created it
\* and whatever the script moves away.  The one exception is a file opened by a writer
\* that had looked at the path before the script moved the log.
HeaderFirst ==
  \A f \in 1..Len(stored) :
    (kind \notin {"sessions", "cognition"} /\ f \notin overtaken /\ stored[f] # <<>>) => stored[f][1] = Header

\* The places at which an entry is stored.
Places(entry) ==
  UNION {{<<f, i>> : i \in {j \in 1..Len(stored[f]) : stored[f][j] = entry}} : f \in 1..Len(stored)}

\* What a writer has written so far.
Written(w) ==
  CASE kind = "jetson" -> {Row(w, n) : n \in 1..samples[w]}
    [] kind \in {"telemetry", "performance", "cognition"} /\ pc[w] = "stored" -> {Row(w, 1)}
    [] kind = "sessions" /\ pc[w] = "record" -> {Frame(w)}
    [] kind = "sessions" /\ pc[w] = "stored" -> {Frame(w), Record(w)}
    [] OTHER -> {}

StoredIn(entry, f) == \E i \in 1..Len(stored[f]) : stored[f][i] = entry

\* What was written is stored exactly once, in the log or in the archive, also when others
\* write at the same time or the log is moved in between.  A record of the blackbox has
\* its frame beside it, in the same directory, unless the script came between its two
\* writes: then the frame is in the archive and the record in a directory made since.
WrittenOnce ==
  \A w \in Writers :
    /\ \A entry \in Written(w) : Cardinality(Places(entry)) = 1
    /\ \A f \in 1..Len(stored) :
         StoredIn(Record(w), f) =>
           \/ StoredIn(Frame(w), f)
           \/ w \in parted /\ \E g \in 1..(f - 1) : StoredIn(Frame(w), g)

\* When close returns, what was logged is stored or has failed: the set of pending tasks
\* never misses a write, whether no thread has taken it up yet or the loop has not heard
\* of its end.  Records are lost only by a loop that ends without its close, and then
\* only those no thread had taken up.
ClosedMeansWritten ==
  /\ status = "closed" => \A w \in Writers : pc[w] \in Finished \cup {"idle"}
  /\ (ByTask /\ status \in {"open", "closing"})
       => \A w \in Writers : pc[w] \notin Finished \cup {"idle"} => w \in pending
=============================================================================
