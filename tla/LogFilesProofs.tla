---------------------------- MODULE LogFilesProofs ----------------------------
(***************************************************************************)
(* The log files for any number of writers, samples and resets: a log that *)
(* is closed has nothing under way, a CSV file begins with its header, and *)
(* what was written is stored exactly once, a record beside its frame.     *)
(***************************************************************************)
EXTENDS LogFiles, FiniteSetTheorems, TLAPS

-----------------------------------------------------------------------------
(* close *)

AtRest == Finished \cup {"idle"}

\* Where a writer can be.
Whereabouts ==
  AtRest \cup {"queued", "lost", "exists", "size", "open", "write", "frame", "record"}

\* Only a loop closes its logger, and close awaits every task that is still pending.
Closing ==
  /\ pc \in [Writers -> Whereabouts]
  /\ status \in {"open", "closing", "closed", "ended"}
  /\ status # "open" => ByTask
  /\ status = "closing" => pending \subseteq awaited
  /\ ClosedMeansWritten

\* A writer that is at rest takes no step of its own, and no step of a writer makes its
\* task one the loop has seen done.
LEMMA RestIsFinal ==
  ASSUME NEW w \in Writers, pc \in [Writers -> Whereabouts], TakeUp(w) \/ WriterStep(w)
  PROVE  /\ pc[w] \notin AtRest
         /\ pc' \in [Writers -> Whereabouts]
         /\ \A v \in Writers \ {w} : pc'[v] = pc[v]
         /\ UNCHANGED <<kind, closeVars>>
BY DEF TakeUp, FirstStep, WriterStep, TestExists, TestSize, Open, Write, WriteFails, Sample, Stop,
       WriteFrame, WriteRecord, GoTo, AtRest, Finished, Whereabouts, closeVars

LEMMA NextClosing == Closing /\ [Next]_vars => Closing'
<1> SUFFICES ASSUME Closing, [Next]_vars PROVE Closing'
  OBVIOUS
<1> USE DEF Closing, ClosedMeansWritten, ByTask
<1>1. ASSUME NEW w \in Writers, Begin(w) PROVE Closing'
  <2>1. /\ status = "open" /\ pc[w] = "idle" /\ UNCHANGED <<kind, status, awaited>>
        /\ pc' \in [Writers -> Whereabouts]
        /\ \A v \in Writers \ {w} : pc'[v] = pc[v]
        /\ pending' = IF ByTask THEN pending \cup {w} ELSE pending
    BY <1>1 DEF Begin, FirstStep, GoTo, Whereabouts
  <2> QED
    BY <2>1
<1>2. ASSUME NEW w \in Writers, TakeUp(w) \/ WriterStep(w) PROVE Closing'
  <2>1. pc[w] \notin AtRest /\ UNCHANGED <<kind, status, pending, awaited>>
    BY <1>2, RestIsFinal DEF closeVars
  <2>2. status # "closed" /\ (ByTask /\ status \in {"open", "closing"} => w \in pending)
    BY <2>1 DEF AtRest
  <2>3. pc' \in [Writers -> Whereabouts] /\ \A v \in Writers \ {w} : pc'[v] = pc[v]
    BY <1>2, RestIsFinal
  <2> QED
    BY <2>1, <2>2, <2>3
<1>3. ASSUME NEW w \in Writers, TaskDone(w) PROVE Closing'
  BY <1>3 DEF TaskDone, writerVars
<1>4. CASE close
  BY <1>4 DEF close, writerVars
<1>5. CASE Closed
  <2>1. /\ status = "closing" /\ pending = {} /\ status' = "closed"
        /\ UNCHANGED <<kind, pc, pending, awaited>>
    BY <1>5 DEF Closed, writerVars
  <2> QED
    BY <2>1
<1>6. CASE LoopEnds
  <2>1. /\ ByTask /\ status' = "ended" /\ kind' = kind
        /\ pc' = [w \in Writers |-> IF pc[w] = "queued" THEN "lost" ELSE pc[w]]
    BY <1>6 DEF LoopEnds
  <2>2. pc' \in [Writers -> Whereabouts]
    BY <2>1 DEF Whereabouts
  <2> QED
    BY <2>1, <2>2
<1>7. CASE Archive \/ Recreate \/ UNCHANGED vars
  BY <1>7 DEF Archive, Recreate, vars, writerVars, closeVars
<1> QED
  BY <1>1, <1>2, <1>3, <1>4, <1>5, <1>6, <1>7 DEF Next

\* When close has returned, what was logged is stored or has failed, and until then no
\* write is missing from the pending tasks, for any number of tasks and wherever in the
\* pool, the file or the loop each of them is.
THEOREM ClosedMeansWrittenHolds == Spec => []ClosedMeansWritten
<1>1. Init => Closing
  BY DEF Init, Closing, ClosedMeansWritten, AtRest, Finished, Whereabouts
<1>2. Closing => ClosedMeansWritten
  BY DEF Closing
<1> QED
  BY <1>1, <1>2, NextClosing, PTL DEF Spec

-----------------------------------------------------------------------------
(* Types *)

\* The files and what each writer has in its hands.
Files ==
  /\ stored \in Seq(Seq(Entries))
  /\ path \in 0..Len(stored)
  /\ handle \in [Writers -> 0..Len(stored)]
  /\ \A w \in Writers : pc[w] = "write" => handle[w] # 0

Counters ==
  /\ pc \in [Writers -> Whereabouts]
  /\ header \in [Writers -> BOOLEAN]
  /\ samples \in [Writers -> Nat]
  /\ resets \in Nat
  /\ tested \in [Writers -> 0..resets]
  /\ overtaken \subseteq Nat

Typed == Files /\ Counters

LEMMA EntryTypes ==
  ASSUME NEW w \in Writers, NEW n \in Nat
  PROVE  /\ Header \in Entries /\ Row(w, n) \in Entries /\ Frame(w) \in Entries /\ Record(w) \in Entries
         /\ <<Row(w, n)>> \in Seq(Entries) /\ <<Frame(w)>> \in Seq(Entries) /\ <<Record(w)>> \in Seq(Entries)
BY DEF Entries, Header, Row, Frame, Record

LEMMA HeadingType ==
  ASSUME NEW w \in Writers PROVE Heading(w) \in Seq(Entries)
<1>1. Header \in Entries
  BY DEF Entries
<1>2. <<Header>> \in Seq(Entries) /\ <<>> \in Seq(Entries)
  BY <1>1
<1>3. CASE header[w]
  BY <1>2, <1>3 DEF Heading
<1>4. CASE ~header[w]
  BY <1>2, <1>4 DEF Heading
<1> QED
  BY <1>3, <1>4

\* Appending to a file changes no other and none of the beginnings.
LEMMA Appended ==
  ASSUME stored \in Seq(Seq(Entries)), NEW f \in 1..Len(stored), NEW entries \in Seq(Entries),
         Append_to(f, entries)
  PROVE  /\ stored' \in Seq(Seq(Entries)) /\ Len(stored') = Len(stored)
         /\ \A g \in 1..Len(stored) : g # f => stored'[g] = stored[g]
         /\ stored'[f] = stored[f] \o entries
         /\ stored[f] # <<>> => stored'[f] # <<>> /\ stored'[f][1] = stored[f][1]
         /\ entries # <<>> => stored'[f] # <<>>
         /\ stored[f] = <<>> /\ entries # <<>> => stored'[f][1] = entries[1]
<1>1. stored[f] \in Seq(Entries)
  OBVIOUS
<1>2. stored[f] \o entries \in Seq(Entries)
  BY <1>1
<1>3. stored' = [stored EXCEPT ![f] = stored[f] \o entries]
  BY DEF Append_to
<1>4. stored' \in Seq(Seq(Entries)) /\ Len(stored') = Len(stored)
  BY <1>2, <1>3
<1>5. stored'[f] = stored[f] \o entries /\ \A g \in 1..Len(stored) : g # f => stored'[g] = stored[g]
  BY <1>3
<1>6. /\ stored[f] # <<>> => stored[f] \o entries # <<>> /\ (stored[f] \o entries)[1] = stored[f][1]
      /\ entries # <<>> => stored[f] \o entries # <<>>
      /\ stored[f] = <<>> /\ entries # <<>> => (stored[f] \o entries)[1] = entries[1]
  BY <1>1
<1> QED
  BY <1>4, <1>5, <1>6

-----------------------------------------------------------------------------
(* HeaderFirst *)

\* A writer that is about to append to a file without a header knows that it is not empty,
\* unless the script has moved the log since it looked.
Knowing ==
  /\ \A w \in Writers : pc[w] = "write" /\ handle[w] \notin overtaken
                          => header[w] \/ stored[handle[w]] # <<>>
  /\ \A w \in Writers : pc[w] = "open" /\ tested[w] = resets /\ ~header[w]
                          => path # 0 /\ stored[path] # <<>>
  /\ \A w \in Writers : pc[w] \notin {"frame", "record"}

Headed ==
  \A f \in 1..Len(stored) : f \notin overtaken /\ stored[f] # <<>> => stored[f][1] = Header

CSV == kind \notin {"sessions", "cognition"}

HeaderInv == Typed /\ (CSV => Knowing /\ Headed)

\* What a writer's append does to the invariant: it brings the header or the file has one.
LEMMA AppendKeeps ==
  ASSUME Typed, CSV, Knowing, Headed, NEW w \in Writers, pc[w] = "write",
         NEW rows \in Seq(Entries), Append_to(handle[w], Heading(w) \o rows),
         UNCHANGED overtaken
  PROVE  /\ stored' \in Seq(Seq(Entries)) /\ Len(stored') = Len(stored)
         /\ \A f \in 1..Len(stored) : stored[f] # <<>> => stored'[f] # <<>>
         /\ rows # <<>> => stored'[handle[w]] # <<>>
         /\ Headed'
<1> DEFINE f == handle[w]
           entries == Heading(w) \o rows
<1>1. f \in 1..Len(stored) /\ stored \in Seq(Seq(Entries))
  BY DEF Typed, Files
<1>2. Heading(w) \in Seq(Entries) /\ entries \in Seq(Entries)
  BY HeadingType
<1>3. rows # <<>> => entries # <<>>
  BY <1>2
<1>4. header[w] => entries # <<>> /\ entries[1] = Header
  <2>1. SUFFICES ASSUME header[w] PROVE entries # <<>> /\ entries[1] = Header
    OBVIOUS
  <2>2. Heading(w) = <<Header>>
    BY <2>1 DEF Heading
  <2> QED
    BY <2>2, <1>2
<1>5. /\ stored' \in Seq(Seq(Entries)) /\ Len(stored') = Len(stored)
      /\ \A g \in 1..Len(stored) : g # f => stored'[g] = stored[g]
      /\ stored[f] # <<>> => stored'[f] # <<>> /\ stored'[f][1] = stored[f][1]
      /\ entries # <<>> => stored'[f] # <<>>
      /\ stored[f] = <<>> /\ entries # <<>> => stored'[f][1] = entries[1]
  BY <1>1, <1>2, Appended
<1>6. ASSUME f \notin overtaken, stored'[f] # <<>> PROVE stored'[f][1] = Header
  <2>1. header[w] \/ stored[f] # <<>>
    BY <1>6 DEF Knowing
  <2>2. CASE stored[f] # <<>>
    BY <2>2, <1>1, <1>5, <1>6 DEF Headed
  <2>3. CASE stored[f] = <<>>
    BY <2>1, <2>3, <1>4, <1>5
  <2> QED
    BY <2>2, <2>3
<1>7. Headed'
  BY <1>1, <1>5, <1>6 DEF Headed
<1> QED
  BY <1>1, <1>3, <1>5, <1>7

\* Open makes a file that is empty, or takes the one the path names.
LEMMA OpenKeeps ==
  ASSUME HeaderInv, NEW w \in Writers, Open(w) PROVE HeaderInv'
<1>1. /\ stored \in Seq(Seq(Entries)) /\ path \in 0..Len(stored)
      /\ handle \in [Writers -> 0..Len(stored)]
      /\ \A v \in Writers : pc[v] = "write" => handle[v] # 0
      /\ Counters
  BY DEF HeaderInv, Typed, Files
<1>2. <<>> \in Seq(Entries)
  OBVIOUS
<1>3. /\ stored' \in Seq(Seq(Entries)) /\ Len(stored') >= Len(stored) /\ Len(stored') \in Nat
      /\ path' \in 1..Len(stored')
      /\ \A f \in 1..Len(stored) : stored'[f] = stored[f]
      /\ \A f \in 1..Len(stored') : f \notin 1..Len(stored) => stored'[f] = <<>>
      /\ path # 0 => path' = path
  <2>1. CASE path # 0 /\ UNCHANGED logVars
    BY <2>1, <1>1 DEF logVars
  <2>2. CASE path = 0 /\ path' = Len(stored) + 1 /\ stored' = Append(stored, <<>>)
    BY <2>2, <1>1, <1>2
  <2> QED
    BY <2>1, <2>2 DEF Open
<1>4. /\ handle' = [handle EXCEPT ![w] = path'] /\ pc' = [pc EXCEPT ![w] = "write"]
      /\ overtaken' = IF tested[w] = resets THEN overtaken ELSE overtaken \cup {path'}
      /\ pc[w] = "open" /\ UNCHANGED <<kind, header, samples, tested, resets>>
  BY DEF Open, GoTo
<1>5. Typed'
  <2>1. Files'
    BY <1>1, <1>3, <1>4 DEF Files, Counters
  <2>2. Counters'
    BY <1>1, <1>3, <1>4 DEF Counters, Whereabouts, AtRest, Finished
  <2> QED
    BY <2>1, <2>2 DEF Typed
<1>6. ASSUME CSV PROVE Knowing' /\ Headed'
  <2>1. Knowing /\ Headed
    BY <1>6 DEF HeaderInv
  <2>2. tested[w] = resets => header[w] \/ (path # 0 /\ stored[path] # <<>>)
    BY <2>1, <1>4 DEF Knowing
  <2>3. overtaken \subseteq overtaken' /\ (tested[w] # resets => path' \in overtaken')
    BY <1>4
  <2>4. Headed'
    BY <2>1, <2>3, <1>3 DEF Headed
  <2>5. ASSUME NEW v \in Writers, pc'[v] = "write", handle'[v] \notin overtaken'
        PROVE  header'[v] \/ stored'[handle'[v]] # <<>>
    <3>1. CASE v = w
      BY <3>1, <2>2, <2>3, <2>5, <1>1, <1>3, <1>4
    <3>2. CASE v # w
      <4>1. pc[v] = "write" /\ handle'[v] = handle[v] /\ handle[v] \in 1..Len(stored) /\ handle[v] \notin overtaken
        BY <3>2, <2>3, <2>5, <1>1, <1>4 DEF Counters
      <4> QED
        BY <4>1, <2>1, <1>3, <1>4 DEF Knowing
    <3> QED
      BY <3>1, <3>2
  <2>6. ASSUME NEW v \in Writers, pc'[v] = "open", tested'[v] = resets', ~header'[v]
        PROVE  path' # 0 /\ stored'[path'] # <<>>
    <3>1. v # w /\ pc[v] = "open"
      BY <2>6, <1>1, <1>4 DEF Counters
    <3>2. path # 0 /\ stored[path] # <<>>
      BY <3>1, <2>1, <2>6, <1>4 DEF Knowing
    <3> QED
      BY <3>2, <1>1, <1>3
  <2>7. \A v \in Writers : pc'[v] \notin {"frame", "record"}
    BY <2>1, <1>1, <1>4 DEF Knowing, Counters
  <2> QED
    BY <2>4, <2>5, <2>6, <2>7 DEF Knowing
<1> QED
  BY <1>4, <1>5, <1>6 DEF HeaderInv, CSV

\* The steps of a writer that leave every file as it is.
LEMMA LookingKeeps ==
  ASSUME HeaderInv, NEW w \in Writers,
         Begin(w) \/ TakeUp(w) \/ TestExists(w) \/ TestSize(w) \/ WriteFails(w)
  PROVE  HeaderInv'
<1> USE DEF HeaderInv, Typed, Files, Counters, Knowing, Headed, CSV, logVars, resetVars
<1>1. CASE Begin(w) \/ TakeUp(w)
  <2>1. /\ UNCHANGED <<kind, stored, path, header, handle, samples, resets, overtaken>>
        /\ tested' \in [Writers -> 0..resets]
        /\ pc' \in [Writers -> Whereabouts]
        /\ pc'[w] \in {"queued", "frame", "open", "exists"}
        /\ CSV => pc'[w] \in {"queued", "exists"}
        /\ \A v \in Writers \ {w} : pc'[v] = pc[v] /\ tested'[v] = tested[v]
    <3>1. FirstStep \in {"frame", "open", "exists"} /\ (CSV => FirstStep = "exists")
      BY DEF FirstStep
    <3>2. PICK where \in {"queued", "frame", "open", "exists"} :
            /\ pc' = [pc EXCEPT ![w] = where]
            /\ CSV => where \in {"queued", "exists"}
      BY <1>1, <3>1 DEF Begin, TakeUp, GoTo
    <3>3. tested' = tested \/ tested' = [tested EXCEPT ![w] = resets]
      BY <1>1 DEF Begin, TakeUp
    <3>4. where \in Whereabouts
      BY DEF Whereabouts
    <3>5. /\ pc' \in [Writers -> Whereabouts] /\ pc'[w] = where
          /\ \A v \in Writers \ {w} : pc'[v] = pc[v]
      BY <3>2, <3>4
    <3>8. resets \in Nat /\ tested \in [Writers -> 0..resets]
      OBVIOUS
    <3>9. resets \in 0..resets
      BY <3>8
    <3>6. tested' \in [Writers -> 0..resets] /\ \A v \in Writers \ {w} : tested'[v] = tested[v]
      BY ONLY <3>3, <3>8, <3>9
    <3>7. UNCHANGED <<kind, stored, path, header, handle, samples, resets, overtaken>>
      BY <1>1 DEF Begin, TakeUp
    <3> QED
      BY <3>2, <3>5, <3>6, <3>7
  <2>2. Files'
    BY <2>1
  <2>3. Counters'
    BY <2>1
  <2>4. CSV => Knowing'
    BY <2>1
  <2>5. CSV => Headed'
    BY <2>1
  <2> QED
    BY <2>1, <2>2, <2>3, <2>4, <2>5
<1>2. CASE TestExists(w)
  <2>1. CASE path = 0
    <3>1. /\ pc' = [pc EXCEPT ![w] = "open"] /\ header' = [header EXCEPT ![w] = TRUE]
          /\ tested' = [tested EXCEPT ![w] = resets]
          /\ UNCHANGED <<kind, stored, path, handle, samples, resets, overtaken>>
      BY <1>2, <2>1 DEF TestExists, GoTo
    <3> QED
      BY <3>1 DEF Whereabouts, AtRest, Finished
  <2>2. CASE path # 0
    <3>1. /\ pc' = [pc EXCEPT ![w] = "size"] /\ header' = [header EXCEPT ![w] = FALSE]
          /\ tested' = [tested EXCEPT ![w] = resets] /\ pc[w] = "exists"
          /\ UNCHANGED <<kind, stored, path, handle, samples, resets, overtaken>>
      BY <1>2, <2>2 DEF TestExists, GoTo
    <3>2. pc'[w] = "size" /\ \A v \in Writers \ {w} : pc'[v] = pc[v] /\ header'[v] = header[v] /\ tested'[v] = tested[v]
      BY <3>1 DEF Whereabouts, AtRest, Finished
    <3>3. Files'
      BY <3>1, <3>2
    <3>4. Counters'
      BY <3>1 DEF Whereabouts, AtRest, Finished
    <3>5. CSV => Knowing'
      BY <3>1, <3>2
    <3>6. CSV => Headed'
      BY <3>1
    <3> QED
      BY <3>1, <3>3, <3>4, <3>5, <3>6
  <2> QED
    BY <2>1, <2>2
<1>3. CASE TestSize(w)
  <2>1. /\ UNCHANGED <<kind, stored, path, handle, samples, tested, resets, overtaken>>
        /\ pc' \in [Writers -> Whereabouts]
        /\ header' \in [Writers -> BOOLEAN]
        /\ pc'[w] \in {"failed", "open"}
        /\ pc'[w] = "open" /\ ~header'[w] => path # 0 /\ stored[path] # <<>>
        /\ \A v \in Writers \ {w} : pc'[v] = pc[v] /\ header'[v] = header[v]
    BY <1>3 DEF TestSize, GoTo, Whereabouts, AtRest, Finished
  <2>2. Files'
    BY <2>1
  <2>3. Counters'
    BY <2>1
  <2>4. CSV => Knowing'
    BY <2>1
  <2>5. CSV => Headed'
    BY <2>1
  <2> QED
    BY <2>1, <2>2, <2>3, <2>4, <2>5
<1>4. CASE WriteFails(w)
  <2>1. /\ UNCHANGED <<kind, stored, path, header, samples, tested, resets, overtaken>>
        /\ pc' = [pc EXCEPT ![w] = "failed"]
        /\ handle' = [handle EXCEPT ![w] = 0]
        /\ \A v \in Writers \ {w} : pc'[v] = pc[v] /\ handle'[v] = handle[v]
        /\ pc'[w] = "failed"
    BY <1>4 DEF WriteFails, GoTo
  <2>2. Files'
    BY <2>1
  <2>3. Counters'
    BY <2>1 DEF Whereabouts, AtRest, Finished
  <2>4. CSV => Knowing'
    BY <2>1
  <2>5. CSV => Headed'
    BY <2>1
  <2> QED
    BY <2>1, <2>2, <2>3, <2>4, <2>5
<1> QED
  BY <1>1, <1>2, <1>3, <1>4

\* The appends to a file a writer has open.
LEMMA WritingKeeps ==
  ASSUME HeaderInv, NEW w \in Writers, NEW rows \in Seq(Entries), pc[w] = "write",
         Append_to(handle[w], Heading(w) \o rows),
         UNCHANGED <<kind, path, tested, resets, overtaken>>,
         header' \in [Writers -> BOOLEAN], samples' \in [Writers -> Nat],
         \A v \in Writers \ {w} : header'[v] = header[v],
         \/ /\ pc' = [pc EXCEPT ![w] = "stored"]
            /\ handle' = [handle EXCEPT ![w] = 0]
         \/ rows # <<>> /\ UNCHANGED <<pc, handle>>
  PROVE  HeaderInv'
<1>1. /\ stored \in Seq(Seq(Entries)) /\ path \in 0..Len(stored)
      /\ handle \in [Writers -> 0..Len(stored)]
      /\ \A v \in Writers : pc[v] = "write" => handle[v] # 0
      /\ Counters
  BY DEF HeaderInv, Typed, Files
<1>2. /\ stored' \in Seq(Seq(Entries)) /\ Len(stored') = Len(stored)
      /\ \A f \in 1..Len(stored) : f # handle[w] => stored'[f] = stored[f]
  <2>1. handle[w] \in 1..Len(stored)
    BY <1>1
  <2>2. Heading(w) \o rows \in Seq(Entries)
    BY HeadingType
  <2> QED
    BY <1>1, <2>1, <2>2, Appended
<1>3. Typed'
  <2>1. /\ handle' \in [Writers -> 0..Len(stored)]
        /\ \A v \in Writers : pc'[v] = "write" => handle'[v] # 0
    <3>1. CASE pc' = [pc EXCEPT ![w] = "stored"] /\ handle' = [handle EXCEPT ![w] = 0]
      BY <3>1, <1>1 DEF Counters
    <3>2. CASE UNCHANGED <<pc, handle>>
      BY <3>2, <1>1
    <3> QED
      BY <3>1, <3>2
  <2>2. Files'
    BY <1>1, <1>2, <2>1 DEF Files
  <2>3. Counters'
    BY <1>1 DEF Counters, Whereabouts, AtRest, Finished
  <2> QED
    BY <2>2, <2>3 DEF Typed
<1>4. ASSUME CSV PROVE Knowing' /\ Headed'
  <2>1. Typed /\ Knowing /\ Headed
    BY <1>4 DEF HeaderInv
  <2>2. /\ \A f \in 1..Len(stored) : stored[f] # <<>> => stored'[f] # <<>>
        /\ rows # <<>> => stored'[handle[w]] # <<>>
        /\ Headed'
    BY <2>1, <1>4, AppendKeeps
  <2>3. \A v \in Writers : pc'[v] \notin {"frame", "record"}
    BY <2>1, <1>1 DEF Knowing, Counters
  <2>4. ASSUME NEW v \in Writers, pc'[v] = "open", tested'[v] = resets', ~header'[v]
        PROVE  path' # 0 /\ stored'[path'] # <<>>
    <3>1. v # w /\ pc[v] = "open" /\ ~header[v] /\ tested[v] = resets
      BY <2>4, <1>1 DEF Counters
    <3> QED
      BY <3>1, <2>1, <2>2, <1>1 DEF Knowing
  <2>5. ASSUME NEW v \in Writers, pc'[v] = "write", handle'[v] \notin overtaken'
        PROVE  header'[v] \/ stored'[handle'[v]] # <<>>
    <3>1. CASE v = w
      BY <3>1, <2>2, <2>5, <1>1 DEF Counters
    <3>2. CASE v # w
      <4>1. pc[v] = "write" /\ handle'[v] = handle[v] /\ header'[v] = header[v]
            /\ handle[v] \in 1..Len(stored) /\ handle[v] \notin overtaken
        BY <3>2, <2>5, <1>1 DEF Counters
      <4> QED
        BY <4>1, <2>1, <2>2 DEF Knowing
    <3> QED
      BY <3>1, <3>2
  <2> QED
    BY <2>2, <2>3, <2>4, <2>5 DEF Knowing
<1> QED
  BY <1>3, <1>4 DEF HeaderInv, CSV

\* The two files of a record of the blackbox: a kind without headers.
LEMMA BundleKeeps ==
  ASSUME HeaderInv, NEW w \in Writers, WriteFrame(w) \/ WriteRecord(w) PROVE HeaderInv'
<1>1. /\ stored \in Seq(Seq(Entries)) /\ path \in 0..Len(stored) /\ Counters
      /\ handle \in [Writers -> 0..Len(stored)]
      /\ \A v \in Writers : pc[v] = "write" => handle[v] # 0
  BY DEF HeaderInv, Typed, Files
<1>2. pc[w] \in {"frame", "record"} /\ ~CSV
  BY DEF WriteFrame, WriteRecord, HeaderInv, Knowing
<1>3. PICK entries \in Seq(Entries) : path # 0 /\ Append_to(path, entries)
  BY EntryTypes DEF WriteFrame, WriteRecord
<1>4. stored' \in Seq(Seq(Entries)) /\ Len(stored') = Len(stored)
  <2>1. path \in 1..Len(stored)
    BY <1>1, <1>3
  <2> QED
    BY <1>1, <1>3, <2>1, Appended
<1>5. /\ \E where \in {"record", "stored"} : pc' = [pc EXCEPT ![w] = where]
      /\ tested' = tested \/ tested' = [tested EXCEPT ![w] = resets]
      /\ UNCHANGED <<kind, path, header, handle, samples, resets, overtaken>>
  BY DEF WriteFrame, WriteRecord, GoTo, resetVars
<1>6. Files'
  BY <1>1, <1>4, <1>5 DEF Files, Counters
<1>7. Counters'
  <2>1. resets \in Nat /\ resets \in 0..resets /\ tested \in [Writers -> 0..resets]
    BY <1>1 DEF Counters
  <2>2. tested' \in [Writers -> 0..resets]
    BY <1>5, <2>1
  <2>3. pc' \in [Writers -> Whereabouts]
    BY <1>1, <1>5 DEF Counters, Whereabouts, AtRest, Finished
  <2> QED
    BY <1>1, <1>5, <2>2, <2>3 DEF Counters
<1> QED
  BY <1>2, <1>5, <1>6, <1>7 DEF HeaderInv, Typed, CSV

LEMMA NextHeaderInv == HeaderInv /\ [Next]_vars => HeaderInv'
<1> SUFFICES ASSUME HeaderInv, [Next]_vars PROVE HeaderInv'
  OBVIOUS
<1>1. ASSUME NEW w \in Writers, Write(w) PROVE HeaderInv'
  <2>1. <<Row(w, 1)>> \in Seq(Entries)
    BY EntryTypes
  <2>2. /\ pc[w] = "write" /\ Append_to(handle[w], Heading(w) \o <<Row(w, 1)>>)
        /\ UNCHANGED <<kind, path, tested, resets, overtaken, header, samples>>
        /\ pc' = [pc EXCEPT ![w] = "stored"] /\ handle' = [handle EXCEPT ![w] = 0]
    BY <1>1 DEF Write, GoTo, resetVars
  <2>3. header \in [Writers -> BOOLEAN] /\ samples \in [Writers -> Nat]
    BY DEF HeaderInv, Typed, Counters
  <2> QED
    BY <2>1, <2>2, <2>3, WritingKeeps
<1>2. ASSUME NEW w \in Writers, Sample(w) PROVE HeaderInv'
  <2>1. header \in [Writers -> BOOLEAN] /\ samples \in [Writers -> Nat]
    BY DEF HeaderInv, Typed, Counters
  <2>2. PICK row \in Entries :
          /\ pc[w] = "write" /\ Append_to(handle[w], Heading(w) \o <<row>>)
          /\ UNCHANGED <<kind, path, tested, resets, overtaken, pc, handle>>
          /\ header' = [header EXCEPT ![w] = FALSE] /\ samples' = [samples EXCEPT ![w] = @ + 1]
    <3>1. Row(w, samples[w] + 1) \in Entries
      BY <2>1, EntryTypes
    <3> QED
      BY <1>2, <3>1 DEF Sample, resetVars
  <2>3. <<row>> \in Seq(Entries) /\ <<row>> # <<>>
    OBVIOUS
  <2>4. /\ header' \in [Writers -> BOOLEAN] /\ samples' \in [Writers -> Nat]
        /\ \A v \in Writers \ {w} : header'[v] = header[v]
    BY <2>1, <2>2
  <2> QED
    BY <2>2, <2>3, <2>4, WritingKeeps
<1>3. ASSUME NEW w \in Writers, Stop(w) PROVE HeaderInv'
  <2>1. header \in [Writers -> BOOLEAN] /\ samples \in [Writers -> Nat]
    BY DEF HeaderInv, Typed, Counters
  <2>2. <<>> \in Seq(Entries) /\ Heading(w) \o <<>> = Heading(w)
    BY HeadingType
  <2>3. /\ pc[w] = "write" /\ Append_to(handle[w], Heading(w) \o <<>>)
        /\ UNCHANGED <<kind, path, tested, resets, overtaken, header, samples>>
        /\ pc' = [pc EXCEPT ![w] = "stored"] /\ handle' = [handle EXCEPT ![w] = 0]
    BY <1>3, <2>2 DEF Stop, GoTo, resetVars
  <2> QED
    BY <2>1, <2>2, <2>3, WritingKeeps
<1>4. CASE Archive
  <2> USE DEF HeaderInv, Typed, Files, Counters, Knowing, Headed, CSV
  <2>1. /\ path' = 0 /\ resets' = resets + 1
        /\ UNCHANGED <<kind, stored, pc, header, handle, samples, tested, overtaken>>
    BY <1>4 DEF Archive, writerVars
  <2>2. Typed'
    BY <2>1
  <2>3. \A w \in Writers : tested'[w] # resets'
    BY <2>1
  <2> QED
    BY <2>1, <2>2, <2>3
<1>5. CASE Recreate
  <2>1. /\ kind = "sessions" /\ path' = Len(stored) + 1 /\ stored' = Append(stored, <<>>)
        /\ UNCHANGED <<kind, pc, header, handle, samples, tested, resets, overtaken>>
    BY <1>5 DEF Recreate, writerVars, resetVars
  <2>2. stored' \in Seq(Seq(Entries)) /\ Len(stored') = Len(stored) + 1
    BY <2>1 DEF HeaderInv, Typed, Files
  <2> QED
    BY <2>1, <2>2 DEF HeaderInv, Typed, Files, Counters, CSV
<1>6. CASE (\E w \in Writers : TaskDone(w)) \/ close \/ Closed \/ UNCHANGED vars
  <2>1. UNCHANGED <<kind, path, stored, pc, header, handle, samples, tested, resets, overtaken>>
    BY <1>6 DEF TaskDone, close, Closed, vars, logVars, writerVars, resetVars
  <2> QED
    BY <2>1 DEF HeaderInv, Typed, Files, Counters, Knowing, Headed, CSV
<1>7. CASE LoopEnds
  <2>1. /\ UNCHANGED <<kind, path, stored, header, handle, samples, tested, resets, overtaken>>
        /\ pc' = [w \in Writers |-> IF pc[w] = "queued" THEN "lost" ELSE pc[w]]
    BY <1>7 DEF LoopEnds, logVars, resetVars
  <2>2. pc' \in [Writers -> Whereabouts]
    BY <2>1 DEF HeaderInv, Typed, Counters, Whereabouts
  <2>3. \A w \in Writers, where \in {"open", "write", "frame", "record"} :
          pc'[w] = where => pc[w] = where
    BY <2>1
  <2> QED
    BY <2>1, <2>2, <2>3 DEF HeaderInv, Typed, Files, Counters, Knowing, Headed, CSV
<1> QED
  BY <1>1, <1>2, <1>3, <1>4, <1>5, <1>6, <1>7, LookingKeeps, OpenKeeps, BundleKeeps
     DEF Next, WriterStep

LEMMA HeaderInvHolds == Spec => []HeaderInv
<1>1. Init => HeaderInv
  <2> SUFFICES ASSUME Init PROVE HeaderInv
    OBVIOUS
  <2>1. stored \in Seq(Seq(Entries)) /\ path \in 0..Len(stored)
        /\ \A f \in 1..Len(stored) : stored[f] = <<>>
    <3>1. <<>> \in Seq(Entries)
      OBVIOUS
    <3>2. CASE path = 1 /\ stored = << <<>> >>
      BY <3>1, <3>2
    <3>3. CASE path = 0 /\ stored = <<>>
      BY <3>3
    <3> QED
      BY <3>2, <3>3 DEF Init
  <2> QED
    BY <2>1 DEF Init, HeaderInv, Typed, Files, Counters, Knowing, Headed, Whereabouts, AtRest, Finished
<1> QED
  BY <1>1, NextHeaderInv, PTL DEF Spec

\* Every CSV file begins with its header, for any number of writers and resets, unless
\* the writer that opened it had looked before a reset.
THEOREM HeaderFirstHolds == Spec => []HeaderFirst
<1>1. HeaderInv => HeaderFirst
  BY DEF HeaderInv, Headed, HeaderFirst, CSV
<1> QED
  BY <1>1, HeaderInvHolds, PTL

-----------------------------------------------------------------------------
(* WrittenOnce *)

\* What a writer may have stored, from where it is: a write that fails leaves a frame behind.
MayHaveStored(w, entry) ==
  \/ kind = "jetson" /\ \E n \in 1..samples[w] : entry = Row(w, n)
  \/ kind \in {"telemetry", "performance", "cognition"} /\ pc[w] = "stored" /\ entry = Row(w, 1)
  \/ kind = "sessions" /\ pc[w] \in {"record", "stored", "failed"} /\ entry = Frame(w)
  \/ kind = "sessions" /\ pc[w] = "stored" /\ entry = Record(w)

Attempted == {entry \in Entries : \E w \in Writers : MayHaveStored(w, entry)}

\* Nothing is stored that nobody has written yet, and nothing but a header twice.
Accounted ==
  /\ \A f \in 1..Len(stored) : \A i \in 1..Len(stored[f]) :
       stored[f][i] # Header => stored[f][i] \in Attempted
  /\ \A f, g \in 1..Len(stored) : \A i \in 1..Len(stored[f]), j \in 1..Len(stored[g]) :
       stored[f][i] # Header /\ stored[f][i] = stored[g][j] => f = g /\ i = j

\* What was written is stored, and only a record of the blackbox comes in two files.
Kept ==
  /\ \A w \in Writers : \A entry \in Written(w) :
       \E f \in 1..Len(stored) : \E i \in 1..Len(stored[f]) : stored[f][i] = entry
  /\ kind # "sessions" => \A w \in Writers : pc[w] \notin {"frame", "record"}

Once == Accounted /\ Kept

LEMMA EntriesDiffer ==
  ASSUME NEW v \in Writers, NEW w \in Writers, NEW m, NEW n
  PROVE  /\ Row(w, n) # Header /\ Frame(w) # Header /\ Record(w) # Header
         /\ Row(v, m) # Frame(w) /\ Row(v, m) # Record(w) /\ Frame(v) # Record(w)
         /\ Row(v, m) = Row(w, n) => v = w /\ m = n
         /\ Frame(v) = Frame(w) => v = w
         /\ Record(v) = Record(w) => v = w
<1>1. Row(w, n).what = "row" /\ Row(w, n).by = w /\ Row(w, n).number = n
  BY DEF Row
<1>2. Row(v, m).what = "row" /\ Row(v, m).by = v /\ Row(v, m).number = m
  BY DEF Row
<1>3. Header.what = "header" /\ Frame(w).what = "jpg" /\ Frame(v).what = "jpg" /\ Record(w).what = "json"
  BY DEF Header, Frame, Record
<1>4. Frame(w).by = w /\ Frame(v).by = v /\ Record(w).by = w /\ Record(v).by = v
  BY DEF Frame, Record
<1> QED
  BY <1>1, <1>2, <1>3, <1>4

\* The places of a file that is appended to: those it had, and then the new ones.
LEMMA PlacesAppended ==
  ASSUME stored \in Seq(Seq(Entries)), NEW f \in 1..Len(stored), NEW entries \in Seq(Entries),
         Append_to(f, entries)
  PROVE  /\ Len(stored') = Len(stored)
         /\ \A g \in 1..Len(stored) : \A i \in 1..Len(stored[g]) :
              i \in 1..Len(stored'[g]) /\ stored'[g][i] = stored[g][i]
         /\ \A k \in 1..Len(entries) :
              Len(stored[f]) + k \in 1..Len(stored'[f]) /\ stored'[f][Len(stored[f]) + k] = entries[k]
         /\ \A g \in 1..Len(stored) : \A i \in 1..Len(stored'[g]) :
              i \notin 1..Len(stored[g])
                => g = f /\ \E k \in 1..Len(entries) : i = Len(stored[f]) + k
<1>1. /\ Len(stored') = Len(stored)
      /\ \A g \in 1..Len(stored) : g # f => stored'[g] = stored[g]
      /\ stored'[f] = stored[f] \o entries
  BY Appended
<1>2. stored[f] \in Seq(Entries)
  OBVIOUS
<1>3. Len(stored'[f]) = Len(stored[f]) + Len(entries) /\ Len(stored[f]) \in Nat /\ Len(entries) \in Nat
  BY <1>1, <1>2
<1>4. \A i \in 1..Len(stored[f]) : i \in 1..Len(stored'[f]) /\ stored'[f][i] = stored[f][i]
  BY <1>1, <1>2, <1>3
<1>5. \A k \in 1..Len(entries) :
        Len(stored[f]) + k \in 1..Len(stored'[f]) /\ stored'[f][Len(stored[f]) + k] = entries[k]
  BY <1>1, <1>2, <1>3
<1>6. ASSUME NEW i \in 1..Len(stored'[f]), i \notin 1..Len(stored[f])
      PROVE  \E k \in 1..Len(entries) : i = Len(stored[f]) + k
  <2>1. i - Len(stored[f]) \in 1..Len(entries) /\ i = Len(stored[f]) + (i - Len(stored[f]))
    BY <1>3, <1>6
  <2> QED
    BY <2>1
<1> QED
  BY <1>1, <1>4, <1>5, <1>6

\* An append of at most one entry that is not a header, the last and one that nobody had
\* written before.
LEMMA AppendOnce ==
  ASSUME Once, stored \in Seq(Seq(Entries)), NEW f \in 1..Len(stored),
         NEW entries \in Seq(Entries), Append_to(f, entries),
         \A k \in 1..Len(entries) : entries[k] # Header =>
           /\ k = Len(entries)
           /\ entries[k] \notin Attempted
           /\ entries[k] \in Attempted',
         Attempted \subseteq Attempted',
         \A v \in Writers : \A e \in Written(v)' :
           e \in Written(v) \/ \E k \in 1..Len(entries) : e = entries[k],
         kind' # "sessions" => \A v \in Writers : pc'[v] \notin {"frame", "record"}
  PROVE  Once'
<1>1. /\ Len(stored') = Len(stored)
      /\ \A g \in 1..Len(stored) : \A i \in 1..Len(stored[g]) :
           i \in 1..Len(stored'[g]) /\ stored'[g][i] = stored[g][i]
      /\ \A k \in 1..Len(entries) :
           Len(stored[f]) + k \in 1..Len(stored'[f]) /\ stored'[f][Len(stored[f]) + k] = entries[k]
      /\ \A g \in 1..Len(stored) : \A i \in 1..Len(stored'[g]) :
           i \notin 1..Len(stored[g]) => g = f /\ \E k \in 1..Len(entries) : i = Len(stored[f]) + k
  BY PlacesAppended
<1>2. \A g \in 1..Len(stored) : \A i \in 1..Len(stored[g]) : stored[g][i] \in Entries
  OBVIOUS
<1>3. ASSUME NEW e, NEW g \in 1..Len(stored), NEW i \in 1..Len(stored[g]), stored[g][i] = e, e # Header
      PROVE  e \in Entries /\ e \in Attempted
  BY <1>2, <1>3 DEF Once, Accounted
\* An entry of the new contents is an old one in its place, or the last of the new ones.
<1>4. ASSUME NEW e, e # Header, NEW g \in 1..Len(stored'), NEW i \in 1..Len(stored'[g]), stored'[g][i] = e
      PROVE  \/ /\ g \in 1..Len(stored) /\ i \in 1..Len(stored[g]) /\ stored[g][i] = e
                /\ e \in Attempted
                /\ e \in Attempted'
             \/ /\ g = f /\ i = Len(stored[f]) + Len(entries)
                /\ e \notin Attempted
                /\ e \in Attempted'
  <2>1. CASE i \in 1..Len(stored[g])
    <3>1. g \in 1..Len(stored) /\ stored[g][i] = e
      BY <1>1, <1>4, <2>1
    <3>2. e \in Entries /\ e \in Attempted
      BY <1>3, <1>4, <2>1, <3>1
    <3>3. e \in Attempted'
      BY <3>2
    <3> QED
      BY <2>1, <3>1, <3>2, <3>3
  <2>2. CASE i \notin 1..Len(stored[g])
    <3>1. PICK k \in 1..Len(entries) : g = f /\ i = Len(stored[f]) + k
      BY <1>1, <2>2
    <3>2. entries[k] = e
      BY <1>1, <1>4, <3>1
    <3>3. k = Len(entries) /\ e \notin Attempted /\ e \in Attempted'
      BY <1>4, <3>2
    <3> QED
      BY <3>1, <3>3
  <2> QED
    BY <2>1, <2>2
<1>5. Accounted'
  <2>1. \A g \in 1..Len(stored') : \A i \in 1..Len(stored'[g]) :
          stored'[g][i] # Header => stored'[g][i] \in Attempted'
    BY <1>4
  <2>2. ASSUME NEW g \in 1..Len(stored'), NEW h \in 1..Len(stored'),
               NEW i \in 1..Len(stored'[g]), NEW j \in 1..Len(stored'[h]),
               stored'[g][i] # Header, stored'[g][i] = stored'[h][j]
        PROVE  g = h /\ i = j
    <3>0. PICK e : e = stored'[g][i] /\ e = stored'[h][j] /\ e # Header
      BY <2>2
    <3>1. CASE e \in Attempted
      <4>1. g \in 1..Len(stored) /\ i \in 1..Len(stored[g]) /\ stored[g][i] = e
        BY <1>4, <3>0, <3>1
      <4>2. h \in 1..Len(stored) /\ j \in 1..Len(stored[h]) /\ stored[h][j] = e
        BY <1>4, <3>0, <3>1
      <4>3. stored[g][i] # Header /\ stored[g][i] = stored[h][j]
        BY <3>0, <4>1, <4>2
      <4>4. \A a, b \in 1..Len(stored) : \A k \in 1..Len(stored[a]), l \in 1..Len(stored[b]) :
              stored[a][k] # Header /\ stored[a][k] = stored[b][l] => a = b /\ k = l
        BY DEF Once, Accounted
      <4> QED
        BY <4>1, <4>2, <4>3, <4>4
    <3>2. CASE e \notin Attempted
      <4>1. g = f /\ i = Len(stored[f]) + Len(entries)
        BY <1>4, <3>0, <3>2
      <4>2. h = f /\ j = Len(stored[f]) + Len(entries)
        BY <1>4, <3>0, <3>2
      <4> QED
        BY <4>1, <4>2
    <3> QED
      BY <3>1, <3>2
  <2>3. \A g, h \in 1..Len(stored') : \A i \in 1..Len(stored'[g]), j \in 1..Len(stored'[h]) :
          stored'[g][i] # Header /\ stored'[g][i] = stored'[h][j] => g = h /\ i = j
    BY <2>2
  <2> QED
    BY <2>1, <2>3 DEF Accounted, Header
<1>6. Kept'
  <2>1. ASSUME NEW v \in Writers, NEW e, e \in Written(v)'
        PROVE  \E g \in 1..Len(stored') : \E i \in 1..Len(stored'[g]) : stored'[g][i] = e
    <3>1. CASE e \in Written(v)
      <4>1. PICK g \in 1..Len(stored) : \E i \in 1..Len(stored[g]) : stored[g][i] = e
        BY <3>1 DEF Once, Kept
      <4>2. PICK i \in 1..Len(stored[g]) : stored[g][i] = e
        BY <4>1
      <4>3. g \in 1..Len(stored') /\ i \in 1..Len(stored'[g]) /\ stored'[g][i] = e
        BY <1>1, <4>2
      <4> QED
        BY <4>3
    <3>2. CASE \E k \in 1..Len(entries) : e = entries[k]
      <4>1. PICK k \in 1..Len(entries) : e = entries[k]
        BY <3>2
      <4>2. f \in 1..Len(stored') /\ Len(stored[f]) + k \in 1..Len(stored'[f])
            /\ stored'[f][Len(stored[f]) + k] = e
        BY <1>1, <4>1
      <4> QED
        BY <4>2
    <3> QED
      BY <2>1, <3>1, <3>2
  <2> QED
    BY <2>1 DEF Kept
<1> QED
  BY <1>5, <1>6 DEF Once

\* A step that appends nothing, and at most makes a file.
LEMMA StayOnce ==
  ASSUME Once, stored \in Seq(Seq(Entries)),
         stored' = stored \/ stored' = Append(stored, <<>>),
         Attempted \subseteq Attempted',
         \A v \in Writers : Written(v)' \subseteq Written(v),
         kind' # "sessions" => \A v \in Writers : pc'[v] \notin {"frame", "record"}
  PROVE  Once'
<1>1. /\ \A g \in 1..Len(stored) : g \in 1..Len(stored') /\ stored'[g] = stored[g]
      /\ \A g \in 1..Len(stored') : \A i \in 1..Len(stored'[g]) : g \in 1..Len(stored)
  <2>1. CASE stored' = stored
    BY <2>1
  <2>2. CASE stored' = Append(stored, <<>>)
    <3>1. Len(stored') = Len(stored) + 1 /\ Len(stored) \in Nat /\ stored'[Len(stored) + 1] = <<>>
      BY <2>2
    <3>2. \A g \in 1..Len(stored) : g \in 1..Len(stored') /\ stored'[g] = stored[g]
      BY <2>2
    <3>3. \A g \in 1..Len(stored') : g \notin 1..Len(stored) => g = Len(stored) + 1
      BY <3>1
    <3>4. \A g \in 1..Len(stored') : g \notin 1..Len(stored) => Len(stored'[g]) = 0
      BY <3>1, <3>3
    <3> QED
      BY <3>2, <3>4
  <2> QED
    BY <2>1, <2>2
<1>2. Accounted'
  <2>1. \A g \in 1..Len(stored) : \A i \in 1..Len(stored[g]) : stored[g][i] # Header => stored[g][i] \in Attempted
    BY DEF Once, Accounted
  <2>2. \A g \in 1..Len(stored') : \A i \in 1..Len(stored'[g]) :
          stored'[g][i] # Header => stored'[g][i] \in Attempted'
    BY <1>1, <2>1
  <2>3. \A a, b \in 1..Len(stored) : \A k \in 1..Len(stored[a]), l \in 1..Len(stored[b]) :
          stored[a][k] # Header /\ stored[a][k] = stored[b][l] => a = b /\ k = l
    BY DEF Once, Accounted
  <2>4. \A g, h \in 1..Len(stored') : \A i \in 1..Len(stored'[g]), j \in 1..Len(stored'[h]) :
          stored'[g][i] # Header /\ stored'[g][i] = stored'[h][j] => g = h /\ i = j
    <3>1. ASSUME NEW g \in 1..Len(stored'), NEW i \in 1..Len(stored'[g])
          PROVE  g \in 1..Len(stored) /\ stored'[g] = stored[g] /\ i \in 1..Len(stored[g])
      BY <1>1
    <3> QED
      BY <2>3, <3>1
  <2> QED
    BY <2>2, <2>4 DEF Accounted, Header
<1>3. Kept'
  <2>1. ASSUME NEW v \in Writers, NEW e, e \in Written(v)'
        PROVE  \E g \in 1..Len(stored') : \E i \in 1..Len(stored'[g]) : stored'[g][i] = e
    <3>1. PICK g \in 1..Len(stored) : \E i \in 1..Len(stored[g]) : stored[g][i] = e
      BY <2>1 DEF Once, Kept
    <3> QED
      BY <1>1, <3>1
  <2> QED
    BY <2>1 DEF Kept
<1> QED
  BY <1>2, <1>3 DEF Once

\* A writer that moves on without having written has neither written nor attempted more.
LEMMA MovesOn ==
  ASSUME pc \in [Writers -> Whereabouts], NEW w \in Writers,
         NEW where \in Whereabouts \ {"stored", "record"},
         pc' = [pc EXCEPT ![w] = where], pc[w] \notin Finished, pc[w] = "record" => where = "failed",
         UNCHANGED <<kind, samples>>
  PROVE  /\ Attempted \subseteq Attempted'
         /\ \A v \in Writers : Written(v)' \subseteq Written(v)
<1>1. ASSUME NEW e \in Entries, NEW v \in Writers, MayHaveStored(v, e) PROVE MayHaveStored(v, e)'
  BY <1>1 DEF MayHaveStored, Finished, Row, Frame, Record
<1>2. Attempted \subseteq Attempted'
  BY <1>1 DEF Attempted, Entries
<1>3. ASSUME NEW v \in Writers PROVE Written(v)' \subseteq Written(v)
  <2>1. CASE v = w
    <3>1. pc'[v] = where /\ kind' = kind /\ samples' = samples
      BY <2>1
    <3>2. CASE kind = "jetson"
      BY <3>1, <3>2 DEF Written, Row
    <3>3. CASE kind # "jetson"
      BY <3>1, <3>3 DEF Written
    <3> QED
      BY <3>2, <3>3
  <2>2. CASE v # w
    BY <2>2 DEF Written, Row, Frame, Record
  <2> QED
    BY <2>1, <2>2
<1> QED
  BY <1>2, <1>3

LEMMA HeadingAlone ==
  ASSUME NEW w \in Writers
  PROVE  \A k \in 1..Len(Heading(w)) : Heading(w)[k] = Header
<1>1. CASE header[w]
  <2>1. Heading(w) = <<Header>>
    BY <1>1 DEF Heading
  <2> QED
    BY <2>1
<1>2. CASE ~header[w]
  BY <1>2 DEF Heading
<1> QED
  BY <1>1, <1>2

LEMMA EntryAtTheEnd ==
  ASSUME NEW e \in Entries, NEW heading \in Seq(Entries)
  PROVE  /\ heading \o <<e>> \in Seq(Entries)
         /\ Len(heading \o <<e>>) = Len(heading) + 1 /\ Len(heading) \in Nat
         /\ (heading \o <<e>>)[Len(heading) + 1] = e
         /\ \A k \in 1..Len(heading) : (heading \o <<e>>)[k] = heading[k]
<1>1. <<e>> \in Seq(Entries) /\ Len(<<e>>) = 1 /\ <<e>>[1] = e
  OBVIOUS
<1> QED
  BY <1>1

\* Headers, if anything, and then the entry.
EndsWith(entries, e) ==
  /\ entries \in Seq(Entries)
  /\ \A k \in 1..Len(entries) : entries[k] # Header => k = Len(entries) /\ entries[k] = e
  /\ \E k \in 1..Len(entries) : e = entries[k]

\* What a writer appends, under its header if it writes one.
LEMMA HeadedEntry ==
  ASSUME NEW w \in Writers, NEW e \in Entries
  PROVE  EndsWith(Heading(w) \o <<e>>, e) /\ EndsWith(<<e>>, e)
<1>1. PICK heading \in Seq(Entries) : heading = Heading(w)
  BY HeadingType
<1>2. \A k \in 1..Len(heading) : heading[k] = Header
  BY <1>1, HeadingAlone
<1> DEFINE entries == heading \o <<e>>
<1>3. /\ entries \in Seq(Entries) /\ Len(entries) = Len(heading) + 1 /\ Len(heading) \in Nat
      /\ entries[Len(heading) + 1] = e
      /\ \A k \in 1..Len(heading) : entries[k] = heading[k]
  BY EntryAtTheEnd
<1>4. EndsWith(entries, e)
  <2> HIDE DEF entries
  <2>1. \A k \in 1..Len(entries) : k = Len(entries) \/ k \in 1..Len(heading)
    BY <1>3
  <2> QED
    BY <1>2, <1>3, <2>1 DEF EndsWith
<1>5. EndsWith(<<e>>, e)
  <2>1. <<e>> \in Seq(Entries) /\ Len(<<e>>) = 1 /\ <<e>>[1] = e
    OBVIOUS
  <2> QED
    BY <2>1 DEF EndsWith
<1> QED
  BY <1>1, <1>4, <1>5

\* A writer takes its own new entry to the log, under its header or without one.
LEMMA WritesOnce ==
  ASSUME Once, stored \in Seq(Seq(Entries)), NEW f \in 1..Len(stored),
         NEW w \in Writers, NEW e \in Entries,
         Append_to(f, Heading(w) \o <<e>>) \/ Append_to(f, <<e>>),
         e \notin Attempted, e \in Attempted', Attempted \subseteq Attempted',
         \A v \in Writers : Written(v)' \subseteq Written(v) \cup {e},
         kind' # "sessions" => \A v \in Writers : pc'[v] \notin {"frame", "record"}
  PROVE  Once'
<1>1. PICK entries : EndsWith(entries, e) /\ Append_to(f, entries)
  BY HeadedEntry
<1>2. /\ entries \in Seq(Entries)
      /\ \A k \in 1..Len(entries) : entries[k] # Header => k = Len(entries) /\ entries[k] = e
      /\ \E k \in 1..Len(entries) : e = entries[k]
  BY <1>1 DEF EndsWith
<1>3. \A k \in 1..Len(entries) : entries[k] # Header =>
        /\ k = Len(entries)
        /\ entries[k] \notin Attempted
        /\ entries[k] \in Attempted'
  BY <1>2
<1>4. \A v \in Writers : \A x \in Written(v)' :
        x \in Written(v) \/ \E k \in 1..Len(entries) : x = entries[k]
  BY <1>2
<1> QED
  BY <1>1, <1>2, <1>3, <1>4, AppendOnce

\* The row of a CSV file or the block of the transaction log.
LEMMA WriteOnce ==
  ASSUME HeaderInv, Once, NEW w \in Writers, Write(w) PROVE Once'
<1>1. /\ stored \in Seq(Seq(Entries)) /\ handle[w] \in 1..Len(stored)
      /\ pc \in [Writers -> Whereabouts]
  BY DEF HeaderInv, Typed, Files, Counters, Write, Whereabouts
<1>2. PICK e \in Entries : e = Row(w, 1)
  BY EntryTypes
<1>3. /\ pc[w] = "write" /\ kind \in {"telemetry", "performance", "cognition"}
      /\ Append_to(handle[w], Heading(w) \o <<e>>)
      /\ pc' = [pc EXCEPT ![w] = "stored"] /\ UNCHANGED <<kind, samples>>
  BY <1>2 DEF Write, GoTo
<1>4. pc'[w] = "stored" /\ \A v \in Writers \ {w} : pc'[v] = pc[v]
  BY <1>1, <1>3
<1>5. e \notin Attempted
  <2>1. ASSUME NEW v \in Writers, MayHaveStored(v, e) PROVE FALSE
    <3>1. pc[v] = "stored" /\ e = Row(v, 1)
      BY <2>1, <1>3 DEF MayHaveStored
    <3>2. v = w
      BY <3>1, <1>2, EntriesDiffer
    <3> QED
      BY <3>1, <3>2, <1>3
  <2> QED
    BY <2>1 DEF Attempted
<1>6. e \in Attempted'
  <2>1. MayHaveStored(w, e)'
    BY <1>2, <1>3, <1>4 DEF MayHaveStored, Row
  <2> QED
    BY <2>1 DEF Attempted, Entries
<1>7. Attempted \subseteq Attempted'
  <2>1. ASSUME NEW v \in Writers, NEW x \in Entries, MayHaveStored(v, x) PROVE MayHaveStored(v, x)'
    BY <2>1, <1>3, <1>4 DEF MayHaveStored, Row
  <2> QED
    BY <2>1 DEF Attempted, Entries
<1>8. ASSUME NEW v \in Writers PROVE Written(v)' \subseteq Written(v) \cup {e}
  <2>1. CASE v = w
    BY <2>1, <1>2, <1>3, <1>4 DEF Written, Row
  <2>2. CASE v # w
    BY <2>2, <1>3, <1>4 DEF Written, Row
  <2> QED
    BY <2>1, <2>2
<1>9. kind' # "sessions" => \A v \in Writers : pc'[v] \notin {"frame", "record"}
  BY <1>3, <1>4 DEF Once, Kept
<1> QED
  BY <1>1, <1>3, <1>5, <1>6, <1>7, <1>8, <1>9, WritesOnce

\* A sample of the monitor.
LEMMA SampleOnce ==
  ASSUME HeaderInv, Once, NEW w \in Writers, Sample(w) PROVE Once'
<1>1. /\ stored \in Seq(Seq(Entries)) /\ handle[w] \in 1..Len(stored)
      /\ samples \in [Writers -> Nat]
  BY DEF HeaderInv, Typed, Files, Counters, Sample
<1>2. PICK n \in Nat : n = samples[w] + 1
  BY <1>1
<1>3. PICK e \in Entries : e = Row(w, n)
  BY EntryTypes
<1>4. /\ kind = "jetson" /\ kind' = kind /\ pc' = pc
      /\ Append_to(handle[w], Heading(w) \o <<e>>)
      /\ samples' = [samples EXCEPT ![w] = n]
  BY <1>2, <1>3 DEF Sample
<1>5. samples'[w] = n /\ 1..samples'[w] = 1..samples[w] \cup {n} /\ n \notin 1..samples[w]
      /\ \A v \in Writers \ {w} : samples'[v] = samples[v]
  BY <1>1, <1>2, <1>4
<1>6. e \notin Attempted
  <2>1. ASSUME NEW v \in Writers, MayHaveStored(v, e) PROVE FALSE
    <3>1. PICK m \in 1..samples[v] : e = Row(v, m)
      BY <2>1, <1>4 DEF MayHaveStored
    <3>2. v = w /\ m = n
      BY <3>1, <1>3, EntriesDiffer
    <3> QED
      BY <3>1, <3>2, <1>5
  <2> QED
    BY <2>1 DEF Attempted
<1>7. e \in Attempted'
  <2>1. MayHaveStored(w, e)'
    <3>1. n \in 1..samples'[w]
      BY <1>5
    <3> QED
      BY <3>1, <1>3, <1>4 DEF MayHaveStored, Row
  <2> QED
    BY <2>1 DEF Attempted, Entries
<1>8. Attempted \subseteq Attempted'
  <2>1. ASSUME NEW v \in Writers, NEW x \in Entries, MayHaveStored(v, x) PROVE MayHaveStored(v, x)'
    <3>1. PICK m \in 1..samples[v] : x = Row(v, m)
      BY <2>1, <1>4 DEF MayHaveStored
    <3>2. m \in 1..samples'[v]
      BY <3>1, <1>5
    <3> QED
      BY <3>1, <3>2, <1>4 DEF MayHaveStored, Row
  <2> QED
    BY <2>1 DEF Attempted, Entries
<1>9. ASSUME NEW v \in Writers PROVE Written(v)' \subseteq Written(v) \cup {e}
  <2>1. CASE v = w
    BY <2>1, <1>3, <1>4, <1>5 DEF Written, Row
  <2>2. CASE v # w
    BY <2>2, <1>4, <1>5 DEF Written, Row
  <2> QED
    BY <2>1, <2>2
<1>10. kind' # "sessions" => \A v \in Writers : pc'[v] \notin {"frame", "record"}
  BY <1>4 DEF Once, Kept
<1> QED
  BY <1>1, <1>4, <1>6, <1>7, <1>8, <1>9, <1>10, WritesOnce

\* The monitor is stopped: a header that was not flushed yet is all that can follow.
LEMMA StopOnce ==
  ASSUME HeaderInv, Once, NEW w \in Writers, Stop(w) PROVE Once'
<1>1. /\ stored \in Seq(Seq(Entries)) /\ handle[w] \in 1..Len(stored)
      /\ pc \in [Writers -> Whereabouts]
  BY DEF HeaderInv, Typed, Files, Counters, Stop, Whereabouts
<1>2. PICK entries \in Seq(Entries) : entries = Heading(w)
  BY HeadingType
<1>3. /\ kind = "jetson" /\ UNCHANGED <<kind, samples>> /\ Append_to(handle[w], entries)
      /\ pc' = [pc EXCEPT ![w] = "stored"]
  BY <1>2 DEF Stop, GoTo
<1>4. \A k \in 1..Len(entries) : entries[k] = Header
  BY <1>2, HeadingAlone
<1>5. Attempted \subseteq Attempted'
  <2>1. ASSUME NEW v \in Writers, NEW x \in Entries, MayHaveStored(v, x) PROVE MayHaveStored(v, x)'
    BY <2>1, <1>3 DEF MayHaveStored, Row
  <2> QED
    BY <2>1 DEF Attempted, Entries
<1>6. \A v \in Writers : Written(v)' = Written(v)
  BY <1>3 DEF Written, Row
<1>7. kind' # "sessions" => \A v \in Writers : pc'[v] \notin {"frame", "record"}
  BY <1>1, <1>3 DEF Once, Kept
<1>8. \A k \in 1..Len(entries) : entries[k] # Header =>
        k = Len(entries) /\ entries[k] \notin Attempted /\ entries[k] \in Attempted'
  BY <1>4
<1> QED
  BY <1>1, <1>3, <1>5, <1>6, <1>7, <1>8, AppendOnce

\* The frame of a record of the blackbox, which a failure of the record leaves behind.
LEMMA FrameOnce ==
  ASSUME HeaderInv, Once, NEW w \in Writers, WriteFrame(w) PROVE Once'
<1>1. /\ stored \in Seq(Seq(Entries)) /\ path \in 1..Len(stored)
      /\ pc \in [Writers -> Whereabouts]
  BY DEF HeaderInv, Typed, Files, Counters, WriteFrame, Whereabouts
<1>2. PICK e \in Entries : e = Frame(w)
  BY EntryTypes
<1>3. /\ pc[w] = "frame" /\ Append_to(path, <<e>>)
      /\ pc' = [pc EXCEPT ![w] = "record"] /\ UNCHANGED <<kind, samples>>
  BY <1>2 DEF WriteFrame, GoTo
<1>4. kind = "sessions"
  BY <1>3 DEF Once, Kept
<1>5. pc'[w] = "record" /\ \A v \in Writers \ {w} : pc'[v] = pc[v]
  BY <1>1, <1>3
<1>6. e \notin Attempted
  <2>1. ASSUME NEW v \in Writers, MayHaveStored(v, e) PROVE FALSE
    <3>1. CASE pc[v] \in {"record", "stored", "failed"} /\ e = Frame(v)
      BY <3>1, <1>2, <1>3, EntriesDiffer
    <3>2. CASE e = Record(v)
      BY <3>2, <1>2, EntriesDiffer
    <3> QED
      BY <2>1, <3>1, <3>2, <1>4 DEF MayHaveStored
  <2> QED
    BY <2>1 DEF Attempted
<1>7. e \in Attempted'
  <2>1. MayHaveStored(w, e)'
    BY <1>2, <1>3, <1>4, <1>5 DEF MayHaveStored, Frame
  <2> QED
    BY <2>1 DEF Attempted, Entries
<1>8. Attempted \subseteq Attempted'
  <2>1. ASSUME NEW v \in Writers, NEW x \in Entries, MayHaveStored(v, x) PROVE MayHaveStored(v, x)'
    BY <2>1, <1>3, <1>4, <1>5 DEF MayHaveStored, Frame, Record
  <2> QED
    BY <2>1 DEF Attempted, Entries
<1>9. ASSUME NEW v \in Writers PROVE Written(v)' \subseteq Written(v) \cup {e}
  <2>1. CASE v = w
    BY <2>1, <1>2, <1>3, <1>4, <1>5 DEF Written, Frame
  <2>2. CASE v # w
    BY <2>2, <1>3, <1>4, <1>5 DEF Written, Frame, Record
  <2> QED
    BY <2>1, <2>2
<1>10. kind' # "sessions" => \A v \in Writers : pc'[v] \notin {"frame", "record"}
  BY <1>3, <1>4
<1> QED
  BY <1>1, <1>3, <1>6, <1>7, <1>8, <1>9, <1>10, WritesOnce

\* The record itself.
LEMMA RecordOnce ==
  ASSUME HeaderInv, Once, NEW w \in Writers, WriteRecord(w) PROVE Once'
<1>1. /\ stored \in Seq(Seq(Entries)) /\ path \in 1..Len(stored)
      /\ pc \in [Writers -> Whereabouts]
  BY DEF HeaderInv, Typed, Files, Counters, WriteRecord, Whereabouts
<1>2. PICK e \in Entries : e = Record(w)
  BY EntryTypes
<1>3. /\ pc[w] = "record" /\ Append_to(path, <<e>>)
      /\ pc' = [pc EXCEPT ![w] = "stored"] /\ UNCHANGED <<kind, samples>>
  BY <1>2 DEF WriteRecord, GoTo
<1>4. kind = "sessions"
  BY <1>3 DEF Once, Kept
<1>5. pc'[w] = "stored" /\ \A v \in Writers \ {w} : pc'[v] = pc[v]
  BY <1>1, <1>3
<1>6. e \notin Attempted
  <2>1. ASSUME NEW v \in Writers, MayHaveStored(v, e) PROVE FALSE
    <3>1. CASE e = Frame(v)
      BY <3>1, <1>2, EntriesDiffer
    <3>2. CASE pc[v] = "stored" /\ e = Record(v)
      BY <3>2, <1>2, <1>3, EntriesDiffer
    <3> QED
      BY <2>1, <3>1, <3>2, <1>4 DEF MayHaveStored
  <2> QED
    BY <2>1 DEF Attempted
<1>7. e \in Attempted'
  <2>1. MayHaveStored(w, e)'
    BY <1>2, <1>3, <1>4, <1>5 DEF MayHaveStored, Record
  <2> QED
    BY <2>1 DEF Attempted, Entries
<1>8. Attempted \subseteq Attempted'
  <2>1. ASSUME NEW v \in Writers, NEW x \in Entries, MayHaveStored(v, x) PROVE MayHaveStored(v, x)'
    BY <2>1, <1>3, <1>4, <1>5 DEF MayHaveStored, Frame, Record
  <2> QED
    BY <2>1 DEF Attempted, Entries
<1>9. ASSUME NEW v \in Writers PROVE Written(v)' \subseteq Written(v) \cup {e}
  <2>1. CASE v = w
    BY <2>1, <1>2, <1>3, <1>4, <1>5 DEF Written, Frame, Record
  <2>2. CASE v # w
    BY <2>2, <1>3, <1>4, <1>5 DEF Written, Frame, Record
  <2> QED
    BY <2>1, <2>2
<1>10. kind' # "sessions" => \A v \in Writers : pc'[v] \notin {"frame", "record"}
  BY <1>3, <1>4
<1> QED
  BY <1>1, <1>3, <1>6, <1>7, <1>8, <1>9, <1>10, WritesOnce

\* The steps of a writer that append nothing.
LEMMA LookingOnce ==
  ASSUME HeaderInv, Once, NEW w \in Writers,
         Begin(w) \/ TakeUp(w) \/ TestExists(w) \/ TestSize(w) \/ Open(w) \/ WriteFails(w)
  PROVE  Once'
<1>1. stored \in Seq(Seq(Entries)) /\ pc \in [Writers -> Whereabouts]
  BY DEF HeaderInv, Typed, Files, Counters, Whereabouts
<1>2. stored' = stored \/ stored' = Append(stored, <<>>)
  BY DEF Begin, TakeUp, TestExists, TestSize, Open, WriteFails, logVars
<1>3. UNCHANGED <<kind, samples>>
  BY DEF Begin, TakeUp, TestExists, TestSize, Open, WriteFails
<1>4. PICK where \in Whereabouts \ {"stored", "record"} :
        /\ pc' = [pc EXCEPT ![w] = where]
        /\ pc[w] \notin Finished
        /\ pc[w] = "record" => where = "failed"
        /\ kind # "sessions" => where # "frame"
  <2> DEFINE Goes(where) ==
        /\ pc' = [pc EXCEPT ![w] = where]
        /\ pc[w] \notin Finished
        /\ pc[w] = "record" => where = "failed"
        /\ kind # "sessions" => where # "frame"
  <2>1. ASSUME Begin(w) PROVE Goes("queued") \/ Goes("frame") \/ Goes("open") \/ Goes("exists")
    BY <2>1 DEF Begin, FirstStep, GoTo, Finished
  <2>8. ASSUME TakeUp(w) PROVE Goes("frame") \/ Goes("open") \/ Goes("exists")
    BY <2>8 DEF TakeUp, FirstStep, GoTo, Finished
  <2>2. ASSUME TestExists(w) PROVE Goes("open") \/ Goes("size")
    BY <2>2 DEF TestExists, GoTo, Finished
  <2>3. ASSUME TestSize(w) PROVE Goes("failed") \/ Goes("open")
    BY <2>3 DEF TestSize, GoTo, Finished
  <2>4. ASSUME Open(w) PROVE Goes("write")
    BY <2>4 DEF Open, GoTo, Finished
  <2>5. ASSUME WriteFails(w) PROVE Goes("failed")
    BY <2>5 DEF WriteFails, GoTo, Finished
  <2>6. {"queued", "frame", "open", "exists", "size", "write", "failed"} \subseteq Whereabouts \ {"stored", "record"}
    BY DEF Whereabouts, AtRest, Finished
  <2> HIDE DEF Goes
  <2>7. \E where \in {"queued", "frame", "open", "exists", "size", "write", "failed"} : Goes(where)
    BY <2>1, <2>2, <2>3, <2>4, <2>5, <2>8
  <2> QED
    BY <2>6, <2>7 DEF Goes
<1>5. Attempted \subseteq Attempted' /\ \A v \in Writers : Written(v)' \subseteq Written(v)
  BY <1>1, <1>3, <1>4, MovesOn
<1>6. kind' # "sessions" => \A v \in Writers : pc'[v] \notin {"frame", "record"}
  BY <1>1, <1>3, <1>4 DEF Once, Kept
<1> QED
  BY <1>1, <1>2, <1>5, <1>6, StayOnce

LEMMA NextOnce == HeaderInv /\ Once /\ [Next]_vars => Once'
<1> SUFFICES ASSUME HeaderInv, Once, [Next]_vars PROVE Once'
  OBVIOUS
<1>1. CASE \/ \E w \in Writers : TaskDone(w)
           \/ close \/ Closed \/ Archive \/ Recreate \/ UNCHANGED vars
  <2>1. stored \in Seq(Seq(Entries))
    BY DEF HeaderInv, Typed, Files
  <2>2. stored' = stored \/ stored' = Append(stored, <<>>)
    BY <1>1 DEF TaskDone, close, Closed, Archive, Recreate, vars, logVars
  <2>3. UNCHANGED <<kind, pc, samples>>
    BY <1>1 DEF TaskDone, close, Closed, Archive, Recreate, vars, writerVars
  <2>4. Attempted' = Attempted
    BY <2>3 DEF Attempted, MayHaveStored, Entries, Row, Frame, Record
  <2>5. \A v \in Writers : Written(v)' = Written(v)
    BY <2>3 DEF Written, Row, Frame, Record
  <2>6. kind' # "sessions" => \A v \in Writers : pc'[v] \notin {"frame", "record"}
    BY <2>3 DEF Once, Kept
  <2> QED
    BY <2>1, <2>2, <2>4, <2>5, <2>6, StayOnce
<1>2. CASE LoopEnds
  <2>1. /\ UNCHANGED <<kind, stored, samples>> /\ stored \in Seq(Seq(Entries))
        /\ pc' = [w \in Writers |-> IF pc[w] = "queued" THEN "lost" ELSE pc[w]]
    BY <1>2 DEF LoopEnds, logVars, HeaderInv, Typed, Files
  <2>2. \A w \in Writers, where \in {"frame", "record", "stored", "failed"} :
          pc'[w] = where <=> pc[w] = where
    BY <2>1
  <2>3. \A w \in Writers, e \in Entries : MayHaveStored(w, e)' = MayHaveStored(w, e)
    BY <2>1, <2>2 DEF MayHaveStored, Row, Frame, Record
  <2>4. Attempted \subseteq Attempted'
    BY <2>3 DEF Attempted, Entries
  <2>5. \A w \in Writers : Written(w)' = Written(w)
    BY <2>1, <2>2 DEF Written, Row, Frame, Record
  <2>6. kind' # "sessions" => \A w \in Writers : pc'[w] \notin {"frame", "record"}
    BY <2>1, <2>2 DEF Once, Kept
  <2> QED
    BY <2>1, <2>4, <2>5, <2>6, StayOnce
<1> QED
  BY <1>1, <1>2, LookingOnce, WriteOnce, SampleOnce, StopOnce, FrameOnce, RecordOnce DEF Next, WriterStep

-----------------------------------------------------------------------------
(* A record and its frame *)

\* The frame of a record that is yet to be written is in the directory the path names, or
\* the script has come since and the path, if anything, names a directory made later; and
\* a record that is stored is beside its frame or, if it was parted from it, in a later
\* directory.
Beside ==
  /\ \A w \in Writers : pc[w] = "record" =>
       \E g \in 1..Len(stored) :
         /\ StoredIn(Frame(w), g)
         /\ tested[w] = resets => path = g
         /\ tested[w] # resets /\ path # 0 => g < path
  /\ \A w \in Writers : \A f \in 1..Len(stored) :
       StoredIn(Record(w), f) =>
         \/ StoredIn(Frame(w), f)
         \/ w \in parted /\ \E g \in 1..(f - 1) : StoredIn(Frame(w), g)

\* Only the blackbox stores records.
LEMMA OnlySessions ==
  ASSUME Once, NEW w \in Writers, NEW f \in 1..Len(stored), StoredIn(Record(w), f)
  PROVE  kind = "sessions"
<1>1. PICK i \in 1..Len(stored[f]) : stored[f][i] = Record(w)
  BY DEF StoredIn
<1>2. stored[f][i] \in Attempted
  <2>1. stored[f][i] # Header
    BY <1>1, EntriesDiffer
  <2> QED
    BY <2>1 DEF Once, Accounted
<1>3. PICK v \in Writers : MayHaveStored(v, Record(w))
  BY <1>1, <1>2 DEF Attempted
<1> QED
  BY <1>3, EntriesDiffer DEF MayHaveStored

LEMMA NothingBeside ==
  ASSUME Once, kind # "sessions" PROVE Beside
BY OnlySessions DEF Beside, Once, Kept

\* A step that appends nothing, and at most makes a file or moves the log away.
LEMMA StayBeside ==
  ASSUME HeaderInv, Beside,
         stored' = stored \/ stored' = Append(stored, <<>>),
         \/ path' = path /\ resets' = resets
         \/ path = 0 /\ path' = Len(stored) + 1 /\ resets' = resets
         \/ path' = 0 /\ resets' = resets + 1,
         \A v \in Writers : pc'[v] = "record" => pc[v] = "record" /\ tested'[v] = tested[v],
         parted' = parted
  PROVE  Beside'
<1>1. /\ stored \in Seq(Seq(Entries)) /\ path \in 0..Len(stored)
      /\ resets \in Nat /\ tested \in [Writers -> 0..resets]
  BY DEF HeaderInv, Typed, Files, Counters
<1>2. /\ \A g \in 1..Len(stored) : g \in 1..Len(stored') /\ stored'[g] = stored[g]
      /\ \A g \in 1..Len(stored') : g \in 1..Len(stored) \/ Len(stored'[g]) = 0
  <2>1. CASE stored' = stored
    BY <2>1
  <2>2. CASE stored' = Append(stored, <<>>)
    <3>1. Len(stored') = Len(stored) + 1 /\ Len(stored) \in Nat /\ stored'[Len(stored) + 1] = <<>>
      BY <1>1, <2>2
    <3>2. \A g \in 1..Len(stored) : g \in 1..Len(stored') /\ stored'[g] = stored[g]
      BY <1>1, <2>2
    <3> QED
      BY <3>1, <3>2
  <2> QED
    BY <2>1, <2>2
<1>3. \A v \in Writers, g \in 1..Len(stored) :
        /\ StoredIn(Frame(v), g)' <=> StoredIn(Frame(v), g)
        /\ StoredIn(Record(v), g)' <=> StoredIn(Record(v), g)
  BY <1>2 DEF StoredIn, Frame, Record
<1>4. \A v \in Writers, g \in 1..Len(stored') : StoredIn(Record(v), g)' => g \in 1..Len(stored)
  BY <1>2 DEF StoredIn
<1>5. ASSUME NEW v \in Writers, pc'[v] = "record"
      PROVE  \E g \in 1..Len(stored') :
               /\ StoredIn(Frame(v), g)'
               /\ tested'[v] = resets' => path' = g
               /\ tested'[v] # resets' /\ path' # 0 => g < path'
  <2>1. PICK g \in 1..Len(stored) :
          /\ StoredIn(Frame(v), g)
          /\ tested[v] = resets => path = g
          /\ tested[v] # resets /\ path # 0 => g < path
    BY <1>5 DEF Beside
  <2>2. g \in 1..Len(stored') /\ StoredIn(Frame(v), g)'
    BY <1>2, <1>3, <2>1
  <2>3. tested'[v] = tested[v] /\ tested[v] \in 0..resets
    BY <1>1, <1>5
  <2>4. /\ tested'[v] = resets' => path' = g
        /\ tested'[v] # resets' /\ path' # 0 => g < path'
    BY <1>1, <2>1, <2>3
  <2> QED
    BY <2>2, <2>4
<1>6. ASSUME NEW v \in Writers, NEW f \in 1..Len(stored'), StoredIn(Record(v), f)'
      PROVE  \/ StoredIn(Frame(v), f)'
             \/ v \in parted' /\ \E g \in 1..(f - 1) : StoredIn(Frame(v), g)'
  <2>1. f \in 1..Len(stored) /\ StoredIn(Record(v), f)
    BY <1>3, <1>4, <1>6
  <2>2. CASE StoredIn(Frame(v), f)
    BY <1>3, <2>1, <2>2
  <2>3. CASE v \in parted /\ \E g \in 1..(f - 1) : StoredIn(Frame(v), g)
    <3>1. PICK g \in 1..(f - 1) : StoredIn(Frame(v), g)
      BY <2>3
    <3>2. g \in 1..Len(stored)
      BY <1>1, <2>1
    <3> QED
      BY <1>3, <2>3, <3>1, <3>2
  <2> QED
    BY <2>1, <2>2, <2>3 DEF Beside
<1> QED
  BY <1>5, <1>6 DEF Beside, Frame, Record

\* An append to the directory: what was there is there still, and what is new is the entry.
LEMMA DirectoryGrows ==
  ASSUME stored \in Seq(Seq(Entries)), NEW f \in 1..Len(stored), NEW e \in Entries,
         Append_to(f, <<e>>)
  PROVE  /\ Len(stored') = Len(stored)
         /\ StoredIn(e, f)'
         /\ \A x : \A g \in 1..Len(stored) :
              /\ StoredIn(x, g) => \E i \in 1..Len(stored'[g]) : stored'[g][i] = x
              /\ (\E i \in 1..Len(stored'[g]) : stored'[g][i] = x) => StoredIn(x, g) \/ (g = f /\ x = e)
<1>1. <<e>> \in Seq(Entries) /\ Len(<<e>>) = 1 /\ <<e>>[1] = e
  OBVIOUS
<1>2. PICK entries \in Seq(Entries) : entries = <<e>> /\ Len(entries) = 1 /\ entries[1] = e
  BY <1>1
<1>3. /\ Len(stored') = Len(stored)
      /\ \A g \in 1..Len(stored) : \A i \in 1..Len(stored[g]) :
           i \in 1..Len(stored'[g]) /\ stored'[g][i] = stored[g][i]
      /\ \A k \in 1..Len(entries) :
           Len(stored[f]) + k \in 1..Len(stored'[f]) /\ stored'[f][Len(stored[f]) + k] = entries[k]
      /\ \A g \in 1..Len(stored) : \A i \in 1..Len(stored'[g]) :
           i \notin 1..Len(stored[g]) => g = f /\ \E k \in 1..Len(entries) : i = Len(stored[f]) + k
  BY <1>2, PlacesAppended
<1>4. Len(stored[f]) + 1 \in 1..Len(stored'[f]) /\ stored'[f][Len(stored[f]) + 1] = e
  BY <1>2, <1>3
<1>5. ASSUME NEW x, NEW g \in 1..Len(stored), NEW i \in 1..Len(stored'[g]), stored'[g][i] = x
      PROVE  StoredIn(x, g) \/ (g = f /\ x = e)
  <2>1. CASE i \in 1..Len(stored[g])
    BY <1>3, <1>5, <2>1 DEF StoredIn
  <2>2. CASE i \notin 1..Len(stored[g])
    <3>1. g = f /\ i = Len(stored[f]) + 1
      BY <1>2, <1>3, <2>2
    <3> QED
      BY <1>4, <1>5, <3>1
  <2> QED
    BY <2>1, <2>2
<1>6. StoredIn(e, f)'
  <2>1. Len(stored[f]) + 1 \in 1..Len(stored'[f]) /\ stored'[f][Len(stored[f]) + 1] = e
    BY <1>4
  <2> QED
    BY <2>1 DEF StoredIn
<1>7. ASSUME NEW x, NEW g \in 1..Len(stored), StoredIn(x, g)
      PROVE  \E i \in 1..Len(stored'[g]) : stored'[g][i] = x
  <2>1. PICK i \in 1..Len(stored[g]) : stored[g][i] = x
    BY <1>7 DEF StoredIn
  <2> QED
    BY <1>3, <2>1
<1>8. ASSUME NEW x, NEW g \in 1..Len(stored), \E i \in 1..Len(stored'[g]) : stored'[g][i] = x
      PROVE  StoredIn(x, g) \/ (g = f /\ x = e)
  BY <1>5, <1>8
<1>9. Len(stored') = Len(stored)
  BY <1>3
<1> QED
  BY <1>6, <1>7, <1>8, <1>9

\* The frame is written where the path leads, and where it leads is remembered.
LEMMA FrameBeside ==
  ASSUME HeaderInv, Beside, NEW w \in Writers, WriteFrame(w) PROVE Beside'
<1>1. /\ stored \in Seq(Seq(Entries)) /\ path \in 1..Len(stored)
      /\ pc \in [Writers -> Whereabouts] /\ tested \in [Writers -> 0..resets]
  BY DEF HeaderInv, Typed, Files, Counters, WriteFrame
<1>2. PICK e \in Entries : e = Frame(w)
  BY EntryTypes
<1>3. /\ Append_to(path, <<e>>) /\ pc' = [pc EXCEPT ![w] = "record"]
      /\ tested' = [tested EXCEPT ![w] = resets] /\ UNCHANGED <<path, resets, parted>>
  BY <1>2 DEF WriteFrame, GoTo, resetVars
<1>4. /\ Len(stored') = Len(stored)
      /\ StoredIn(e, path)'
      /\ \A x : \A g \in 1..Len(stored) :
           /\ StoredIn(x, g) => \E i \in 1..Len(stored'[g]) : stored'[g][i] = x
           /\ (\E i \in 1..Len(stored'[g]) : stored'[g][i] = x) => StoredIn(x, g) \/ (g = path /\ x = e)
  BY <1>1, <1>3, DirectoryGrows
<1>5. StoredIn(Frame(w), path)'
  BY <1>2, <1>3, <1>4 DEF StoredIn, Frame
<1>6. \A v \in Writers, g \in 1..Len(stored) : StoredIn(Frame(v), g) => StoredIn(Frame(v), g)'
  BY <1>4 DEF StoredIn, Frame
<1>7. ASSUME NEW v \in Writers, NEW g \in 1..Len(stored), StoredIn(Record(v), g)' PROVE StoredIn(Record(v), g)
  <2>1. \E i \in 1..Len(stored'[g]) : stored'[g][i] = Record(v)
    BY <1>7 DEF StoredIn, Record
  <2>2. Record(v) # e
    BY <1>2, EntriesDiffer
  <2> QED
    BY <1>4, <2>1, <2>2
<1>8. ASSUME NEW v \in Writers, pc'[v] = "record"
      PROVE  \E g \in 1..Len(stored') :
               /\ StoredIn(Frame(v), g)'
               /\ tested'[v] = resets' => path' = g
               /\ tested'[v] # resets' /\ path' # 0 => g < path'
  <2>1. CASE v = w
    <3>1. tested'[v] = resets' /\ path' = path /\ path \in 1..Len(stored')
      BY <1>1, <1>3, <1>4, <2>1
    <3> QED
      BY <1>5, <2>1, <3>1
  <2>2. CASE v # w
    <3>1. pc[v] = "record" /\ tested'[v] = tested[v]
      BY <1>1, <1>3, <1>8, <2>2
    <3>2. PICK g \in 1..Len(stored) :
            /\ StoredIn(Frame(v), g)
            /\ tested[v] = resets => path = g
            /\ tested[v] # resets /\ path # 0 => g < path
      BY <3>1 DEF Beside
    <3> QED
      BY <1>3, <1>4, <1>6, <3>1, <3>2
  <2> QED
    BY <2>1, <2>2
<1>9. ASSUME NEW v \in Writers, NEW f \in 1..Len(stored'), StoredIn(Record(v), f)'
      PROVE  \/ StoredIn(Frame(v), f)'
             \/ v \in parted' /\ \E g \in 1..(f - 1) : StoredIn(Frame(v), g)'
  <2>1. f \in 1..Len(stored) /\ StoredIn(Record(v), f)
    BY <1>4, <1>7, <1>9
  <2>2. CASE StoredIn(Frame(v), f)
    BY <1>6, <2>1, <2>2
  <2>3. CASE v \in parted /\ \E g \in 1..(f - 1) : StoredIn(Frame(v), g)
    <3>1. PICK g \in 1..(f - 1) : StoredIn(Frame(v), g)
      BY <2>3
    <3>2. g \in 1..Len(stored)
      BY <1>1, <2>1
    <3> QED
      BY <1>3, <1>6, <2>3, <3>1, <3>2
  <2> QED
    BY <2>1, <2>2, <2>3 DEF Beside
<1> QED
  BY <1>8, <1>9 DEF Beside, Frame, Record

\* The record is written where the path leads: beside the frame, unless the script has
\* come in between.
LEMMA RecordBeside ==
  ASSUME HeaderInv, Beside, NEW w \in Writers, WriteRecord(w) PROVE Beside'
<1>1. /\ stored \in Seq(Seq(Entries)) /\ path \in 1..Len(stored)
      /\ pc \in [Writers -> Whereabouts] /\ tested \in [Writers -> 0..resets]
  BY DEF HeaderInv, Typed, Files, Counters, WriteRecord
<1>2. PICK e \in Entries : e = Record(w)
  BY EntryTypes
<1>3. /\ pc[w] = "record" /\ Append_to(path, <<e>>) /\ pc' = [pc EXCEPT ![w] = "stored"]
      /\ parted' = IF tested[w] = resets THEN parted ELSE parted \cup {w}
      /\ UNCHANGED <<path, resets, tested>>
  BY <1>2 DEF WriteRecord, GoTo
<1>4. /\ Len(stored') = Len(stored)
      /\ \A x : \A g \in 1..Len(stored) :
           /\ StoredIn(x, g) => \E i \in 1..Len(stored'[g]) : stored'[g][i] = x
           /\ (\E i \in 1..Len(stored'[g]) : stored'[g][i] = x) => StoredIn(x, g) \/ (g = path /\ x = e)
  BY <1>1, <1>3, DirectoryGrows
<1>5. \A v \in Writers, g \in 1..Len(stored) : StoredIn(Frame(v), g) => StoredIn(Frame(v), g)'
  BY <1>4 DEF StoredIn, Frame
<1>6. ASSUME NEW v \in Writers, NEW g \in 1..Len(stored), StoredIn(Record(v), g)'
      PROVE  StoredIn(Record(v), g) \/ (v = w /\ g = path)
  <2>1. \E i \in 1..Len(stored'[g]) : stored'[g][i] = Record(v)
    BY <1>6 DEF StoredIn, Record
  <2>2. Record(v) = e => v = w
    BY <1>2, EntriesDiffer
  <2> QED
    BY <1>4, <2>1, <2>2
<1>7. ASSUME NEW v \in Writers, pc'[v] = "record"
      PROVE  \E g \in 1..Len(stored') :
               /\ StoredIn(Frame(v), g)'
               /\ tested'[v] = resets' => path' = g
               /\ tested'[v] # resets' /\ path' # 0 => g < path'
  <2>1. pc[v] = "record" /\ tested'[v] = tested[v]
    BY <1>1, <1>3, <1>7
  <2>2. PICK g \in 1..Len(stored) :
          /\ StoredIn(Frame(v), g)
          /\ tested[v] = resets => path = g
          /\ tested[v] # resets /\ path # 0 => g < path
    BY <2>1 DEF Beside
  <2> QED
    BY <1>3, <1>4, <1>5, <2>1, <2>2
<1>8. ASSUME NEW v \in Writers, NEW f \in 1..Len(stored'), StoredIn(Record(v), f)'
      PROVE  \/ StoredIn(Frame(v), f)'
             \/ v \in parted' /\ \E g \in 1..(f - 1) : StoredIn(Frame(v), g)'
  <2>1. f \in 1..Len(stored)
    BY <1>4
  <2>2. CASE StoredIn(Record(v), f)
    <3>1. CASE StoredIn(Frame(v), f)
      BY <1>5, <2>1, <3>1
    <3>2. CASE v \in parted /\ \E g \in 1..(f - 1) : StoredIn(Frame(v), g)
      <4>1. PICK g \in 1..(f - 1) : StoredIn(Frame(v), g)
        BY <3>2
      <4>2. g \in 1..Len(stored) /\ v \in parted'
        BY <1>1, <1>3, <2>1, <3>2
      <4> QED
        BY <1>5, <4>1, <4>2
    <3> QED
      BY <2>1, <2>2, <3>1, <3>2 DEF Beside
  <2>3. CASE v = w /\ f = path
    <3>1. PICK g \in 1..Len(stored) :
            /\ StoredIn(Frame(w), g)
            /\ tested[w] = resets => path = g
            /\ tested[w] # resets /\ path # 0 => g < path
      BY <1>3 DEF Beside
    <3>2. StoredIn(Frame(w), g)'
      BY <1>5, <3>1
    <3>3. CASE tested[w] = resets
      BY <2>3, <3>1, <3>2, <3>3
    <3>4. CASE tested[w] # resets
      <4>1. g \in 1..(f - 1) /\ w \in parted'
        BY <1>1, <1>3, <2>3, <3>1, <3>4
      <4> QED
        BY <2>3, <3>2, <4>1
    <3> QED
      BY <3>3, <3>4
  <2> QED
    BY <1>6, <1>8, <2>1, <2>2, <2>3
<1> QED
  BY <1>7, <1>8 DEF Beside, Frame, Record

LEMMA NextBeside == HeaderInv /\ Once /\ Once' /\ Beside /\ [Next]_vars => Beside'
<1> SUFFICES ASSUME HeaderInv, Once, Once', Beside, [Next]_vars PROVE Beside'
  OBVIOUS
<1>1. kind' = kind
  BY DEF Next, WriterStep, Begin, TakeUp, TaskDone, close, Closed, LoopEnds, Archive, Recreate,
         TestExists, TestSize, Open, Write, WriteFails, Sample, Stop, WriteFrame, WriteRecord, vars
<1>2. CASE kind # "sessions"
  <2>1. kind' # "sessions"
    BY <1>1, <1>2
  <2>2. (Once /\ kind # "sessions" => Beside)'
    BY NothingBeside, PTL
  <2> QED
    BY <2>1, <2>2
<1>3. CASE kind = "sessions"
  <2>1. /\ stored \in Seq(Seq(Entries)) /\ pc \in [Writers -> Whereabouts]
        /\ path \in 0..Len(stored)
    BY DEF HeaderInv, Typed, Files, Counters
  <2> DEFINE Stays ==
        /\ stored' = stored \/ stored' = Append(stored, <<>>)
        /\ \/ path' = path /\ resets' = resets
           \/ path = 0 /\ path' = Len(stored) + 1 /\ resets' = resets
           \/ path' = 0 /\ resets' = resets + 1
        /\ \A v \in Writers : pc'[v] = "record" => pc[v] = "record" /\ tested'[v] = tested[v]
        /\ parted' = parted
  <2>2. ASSUME NEW w \in Writers,
               \/ Begin(w) \/ TakeUp(w) \/ TestExists(w) \/ TestSize(w) \/ Open(w) \/ WriteFails(w)
               \/ TaskDone(w)
        PROVE  Stays
    <3>1. stored' = stored \/ stored' = Append(stored, <<>>)
      BY <2>2 DEF Begin, TakeUp, TestExists, TestSize, Open, WriteFails, TaskDone, logVars
    <3>2. /\ resets' = resets /\ parted' = parted
          /\ path' = path \/ (path = 0 /\ path' = Len(stored) + 1)
      BY <2>2 DEF Begin, TakeUp, TestExists, TestSize, Open, WriteFails, TaskDone, logVars, resetVars
    <3>3. CASE TaskDone(w)
      BY <3>1, <3>2, <3>3 DEF TaskDone, writerVars
    <3>4. CASE ~TaskDone(w)
      <4>1. FirstStep \in {"frame", "open", "exists"}
        BY DEF FirstStep
      <4>2. \E where \in {"queued", "frame", "open", "exists", "size", "write", "failed"} :
              pc' = [pc EXCEPT ![w] = where]
        BY <2>2, <3>4, <4>1 DEF Begin, TakeUp, TestExists, TestSize, Open, WriteFails, GoTo
      <4>3. pc'[w] # "record" /\ \A v \in Writers \ {w} : pc'[v] = pc[v]
        BY <2>1, <4>2
      <4>6. tested' = tested \/ tested' = [tested EXCEPT ![w] = resets]
        BY <2>2 DEF Begin, TakeUp, TestExists, TestSize, Open, WriteFails, TaskDone, writerVars
      <4>4. \A v \in Writers \ {w} : tested'[v] = tested[v]
        <5>1. tested \in [Writers -> 0..resets]
          BY DEF HeaderInv, Typed, Counters
        <5> QED
          BY <4>6, <5>1
      <4>5. \A v \in Writers : pc'[v] = "record" => pc[v] = "record" /\ tested'[v] = tested[v]
        BY <4>3, <4>4
      <4> QED
        BY <3>1, <3>2, <4>5
    <3> QED
      BY <3>3, <3>4
  <2>3. ASSUME close \/ Closed \/ LoopEnds \/ Archive \/ Recreate \/ UNCHANGED vars
        PROVE  Stays
    <3>1. CASE close \/ Closed \/ UNCHANGED vars
      <4>1. UNCHANGED <<stored, path, resets, pc, tested, parted>>
        BY <3>1 DEF close, Closed, vars, logVars, writerVars, resetVars
      <4> QED
        BY <4>1
    <3>2. CASE LoopEnds
      <4>1. /\ UNCHANGED <<stored, path, resets, tested, parted>>
            /\ pc' = [w \in Writers |-> IF pc[w] = "queued" THEN "lost" ELSE pc[w]]
        BY <3>2 DEF LoopEnds, logVars, resetVars
      <4>2. \A v \in Writers : pc'[v] = "record" => pc[v] = "record"
        BY <4>1
      <4> QED
        BY <4>1, <4>2
    <3>3. CASE Archive \/ Recreate
      <4>1. UNCHANGED <<pc, tested, parted>>
        BY <3>3 DEF Archive, Recreate, writerVars, resetVars
      <4>2. stored' = stored \/ stored' = Append(stored, <<>>)
        BY <3>3 DEF Archive, Recreate
      <4>3. \/ path = 0 /\ path' = Len(stored) + 1 /\ resets' = resets
            \/ path' = 0 /\ resets' = resets + 1
        BY <3>3 DEF Archive, Recreate, resetVars
      <4> QED
        BY <4>1, <4>2, <4>3
    <3> QED
      BY <2>3, <3>1, <3>2, <3>3
  <2>4. ASSUME NEW w \in Writers, Write(w) \/ Sample(w) \/ Stop(w) PROVE FALSE
    BY <1>3, <2>4 DEF Write, Sample, Stop
  <2>5. Stays => Beside'
    BY StayBeside
  <2> HIDE DEF Stays
  <2> QED
    BY <2>2, <2>3, <2>4, <2>5, FrameBeside, RecordBeside DEF Next, WriterStep
<1> QED
  BY <1>2, <1>3

-----------------------------------------------------------------------------
(* What the two invariants say of the places *)

\* A set with one place, or with one at least.
LEMMA PlacesOf ==
  ASSUME NEW entry
  PROVE  \A f, i : <<f, i>> \in Places(entry)
                     <=> f \in 1..Len(stored) /\ i \in 1..Len(stored[f]) /\ stored[f][i] = entry
BY DEF Places

LEMMA PlacesArePairs ==
  ASSUME NEW entry, NEW p \in Places(entry)
  PROVE  \E f \in 1..Len(stored) : \E i \in 1..Len(stored[f]) : p = <<f, i>> /\ stored[f][i] = entry
BY DEF Places

LEMMA OnceMeansWrittenOnce == Once /\ Beside => WrittenOnce
<1> SUFFICES ASSUME Once, Beside, NEW w \in Writers
    PROVE  \A entry \in Written(w) : Cardinality(Places(entry)) = 1
  BY DEF WrittenOnce, Beside
<1>1. \A a, b \in 1..Len(stored) : \A k \in 1..Len(stored[a]), l \in 1..Len(stored[b]) :
        stored[a][k] # Header /\ stored[a][k] = stored[b][l] => a = b /\ k = l
  BY DEF Once, Accounted
<1>2. ASSUME NEW v \in Writers, NEW entry \in Written(v) PROVE Places(entry) # {}
  <2>1. PICK f \in 1..Len(stored) : \E i \in 1..Len(stored[f]) : stored[f][i] = entry
    BY DEF Once, Kept
  <2>2. PICK i \in 1..Len(stored[f]) : stored[f][i] = entry
    BY <2>1
  <2>3. <<f, i>> \in Places(entry)
    BY <2>2, PlacesOf
  <2> QED
    BY <2>3
<1>3. ASSUME NEW entry \in Written(w) PROVE entry # Header
  BY <1>3, EntriesDiffer DEF Written
<1>4. ASSUME NEW entry \in Written(w) PROVE Cardinality(Places(entry)) = 1
  <2>1. PICK p : p \in Places(entry)
    BY <1>2
  <2>2. ASSUME NEW q \in Places(entry) PROVE q = p
    <3>1. PICK f \in 1..Len(stored) : \E i \in 1..Len(stored[f]) : p = <<f, i>> /\ stored[f][i] = entry
      BY <2>1, PlacesArePairs
    <3>2. PICK i \in 1..Len(stored[f]) : p = <<f, i>> /\ stored[f][i] = entry
      BY <3>1
    <3>3. PICK g \in 1..Len(stored) : \E j \in 1..Len(stored[g]) : q = <<g, j>> /\ stored[g][j] = entry
      BY <2>2, PlacesArePairs
    <3>4. PICK j \in 1..Len(stored[g]) : q = <<g, j>> /\ stored[g][j] = entry
      BY <3>3
    <3>5. stored[f][i] # Header /\ stored[f][i] = stored[g][j]
      BY <3>2, <3>4, <1>3
    <3>6. f = g /\ i = j
      BY <3>5, <1>1
    <3> QED
      BY <3>2, <3>4, <3>6
  <2>3. Places(entry) = {p}
    BY <2>1, <2>2
  <2> QED
    BY <2>3, FS_Singleton
<1> QED
  BY <1>4

\* What was written is stored exactly once, for any number of writers, samples and resets,
\* and a record of the blackbox is in the directory of its frame unless the script came
\* between the two: then it is in a later one.
THEOREM WrittenOnceHolds == Spec => []WrittenOnce
<1>1. Init => Once
  <2> SUFFICES ASSUME Init PROVE Once
    OBVIOUS
  <2>1. \A f \in 1..Len(stored) : Len(stored[f]) = 0
    <3>1. CASE stored = << <<>> >>
      BY <3>1
    <3>2. CASE stored = <<>>
      BY <3>2
    <3> QED
      BY <3>1, <3>2 DEF Init
  <2>2. Accounted
    BY <2>1 DEF Accounted
  <2>3. \A w \in Writers : Written(w) = {}
    BY DEF Init, Written
  <2>4. Kept
    BY <2>3 DEF Kept, Init
  <2> QED
    BY <2>2, <2>4 DEF Once
<1>2. Init => Beside
  <2> SUFFICES ASSUME Init PROVE Beside
    OBVIOUS
  <2>1. \A f \in 1..Len(stored) : Len(stored[f]) = 0
    <3>1. CASE stored = << <<>> >>
      BY <3>1
    <3>2. CASE stored = <<>>
      BY <3>2
    <3> QED
      BY <3>1, <3>2 DEF Init
  <2>2. \A w \in Writers : \A f \in 1..Len(stored) : ~StoredIn(Record(w), f)
    BY <2>1 DEF StoredIn
  <2> QED
    BY <2>2 DEF Init, Beside
<1>3. Spec => [](Once /\ Beside)
  BY <1>1, <1>2, NextOnce, NextBeside, HeaderInvHolds, PTL DEF Spec
<1> QED
  BY <1>3, OnceMeansWrittenOnce, PTL

-----------------------------------------------------------------------------
(* The rest of the types *)

\* What the invariant of the files leaves open: the bounds, and which files were overtaken.
Bounds ==
  /\ kind \in Kinds
  /\ status \in {"open", "closing", "closed", "ended"}
  /\ pending \subseteq Writers /\ awaited \subseteq Writers /\ parted \subseteq Writers
  /\ resets <= MaxResets
  /\ \A w \in Writers : samples[w] <= Samples
  /\ overtaken \subseteq 1..Len(stored)

\* No step takes a file away.
LEMMA FilesStay ==
  ASSUME Typed, [Next]_vars
  PROVE  Len(stored) \in Nat /\ Len(stored') \in Nat /\ Len(stored) <= Len(stored')
<1> USE DEF Typed, Files
<1>1. CASE UNCHANGED stored
  BY <1>1
<1>2. CASE stored' = Append(stored, <<>>)
  BY <1>2
<1>3. ASSUME NEW f, NEW entries, Append_to(f, entries)
      PROVE  Len(stored') = Len(stored)
  BY <1>3 DEF Append_to
<1>4. ASSUME NEW w \in Writers, Begin(w) \/ TakeUp(w) \/ WriterStep(w) \/ TaskDone(w)
      PROVE  UNCHANGED stored \/ stored' = Append(stored, <<>>) \/ \E f, e : Append_to(f, e)
  BY <1>4 DEF Begin, TakeUp, TaskDone, WriterStep, TestExists, TestSize, Open, Write, WriteFails, Sample, Stop,
              WriteFrame, WriteRecord, logVars
<1>5. CASE close \/ Closed \/ LoopEnds \/ Archive \/ Recreate \/ UNCHANGED vars
  BY <1>1, <1>2, <1>5 DEF close, Closed, LoopEnds, Archive, Recreate, vars, logVars
<1> QED
  BY <1>1, <1>2, <1>3, <1>4, <1>5 DEF Next

\* Every step keeps the bounds.
LEMMA NextBounds == HeaderInv /\ Bounds /\ [Next]_vars => Bounds'
<1> SUFFICES ASSUME HeaderInv, Bounds, [Next]_vars PROVE Bounds'
  OBVIOUS
<1> USE DEF Bounds
<1>1. Len(stored) \in Nat /\ Len(stored') \in Nat /\ Len(stored) <= Len(stored')
  BY FilesStay DEF HeaderInv
<1>2. overtaken \subseteq 1..Len(stored')
  BY <1>1
<1>3. resets \in Nat /\ samples \in [Writers -> Nat] /\ path \in 0..Len(stored)
  BY DEF HeaderInv, Typed, Files, Counters
<1>4. ASSUME NEW w \in Writers, Open(w)
      PROVE  Bounds'
  <2>1. path' \in 1..Len(stored')
    <3>1. CASE path # 0 /\ UNCHANGED logVars
      BY <1>3, <3>1 DEF logVars
    <3>2. CASE path' = Len(stored) + 1 /\ stored' = Append(stored, <<>>)
      <4>1. Len(stored') = Len(stored) + 1
        BY <3>2 DEF HeaderInv, Typed, Files
      <4> QED
        BY <1>1, <3>2, <4>1
    <3> QED
      BY <1>4, <3>1, <3>2 DEF Open
  <2>2. overtaken' \subseteq 1..Len(stored')
    BY <1>2, <1>4, <2>1 DEF Open
  <2> QED
    BY <1>4, <2>2 DEF Open, closeVars
<1>5. ASSUME NEW w \in Writers, Sample(w)
      PROVE  Bounds'
  <2>1. samples[w] < Samples /\ samples' = [samples EXCEPT ![w] = @ + 1]
    BY <1>5 DEF Sample
  <2>2. \A v \in Writers : samples'[v] <= Samples
    BY <1>3, <2>1, LogAssumption
  <2> QED
    BY <1>2, <1>5, <2>2 DEF Sample, closeVars, resetVars
<1>6. ASSUME NEW w \in Writers,
             \/ Begin(w) \/ TakeUp(w) \/ TaskDone(w)
             \/ TestExists(w) \/ TestSize(w) \/ Write(w) \/ WriteFails(w)
             \/ Stop(w) \/ WriteFrame(w) \/ WriteRecord(w)
      PROVE  Bounds'
  BY <1>2, <1>6 DEF Begin, TakeUp, TaskDone, writerVars, TestExists, TestSize, Write, WriteFails, Stop, WriteFrame,
                    WriteRecord, closeVars, resetVars
<1>7. CASE close \/ Closed \/ LoopEnds \/ Recreate \/ UNCHANGED vars
  BY <1>2, <1>7 DEF close, Closed, LoopEnds, Recreate, vars, writerVars, closeVars, resetVars
<1>8. CASE Archive
  BY <1>2, <1>3, <1>8, LogAssumption DEF Archive, writerVars, closeVars
<1> QED
  BY <1>4, <1>5, <1>6, <1>7, <1>8 DEF Next, WriterStep

\* Files and writers keep their types, and the numbers their bounds.
THEOREM TypeCorrect == Spec => []TypeOK
<1>1. Init => Bounds
  BY LogAssumption DEF Init, Bounds
<1>2. HeaderInv /\ Bounds => TypeOK
  <2> SUFFICES ASSUME HeaderInv, Bounds PROVE TypeOK
    OBVIOUS
  <2>1. Files /\ Counters
    BY DEF HeaderInv, Typed
  <2>2. samples \in [Writers -> 0..Samples] /\ resets \in 0..MaxResets
        /\ tested \in [Writers -> 0..MaxResets]
    BY <2>1, LogAssumption DEF Counters, Bounds
  <2> QED
    BY <2>1, <2>2 DEF Files, Counters, Bounds, TypeOK, Whereabouts, AtRest
<1> QED
  BY <1>1, <1>2, HeaderInvHolds, NextBounds, PTL DEF Spec
=============================================================================
