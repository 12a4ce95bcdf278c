------------------------- MODULE CognitionServerProofs -------------------------
(***************************************************************************)
(* The server's lock and its blocking call of cognition, for every set of  *)
(* requests: one command at a time, each begun only in a state that admits *)
(* it.  The argument: a snapshot is not made stale by another build from   *)
(* the same telemetry, and while a request is being decided nothing else   *)
(* moves.  The lock is never left behind by a handler that ended, and the  *)
(* handlers together implement CommandGate.                                *)
(***************************************************************************)
EXTENDS CognitionServer, TLAPS

\* A second build from the same telemetry leaves the builder's fields alone.
LEMMA RememberTwice ==
  ASSUME NEW m \in BuilderMemory, NEW t \in Telemetry
  PROVE  /\ Remember(m, t) \in BuilderMemory
         /\ Remember(Remember(m, t), t) = Remember(m, t)
<1> DEFINE r == Remember(m, t)
           rr == Remember(r, t)
<1>1. /\ t.in_air \in BOOLEAN /\ t.armed \in BOOLEAN
      /\ m.has_been_airborne \in BOOLEAN
  BY DEF Telemetry, BuilderMemory
<1>2. r \in BuilderMemory
  BY <1>1 DEF Remember, BuilderMemory
<1>3. r.previous_armed = IF t.armed THEN "yes" ELSE "no"
  BY DEF Remember
<1>4. rr.has_been_airborne = (t.in_air \/ (r.has_been_airborne /\ ~(t.armed /\ r.previous_armed = "no")))
  BY DEF Remember
<1>5. t.in_air => r.has_been_airborne
  BY DEF Remember
<1>6. ~(t.armed /\ r.previous_armed = "no")
  BY <1>3
<1>7. rr.has_been_airborne <=> r.has_been_airborne
  BY <1>4, <1>5, <1>6
<1>8. rr \in BuilderMemory
  BY <1>1, <1>2 DEF Remember, BuilderMemory
<1>9. rr.has_been_airborne = r.has_been_airborne
  BY <1>2, <1>7, <1>8 DEF BuilderMemory
<1>10. rr.previous_armed = r.previous_armed
  BY DEF Remember
<1> QED
  BY <1>2, <1>8, <1>9, <1>10 DEF BuilderMemory

\* So the snapshot of a second build is that of the first.
LEMMA SnapshotTwice ==
  ASSUME NEW m \in BuilderMemory, NEW t \in Telemetry
  PROVE  Snapshot(Remember(m, t), t) = Snapshot(m, t)
BY RememberTwice DEF Snapshot

-----------------------------------------------------------------------------

\* The inductive invariant: who decides or acts holds the lock, and the snapshot of a
\* request that is being decided is the one a build would give now, from the fields it left.
IInv ==
  /\ cache \in Telemetry
  /\ memory \in BuilderMemory
  /\ pc \in [Requests -> HandlerPcs]
  /\ OneCommandAtATime
  /\ \A r \in Requests :
       pc[r] = "deciding" =>
         snapshot = Snapshot(memory, cache) /\ memory = Remember(memory, cache)

\* What the execution of a decided command may do to the lock and to the handlers.
LEMMA ExecuteEffect ==
  ASSUME NEW r \in Requests, NEW c, NEW s, NEW m \in BuilderMemory,
         cache \in Telemetry, pc \in [Requests -> HandlerPcs], Execute(r, c, s, m)
  PROVE  /\ memory' = m \/ memory' = Remember(m, cache)
         /\ \/ pc' = [pc EXCEPT ![r] = "done"]
            \/ /\ pc' = [pc EXCEPT ![r] = "acting"]
               /\ lock' = r /\ memory' = m /\ command' = c /\ Admits(c, s)
BY DEF Execute, Respond, Finish

\* The invariant holds at first.
LEMMA InitIInv == Init => IInv
<1> SUFFICES ASSUME Init PROVE IInv
  OBVIOUS
<1>1. cache \in Telemetry
  BY DEF Init, Unknown, Telemetry, FlightModes
<1>2. memory \in BuilderMemory
  BY DEF Init, FreshBuilder, BuilderMemory
<1> QED
  BY <1>1, <1>2 DEF Init, IInv, HandlerPcs, OneCommandAtATime

\* A step of the handler of r keeps it: r has the lock, or takes it when it is free.
LEMMA HandlerKeepsIInv ==
  ASSUME IInv, NEW r \in Requests, HandlerStep(r)
  PROVE  IInv'
<1> USE DEF IInv, OneCommandAtATime, HandlerPcs
<1>1. Remember(memory, cache) \in BuilderMemory
  BY RememberTwice
<1>2. Remember(Remember(memory, cache), cache) \in BuilderMemory
  BY <1>1, RememberTwice
<1>free. ASSUME MayEnter(r)
         PROVE  /\ \A q \in Requests : pc[q] \notin {"deciding", "acting"}
  BY <1>free, ServerAssumption DEF MayEnter
<1>3. CASE HandleFast(r)
  <2>1. PICK c \in Commands : Execute(r, c, Snapshot(memory, cache), Remember(memory, cache))
    BY <1>3 DEF HandleFast
  <2>2. /\ \A q \in Requests : pc[q] \notin {"deciding", "acting"}
        /\ cache' = cache
    BY <1>3, <1>free DEF HandleFast
  <2>3. /\ memory' \in BuilderMemory
        /\ \/ pc' = [pc EXCEPT ![r] = "done"]
           \/ pc' = [pc EXCEPT ![r] = "acting"] /\ lock' = r
    BY <1>1, <1>2, <2>1, ExecuteEffect
  <2> QED
    BY <2>2, <2>3
<1>4. CASE HandleSlow(r)
  <2>1. /\ \A q \in Requests : pc[q] \notin {"deciding", "acting"}
        /\ pc' = [pc EXCEPT ![r] = "deciding"]
        /\ lock' = r /\ cache' = cache
        /\ snapshot' = Snapshot(memory, cache)
        /\ memory' = Remember(memory, cache)
    BY <1>4, <1>free DEF HandleSlow
  <2>2. snapshot' = Snapshot(memory', cache') /\ memory' = Remember(memory', cache')
    BY <2>1, RememberTwice, SnapshotTwice
  <2> QED
    BY <1>1, <2>1, <2>2
<1>5. CASE Breaks(r)
  <2>1. /\ \A q \in Requests : pc[q] \notin {"deciding", "acting"}
        /\ pc' = [pc EXCEPT ![r] = "done"]
        /\ cache' = cache /\ memory' = Remember(memory, cache)
    BY <1>5, <1>free DEF Breaks, Finish
  <2> QED
    BY <1>1, <2>1
<1>6. CASE Infer(r)
  <2>1. pc[r] = "deciding" /\ cache' = cache
    BY <1>6 DEF Infer
  <2>2. \A q \in Requests \ {r} : pc[q] \notin {"deciding", "acting"}
    BY <2>1
  <2>3. /\ memory' \in BuilderMemory
        /\ \/ pc' = [pc EXCEPT ![r] = "done"]
           \/ pc' = [pc EXCEPT ![r] = "acting"] /\ lock' = r
    <3>1. CASE \E c \in Commands : Execute(r, c, snapshot, memory)
      BY <1>1, <3>1, ExecuteEffect
    <3>2. CASE Respond(r, "not_ok") /\ UNCHANGED memory
      BY <3>2 DEF Respond, Finish
    <3> QED
      BY <1>6, <3>1, <3>2 DEF Infer
  <2> QED
    BY <2>1, <2>2, <2>3
<1>7. CASE ActReturns(r) \/ ActFails(r)
  <2>1. /\ pc[r] = "acting" /\ cache' = cache
        /\ pc' = [pc EXCEPT ![r] = "done"]
        /\ memory' = Remember(memory, cache) \/ memory' = memory
    BY <1>7 DEF ActReturns, ActFails, Respond, Finish, builderVars
  <2>2. \A q \in Requests \ {r} : pc[q] \notin {"deciding", "acting"}
    BY <2>1
  <2> QED
    BY <1>1, <2>1, <2>2
<1> QED
  BY <1>3, <1>4, <1>5, <1>6, <1>7 DEF HandlerStep

\* So does every other step: none of them moves while a request is being decided,
\* apart from the clients'.
LEMMA StepKeepsIInv == IInv /\ [Next]_vars => IInv'
<1> SUFFICES ASSUME IInv, [Next]_vars PROVE IInv'
  OBVIOUS
<1> USE DEF IInv, OneCommandAtATime
<1>1. ASSUME NEW r \in Requests, HandlerStep(r)
      PROVE  IInv'
  BY <1>1, HandlerKeepsIInv
<1>2. ASSUME NEW r \in Requests, ClientStep(r)
      PROVE  IInv'
  BY <1>2 DEF ClientStep, Post, GiveUp, Refused, lockVars, builderVars, workVars
<1>3. ASSUME NEW r \in Requests, Arrive(r)
      PROVE  IInv'
  BY <1>3 DEF Arrive, builderVars, workVars, HandlerPcs
<1>4. CASE health
  <2>1. Remember(memory, cache) \in BuilderMemory
    BY RememberTwice
  <2> QED
    BY <1>4, <2>1 DEF health, lockVars, builderVars, workVars, Blocked
<1>5. CASE Watch
  BY <1>5, ServerAssumption DEF Watch, lockVars, builderVars, workVars, Blocked
<1>6. CASE start \/ Stop \/ close
  BY <1>6 DEF start, Stop, close, lockVars, builderVars, workVars
<1>7. CASE UNCHANGED vars
  BY <1>7 DEF vars
<1> QED
  BY <1>1, <1>2, <1>3, <1>4, <1>5, <1>6, <1>7 DEF Next

\* The invariant holds throughout.
LEMMA Inductive == Spec => []IInv
BY InitIInv, StepKeepsIInv, PTL DEF Spec

-----------------------------------------------------------------------------

\* However many requests arrive, handlers that decide or act hold the lock: no two
\* commands of the server overlap.
THEOREM OneCommandAtATimeHolds == Spec => []OneCommandAtATime
<1>1. IInv => OneCommandAtATime
  BY DEF IInv
<1> QED
  BY <1>1, Inductive, PTL

\* What the builds have seen is in the builder's fields: while a flight that was seen lasts,
\* they lock takeoff; once a disarmed vehicle was seen, the next arming opens it.
Remembered ==
  /\ sight = "flight" =>
       memory.has_been_airborne /\ memory.previous_armed = "yes" /\ cache.armed
  /\ sight = "disarmed" => (memory.has_been_airborne => memory.previous_armed = "no")

\* A build, of whomever, keeps that up.
LEMMA BuildRemembers ==
  ASSUME cache \in Telemetry, memory \in BuilderMemory, Remembered,
         memory' \in {Remember(memory, cache), Remember(Remember(memory, cache), cache)},
         sight' = Sighted, cache' = cache
  PROVE  Remembered'
<1>1. memory' = Remember(memory, cache)
  BY RememberTwice
<1>2. cache.armed \in BOOLEAN /\ cache.in_air \in BOOLEAN /\ memory.has_been_airborne \in BOOLEAN
  BY DEF Telemetry, BuilderMemory
<1>3. /\ memory'.has_been_airborne
           <=> cache.in_air \/ (memory.has_been_airborne /\ ~(cache.armed /\ memory.previous_armed = "no"))
      /\ memory'.previous_armed = IF cache.armed THEN "yes" ELSE "no"
  BY <1>1 DEF Remember
<1>4. CASE cache.armed /\ cache.in_air
  BY <1>3, <1>4 DEF Remembered, Sighted
<1>5. CASE ~cache.armed /\ ~cache.in_air
  BY <1>3, <1>5 DEF Remembered, Sighted
<1>6. CASE cache.armed # cache.in_air
  <2>1. sight' = sight
    BY <1>6, <1>2 DEF Sighted
  <2> QED
    BY <1>2, <1>3, <1>6, <2>1 DEF Remembered
<1> QED
  BY <1>2, <1>4, <1>5, <1>6

\* Without a build the builder's fields stay, and a disarming ends what was seen of a flight.
LEMMA StepRemembers == IInv /\ Remembered /\ [Next]_vars => Remembered'
<1> SUFFICES ASSUME IInv, Remembered, [Next]_vars PROVE Remembered'
  OBVIOUS
<1>0. /\ cache \in Telemetry /\ memory \in BuilderMemory /\ pc \in [Requests -> HandlerPcs]
      /\ Remember(memory, cache) \in BuilderMemory
  BY RememberTwice DEF IInv
<1>1. ASSUME NEW r \in Requests, HandleFast(r)
      PROVE  Remembered'
  <2>1. PICK c \in Commands : Execute(r, c, Snapshot(memory, cache), Remember(memory, cache))
    BY <1>1 DEF HandleFast
  <2>2. memory' \in {Remember(memory, cache), Remember(Remember(memory, cache), cache)}
    BY <1>0, <2>1, ExecuteEffect
  <2> QED
    BY <1>0, <1>1, <2>2, BuildRemembers DEF HandleFast
<1>2. ASSUME NEW r \in Requests, HandleSlow(r) \/ Breaks(r) \/ ActReturns(r)
      PROVE  Remembered'
  BY <1>0, <1>2, BuildRemembers DEF HandleSlow, Breaks, ActReturns
<1>3. CASE health
  BY <1>0, <1>3, BuildRemembers DEF health
<1>4. ASSUME NEW r \in Requests, Infer(r)
      PROVE  Remembered'
  <2>1. memory' = memory \/ memory' = Remember(memory, cache)
    <3>1. CASE \E c \in Commands : Execute(r, c, snapshot, memory)
      BY <1>0, <3>1, ExecuteEffect
    <3> QED
      BY <1>4, <3>1 DEF Infer
  <2>2. cache' = cache /\ sight' = sight /\ memory = Remember(memory, cache)
    BY <1>4 DEF Infer, IInv
  <2> QED
    BY <2>1, <2>2 DEF Remembered
<1>5. ASSUME NEW r \in Requests, ActFails(r) \/ Arrive(r) \/ ClientStep(r)
      PROVE  Remembered'
  BY <1>5 DEF ActFails, Arrive, ClientStep, Post, GiveUp, Refused, builderVars, Remembered
<1>6. CASE Watch
  BY <1>6 DEF Watch, Remembered
<1>7. CASE start \/ Stop \/ close \/ UNCHANGED vars
  BY <1>7 DEF start, Stop, close, vars, builderVars, Remembered
<1> QED
  BY <1>1, <1>2, <1>3, <1>4, <1>5, <1>6, <1>7 DEF Next, HandlerStep

\* What one build has seen, a poll's among them, holds for the verdict on the next request,
\* for every set of requests and everything the vehicle may report.
THEOREM OneMemoryHolds == Spec => []OneMemory
<1>1. Init => Remembered
  BY DEF Init, Remembered
<1>2. IInv /\ Remembered => OneMemory
  <2> SUFFICES ASSUME IInv, Remembered PROVE OneMemory
    OBVIOUS
  <2>1. /\ cache.armed \in BOOLEAN /\ cache.in_air \in BOOLEAN /\ cache.connected \in BOOLEAN
        /\ memory.has_been_airborne \in BOOLEAN
    BY DEF IInv, Telemetry, BuilderMemory
  <2> DEFINE airborne == Remember(memory, cache).has_been_airborne
             st == Snapshot(memory, cache)
  <2>2. airborne <=>
          cache.in_air \/ (memory.has_been_airborne /\ ~(cache.armed /\ memory.previous_armed = "no"))
    BY DEF Remember
  <2>3. /\ st.state = OperationalState(cache, airborne)
        /\ st.connected = cache.connected /\ st.low_battery = cache.low_battery
    BY DEF Snapshot
  <2> HIDE DEF airborne, st
  <2>4. ASSUME sight = "flight" PROVE st.state # "ARMED"
    <3>1. airborne /\ cache.armed
      BY <2>1, <2>2, <2>4 DEF Remembered
    <3> QED
      BY <2>1, <2>3, <3>1 DEF OperationalState, AirborneState, GroundState
  <2>5. ASSUME sight = "disarmed", ReadyToTakeOff PROVE st.state = "ARMED"
    <3>1. ~airborne
      BY <2>1, <2>2, <2>5 DEF Remembered, ReadyToTakeOff
    <3> QED
      BY <2>1, <2>3, <2>5, <3>1 DEF OperationalState, GroundState, ReadyToTakeOff
  <2>6. Admits("takeoff", st) <=> st.connected /\ ~st.low_battery /\ st.state = "ARMED"
    BY DEF Admits, AllowedStates
  <2> QED
    BY <2>3, <2>4, <2>5, <2>6 DEF OneMemory, ReadyToTakeOff, st
<1> QED
  BY <1>1, <1>2, Inductive, StepRemembers, PTL DEF Spec

\* A step that begins a command begins it in a state that admits it.
LEMMA DispatchStep ==
  ASSUME IInv, [Next]_vars,
         NEW q \in Requests, pc[q] # "acting", pc'[q] = "acting"
  PROVE  Admits(command', Snapshot(memory', cache))
<1> USE DEF IInv, HandlerPcs
<1>1. ASSUME NEW r \in Requests, HandleFast(r)
      PROVE  Admits(command', Snapshot(memory', cache))
  <2>1. PICK c \in Commands : Execute(r, c, Snapshot(memory, cache), Remember(memory, cache))
    BY <1>1 DEF HandleFast
  <2>2. Remember(memory, cache) \in BuilderMemory
    BY RememberTwice
  <2>3. /\ memory' = Remember(memory, cache)
        /\ command' = c /\ Admits(c, Snapshot(memory, cache))
    BY <2>1, <2>2, ExecuteEffect
  <2> QED
    BY <2>3, SnapshotTwice
<1>2. ASSUME NEW r \in Requests, Infer(r)
      PROVE  Admits(command', Snapshot(memory', cache))
  <2>1. ~(pc' = [pc EXCEPT ![r] = "done"])
    OBVIOUS
  <2>2. PICK c \in Commands : Execute(r, c, snapshot, memory)
    BY <1>2, <2>1 DEF Infer, Respond, Finish
  <2>3. memory' = memory /\ command' = c /\ Admits(c, snapshot)
    BY <2>1, <2>2, ExecuteEffect
  <2>4. snapshot = Snapshot(memory, cache)
    BY <1>2 DEF Infer
  <2> QED
    BY <2>3, <2>4
<1>3. ASSUME NEW r \in Requests,
             HandleSlow(r) \/ Breaks(r) \/ ActReturns(r) \/ ActFails(r) \/ Arrive(r) \/ ClientStep(r)
      PROVE  FALSE
  BY <1>3 DEF HandleSlow, Breaks, ActReturns, ActFails, Respond, Finish, Arrive,
              ClientStep, Post, GiveUp, Refused
<1>4. CASE health \/ Watch \/ start \/ Stop \/ close \/ UNCHANGED vars
  BY <1>4 DEF health, Watch, start, Stop, close, vars
<1> QED
  BY <1>1, <1>2, <1>3, <1>4 DEF Next, HandlerStep

\* Between the snapshot the validator judged and the controller's call nothing changes,
\* for every set of requests and everything the vehicle may report.
THEOREM DispatchValidatedHolds == Spec => DispatchValidated
<1>1. IInv /\ [Next]_vars =>
        [\A r \in Requests :
           pc[r] # "acting" /\ pc'[r] = "acting" => Admits(command', Snapshot(memory', cache))]_vars
  BY DispatchStep
<1> QED
  BY <1>1, Inductive, PTL DEF Spec, DispatchValidated

-----------------------------------------------------------------------------
(* The lock *)

\* Those that wait stand in q, each once, when the handlers are at p.
Waiting(p, q) ==
  /\ \A r \in Requests : p[r] = "queued" <=> \E i \in 1..Len(q) : q[i] = r
  /\ \A i, j \in 1..Len(q) : q[i] = q[j] => i = j

\* What a handler that is past the lock still has to do.
AtWork(p, l) == l # NoRequest => p[l] \in {"deciding", "acting"}

\* The inductive invariant of the lock.
LockInv ==
  /\ lock \in Requests \cup {NoRequest}
  /\ queue \in Seq(Requests)
  /\ pc \in [Requests -> HandlerPcs]
  /\ AtWork(pc, lock)
  /\ Waiting(pc, queue)

\* One more comes to the end of the queue.
LEMMA OneMoreWaits ==
  ASSUME NEW p \in [Requests -> HandlerPcs], NEW q \in Seq(Requests), Waiting(p, q),
         NEW r \in Requests, p[r] # "queued"
  PROVE  Waiting([p EXCEPT ![r] = "queued"], Append(q, r))
<1> DEFINE a == Append(q, r)
           n == Len(q)
<1>1. n \in Nat /\ Len(a) = n + 1 /\ a[n + 1] = r
  OBVIOUS
<1>2. \A i \in 1..n : a[i] = q[i] /\ q[i] \in Requests
  OBVIOUS
<1>3. \A i \in 1..n : q[i] # r
  BY <1>2 DEF Waiting
<1>4. ASSUME NEW s \in Requests
      PROVE  (\E i \in 1..Len(a) : a[i] = s) <=> s = r \/ \E i \in 1..n : q[i] = s
  BY <1>1, <1>2
<1>5. ASSUME NEW i \in 1..Len(a), NEW j \in 1..Len(a), a[i] = a[j]
      PROVE  i = j
  <2>1. i \in 1..n \/ i = n + 1
    BY <1>1
  <2>2. j \in 1..n \/ j = n + 1
    BY <1>1
  <2> QED
    BY <1>1, <1>2, <1>3, <1>5, <2>1, <2>2 DEF Waiting
<1>6. ASSUME NEW s \in Requests
      PROVE  [p EXCEPT ![r] = "queued"][s] = "queued" <=> \E i \in 1..Len(a) : a[i] = s
  BY <1>4 DEF Waiting
<1> QED
  BY <1>5, <1>6 DEF Waiting

\* The first that waits leaves the queue, for whatever comes next.
LEMMA FirstLeaves ==
  ASSUME NEW p \in [Requests -> HandlerPcs], NEW q \in Seq(Requests), Waiting(p, q),
         q # <<>>, NEW next \in HandlerPcs \ {"queued"}
  PROVE  /\ Head(q) \in Requests /\ p[Head(q)] = "queued"
         /\ Tail(q) \in Seq(Requests)
         /\ Waiting([p EXCEPT ![Head(q)] = next], Tail(q))
<1> DEFINE r == Head(q)
           t == Tail(q)
           n == Len(q)
<1>1. n \in Nat /\ n >= 1 /\ Len(t) = n - 1 /\ r = q[1] /\ r \in Requests /\ t \in Seq(Requests)
  OBVIOUS
<1>2. \A i \in 1..(n - 1) : t[i] = q[i + 1]
  BY <1>1
<1>3. p[r] = "queued"
  BY <1>1 DEF Waiting
<1>4. ASSUME NEW i \in 1..Len(t), NEW j \in 1..Len(t), t[i] = t[j]
      PROVE  i = j
  <2>1. i + 1 \in 1..n /\ j + 1 \in 1..n /\ q[i + 1] = q[j + 1]
    BY <1>1, <1>2, <1>4
  <2>2. i + 1 = j + 1
    BY <2>1 DEF Waiting
  <2> QED
    BY <1>1, <2>2
<1>5. ASSUME NEW i \in 1..Len(t)
      PROVE  t[i] # r
  <2>1. i + 1 \in 1..n /\ 1 \in 1..n /\ t[i] = q[i + 1] /\ i + 1 # 1
    BY <1>1, <1>2
  <2> QED
    BY <1>1, <2>1 DEF Waiting
<1>6. ASSUME NEW s \in Requests, s # r
      PROVE  (\E i \in 1..Len(t) : t[i] = s) <=> \E i \in 1..n : q[i] = s
  <2>1. ASSUME NEW i \in 1..Len(t), t[i] = s
        PROVE  \E k \in 1..n : q[k] = s
    <3>1. i + 1 \in 1..n /\ q[i + 1] = s
      BY <1>1, <1>2, <2>1
    <3> QED
      BY <3>1
  <2>2. ASSUME NEW i \in 1..n, q[i] = s
        PROVE  \E k \in 1..Len(t) : t[k] = s
    <3>1. i # 1
      BY <1>1, <1>6, <2>2
    <3>2. i - 1 \in 1..Len(t) /\ t[i - 1] = q[(i - 1) + 1] /\ (i - 1) + 1 = i
      BY <1>1, <1>2, <3>1
    <3> QED
      BY <2>2, <3>2
  <2> QED
    BY <2>1, <2>2
<1>7. ASSUME NEW s \in Requests
      PROVE  [p EXCEPT ![r] = next][s] = "queued" <=> \E i \in 1..Len(t) : t[i] = s
  BY <1>1, <1>5, <1>6 DEF Waiting
<1> HIDE DEF r, t
<1>8. Waiting([p EXCEPT ![r] = next], t)
  BY <1>4, <1>7 DEF Waiting
<1> QED
  BY <1>1, <1>3, <1>8 DEF r, t

\* The execution of a decided command gives the lock up, or keeps it for a command at work.
LEMMA ExecuteLock ==
  ASSUME NEW r \in Requests, NEW c, NEW s, NEW m, pc \in [Requests -> HandlerPcs],
         Execute(r, c, s, m)
  PROVE  \/ pc' = [pc EXCEPT ![r] = "done"] /\ lock' = NoRequest
         \/ pc' = [pc EXCEPT ![r] = "acting"] /\ lock' = r
BY DEF Execute, Respond, Finish

\* A step past the lock, of the one who has it, or of the first that waits when nobody has.
LEMMA PastTheLock ==
  ASSUME LockInv, NEW r \in Requests, NEW next \in {"deciding", "acting", "done"},
         pc' = [pc EXCEPT ![r] = next],
         lock' = IF next = "done" THEN NoRequest ELSE r,
         \/ pc[r] \in {"deciding", "acting"} /\ queue' = queue
         \/ MayEnter(r) /\ Dequeue(r)
  PROVE  LockInv'
<1> USE DEF LockInv, HandlerPcs
<1>1. /\ lock' \in Requests \cup {NoRequest}
      /\ pc' \in [Requests -> HandlerPcs]
      /\ AtWork(pc', lock')
  BY ServerAssumption DEF AtWork
<1>2. CASE pc[r] \in {"deciding", "acting"} /\ queue' = queue
  BY <1>1, <1>2 DEF Waiting
<1>3. CASE MayEnter(r) /\ Dequeue(r)
  <2>1. queue # <<>> /\ r = Head(queue) /\ queue' = Tail(queue)
    BY <1>3 DEF MayEnter, Dequeue
  <2>2. queue' \in Seq(Requests) /\ Waiting(pc', queue')
    BY <2>1, FirstLeaves
  <2> QED
    BY <1>1, <2>2
<1> QED
  BY <1>2, <1>3

\* A step of a handler keeps the invariant, however the handler ends.
LEMMA HandlerKeepsLockInv ==
  ASSUME LockInv, NEW r \in Requests, HandlerStep(r)
  PROVE  LockInv'
<1>0. pc \in [Requests -> HandlerPcs]
  BY DEF LockInv
<1> DEFINE Goes(next) == /\ pc' = [pc EXCEPT ![r] = next]
                         /\ lock' = IF next = "done" THEN NoRequest ELSE r
<1>1. CASE HandleFast(r)
  BY <1>0, <1>1, ExecuteLock, PastTheLock DEF HandleFast
<1>2. CASE HandleSlow(r)
  BY <1>2, PastTheLock DEF HandleSlow
<1>3. CASE Breaks(r)
  BY <1>3, PastTheLock DEF Breaks, Finish
<1>4. CASE Infer(r)
  <2>1. pc[r] = "deciding" /\ queue' = queue
    BY <1>4 DEF Infer
  <2>2. Goes("done") \/ Goes("acting")
    BY <1>0, <1>4, ExecuteLock DEF Infer, Respond, Finish
  <2> QED
    BY <2>1, <2>2, PastTheLock
<1>5. CASE ActReturns(r) \/ ActFails(r)
  BY <1>5, PastTheLock DEF ActReturns, ActFails, Respond, Finish
<1> QED
  BY <1>1, <1>2, <1>3, <1>4, <1>5 DEF HandlerStep

\* So does every other step: the rest of the application leaves the lock alone.
LEMMA StepKeepsLockInv == LockInv /\ [Next]_vars => LockInv'
<1> SUFFICES ASSUME LockInv, [Next]_vars PROVE LockInv'
  OBVIOUS
<1>1. ASSUME NEW r \in Requests, Arrive(r)
      PROVE  LockInv'
  <2>1. /\ pc[r] = "unsent" /\ pc' = [pc EXCEPT ![r] = "queued"]
        /\ queue' = Append(queue, r) /\ lock' = lock
    BY <1>1 DEF Arrive
  <2>2. Waiting(pc', queue')
    BY <2>1, OneMoreWaits DEF LockInv
  <2>3. AtWork(pc', lock')
    BY <2>1 DEF LockInv, AtWork
  <2> QED
    BY <2>1, <2>2, <2>3 DEF LockInv, HandlerPcs
<1>2. ASSUME NEW r \in Requests, ClientStep(r)
      PROVE  LockInv'
  BY <1>2 DEF ClientStep, Post, GiveUp, Refused, lockVars, LockInv
<1>3. CASE health \/ Watch \/ start \/ Stop \/ close \/ UNCHANGED vars
  BY <1>3 DEF health, Watch, start, Stop, close, vars, lockVars, LockInv
<1> QED
  BY <1>1, <1>2, <1>3, HandlerKeepsLockInv DEF Next

\* The lock is held by a handler at work or by nobody, and the queue is of those that wait,
\* for every number of requests and however their handlers end.
THEOREM LockComesFreeHolds == Spec => []LockComesFree
<1>1. Init => LockInv
  BY DEF Init, LockInv, AtWork, Waiting, HandlerPcs
<1>2. LockInv /\ OneCommandAtATime => LockComesFree
  BY DEF LockInv, AtWork, Waiting, LockComesFree
<1> QED
  BY <1>1, <1>2, StepKeepsLockInv, OneCommandAtATimeHolds, PTL DEF Spec

-----------------------------------------------------------------------------
(* The server implements the gate *)

\* When no handler awaits the controller, no command is in progress.
NoneRuns == (\A r \in Requests : pc[r] # "acting") => command = "none"

\* A command in progress outlives every step but the end of its own handler.
LEMMA NoneRunsKept == IInv /\ NoneRuns /\ [Next]_vars => NoneRuns'
<1> SUFFICES ASSUME IInv, NoneRuns, [Next]_vars PROVE NoneRuns'
  OBVIOUS
<1> USE DEF IInv, NoneRuns, HandlerPcs
<1>1. ASSUME NEW r \in Requests, NEW c, NEW s, NEW m, Execute(r, c, s, m)
      PROVE  NoneRuns'
  BY <1>1 DEF Execute, Respond, Finish
<1>2. ASSUME NEW r \in Requests, NEW o, Finish(r, o)
      PROVE  NoneRuns'
  BY <1>2 DEF Finish
<1>3. ASSUME NEW r \in Requests, HandleSlow(r)
      PROVE  NoneRuns'
  <2>1. \A q \in Requests : pc[q] # "acting"
    BY <1>3, ServerAssumption DEF HandleSlow, MayEnter, OneCommandAtATime
  <2> QED
    BY <1>3, <2>1 DEF HandleSlow
<1>4. ASSUME NEW r \in Requests, HandlerStep(r)
      PROVE  NoneRuns'
  BY <1>1, <1>2, <1>3, <1>4
     DEF HandlerStep, HandleFast, Breaks, Infer, ActReturns, ActFails, Respond
<1>5. ASSUME NEW r \in Requests, Arrive(r) \/ ClientStep(r)
      PROVE  NoneRuns'
  BY <1>5 DEF Arrive, ClientStep, Post, GiveUp, Refused, builderVars, workVars
<1>6. CASE health \/ Watch \/ start \/ Stop \/ close \/ UNCHANGED vars
  BY <1>6 DEF health, Watch, start, Stop, close, vars, builderVars, workVars
<1> QED
  BY <1>4, <1>5, <1>6 DEF Next

\* The gate judges as the server does: the safety layer is the same.
LEMMA SameLayer ==
  /\ Gate!Admitted = {c \in Commands : Admits(c, Snapshot(memory, cache))}
  /\ Gate!Remember(memory, cache) = Remember(memory, cache)
  /\ Gate!Telemetry = Telemetry
  /\ Gate!FreshBuilder = FreshBuilder
<1>1. /\ Gate!Commands = Commands /\ Gate!FreshBuilder = FreshBuilder
      /\ Gate!Telemetry = Telemetry
  BY DEF Gate!Commands, Commands, Gate!FreshBuilder, FreshBuilder, Gate!Telemetry, Telemetry,
         Gate!FlightModes, FlightModes
<1>2. \A m, t : Gate!Remember(m, t) = Remember(m, t)
  BY DEF Gate!Remember, Remember
<1>3. \A m, t : Gate!Snapshot(m, t) = Snapshot(m, t)
  BY <1>2 DEF Gate!Snapshot, Snapshot, Gate!OperationalState, OperationalState,
              Gate!AirborneState, AirborneState, Gate!GroundState, GroundState
<1>4. \A c, s : Gate!Admits(c, s) = Admits(c, s)
  BY DEF Gate!Admits, Admits, Gate!AllowedStates, AllowedStates
<1> QED
  BY <1>1, <1>2, <1>3, <1>4 DEF Gate!Admitted

\* Initial states are initial.
LEMMA InitGate == Init => Gate!Init
<1> SUFFICES ASSUME Init PROVE Gate!Init
  OBVIOUS
<1>1. cache \in Telemetry
  BY DEF Init, Unknown, Telemetry, FlightModes
<1> QED
  BY <1>1, SameLayer DEF Init, Gate!Init

\* The execution of a decided command is its beginning, if the state of the moment admits
\* it and it is awaited, and otherwise no command at all.
LEMMA ExecuteIsBegin ==
  ASSUME IInv, NEW r \in Requests, NEW c \in Commands, NEW s, NEW m, Execute(r, c, s, m),
         s = Snapshot(memory, cache), m \in {memory, Remember(memory, cache)},
         command = "none", cache' = cache
  PROVE  Gate!Begin \/ Gate!End
<1> DEFINE M == Remember(memory, cache)
<1>1. M = Gate!Remember(memory, cache) /\ Remember(M, cache) = M
  BY SameLayer, RememberTwice DEF IInv
<1>2. Remember(m, cache) = M
  BY <1>1
<1>3. memory' \in {memory, M}
  BY <1>2 DEF Execute
<1>4. Gate!MayBuild
  BY <1>1, <1>3 DEF Gate!MayBuild
<1>5. command' = "none" \/ (command' = c /\ Admits(c, s))
  BY DEF Execute, Respond, Finish
<1> QED
  BY <1>4, <1>5, SameLayer DEF Gate!Begin, Gate!End

\* A handler's end is the end of its command, if it had one.
LEMMA RespondIsEnd ==
  ASSUME NEW r, NEW o, Finish(r, o), cache' = cache,
         memory' \in {memory, Remember(memory, cache)}
  PROVE  Gate!End
<1>1. Gate!MayBuild
  BY SameLayer DEF Gate!MayBuild
<1> QED
  BY <1>1 DEF Finish, Gate!End

\* Each step of the server is a step of the gate or none.
LEMMA GateStep == IInv /\ NoneRuns /\ [Next]_vars => [Gate!Next]_(Gate!vars)
<1> SUFFICES ASSUME IInv, NoneRuns, [Next]_vars PROVE Gate!Next \/ UNCHANGED Gate!vars
  OBVIOUS
<1> USE DEF Gate!Next
<1>free. ASSUME NEW r \in Requests, MayEnter(r)
         PROVE  command = "none"
  BY <1>free, ServerAssumption DEF MayEnter, IInv, OneCommandAtATime, NoneRuns
<1>1. ASSUME NEW r \in Requests, HandleFast(r)
      PROVE  Gate!Next
  BY <1>1, <1>free, ExecuteIsBegin DEF HandleFast
<1>2. ASSUME NEW r \in Requests, HandleSlow(r)
      PROVE  Gate!Next
  BY <1>2, SameLayer DEF HandleSlow, Gate!Build
<1>3. ASSUME NEW r \in Requests, Breaks(r)
      PROVE  Gate!Next
  BY <1>3, RespondIsEnd DEF Breaks
<1>4. ASSUME NEW r \in Requests, Infer(r)
      PROVE  Gate!Next
  <2>1. pc[r] = "deciding" /\ snapshot = Snapshot(memory, cache) /\ cache' = cache
    BY <1>4 DEF Infer, IInv
  <2>2. \A q \in Requests : pc[q] # "acting"
    BY <2>1 DEF IInv, OneCommandAtATime
  <2>3. command = "none"
    BY <2>2 DEF NoneRuns
  <2> QED
    BY <1>4, <2>1, <2>3, ExecuteIsBegin, RespondIsEnd DEF Infer, Respond
<1>5. ASSUME NEW r \in Requests, ActReturns(r) \/ ActFails(r)
      PROVE  Gate!Next
  BY <1>5, RespondIsEnd DEF ActReturns, ActFails, Respond, builderVars
<1>6. ASSUME NEW r \in Requests, Arrive(r) \/ ClientStep(r)
      PROVE  UNCHANGED Gate!vars
  BY <1>6 DEF Arrive, ClientStep, Post, GiveUp, Refused, builderVars, workVars, Gate!vars
<1>7. CASE health
  BY <1>7, SameLayer DEF health, builderVars, workVars, Gate!Build
<1>8. CASE Watch
  BY <1>8, SameLayer, ServerAssumption DEF Watch, builderVars, workVars, Gate!Report
<1>9. CASE start \/ Stop \/ close \/ UNCHANGED vars
  BY <1>9 DEF start, Stop, close, vars, builderVars, workVars, Gate!vars
<1> QED
  BY <1>1, <1>2, <1>3, <1>4, <1>5, <1>6, <1>7, <1>8, <1>9 DEF Next, HandlerStep

\* However many clients there are, the controller is given one command at a time, each
\* admitted at the moment it begins, and the shared builder moves by builds alone.
THEOREM KeepsGateHolds == Spec => KeepsGate
<1>1. Init => NoneRuns
  BY DEF Init, NoneRuns
<1> QED
  BY <1>1, Inductive, NoneRunsKept, InitGate, GateStep, PTL DEF Spec, KeepsGate, Gate!Spec
=============================================================================
