---------------------------- MODULE CognitionServer ----------------------------
(***************************************************************************)
(* The distributed deployment: src/api/cognition_server.py on one side,    *)
(* src/tools/mac_sensor_client.py on the other.  Handlers are coroutines   *)
(* of one event loop and queue at command_lock; cognition runs on the      *)
(* event loop itself, and while it does no other coroutine moves: no       *)
(* telemetry watcher, no /health, no other handler.  A controller command  *)
(* is here its beginning and its end; DroneController has its inside.      *)
(***************************************************************************)
EXTENDS CommandSafety, Sequences

CONSTANTS
  Requests,   \* the requests ever posted, each once: the client never retries
  NoRequest,  \* nobody holds the lock
  Reports,    \* the telemetry the vehicle may report
  DryRun      \* dry_run

ASSUME ServerAssumption ==
  /\ NoRequest \notin Requests
  /\ Reports \subseteq Telemetry
  /\ DryRun \in BOOLEAN

VARIABLES
  phase,     \* of the application's lifespan
  cache,     \* the controller's cached telemetry
  memory,    \* the snapshot builder's fields
  pc,        \* where each request's handler is
  lock,      \* the holder of command_lock
  queue,     \* the handlers waiting for command_lock
  snapshot,  \* drone_state of the request being handled
  command,   \* the command being executed, or "none"
  http,      \* each request as its client sees it
  sight      \* history: what the builds, whoever asked for them, have seen last: the vehicle
             \* in "flight", "disarmed" on the ground, or "nothing" that still holds

vars == <<phase, cache, memory, pc, lock, queue, snapshot, command, http, sight>>
builderVars == <<memory, sight>>
lockVars == <<lock, queue>>
workVars == <<snapshot, command>>

Unknown == [connected |-> FALSE, armed |-> FALSE, in_air |-> FALSE,
            flight_mode |-> "other", low_battery |-> FALSE]
NoSnapshot == [state |-> "GROUNDED", connected |-> FALSE, low_battery |-> FALSE]

Init ==
  /\ phase = "starting"
  /\ cache = Unknown
  /\ memory = FreshBuilder
  /\ pc = [r \in Requests |-> "unsent"]
  /\ lock = NoRequest
  /\ queue = <<>>
  /\ snapshot = NoSnapshot
  /\ command = "none"
  /\ http = [r \in Requests |-> "none"]
  /\ sight = "nothing"

\* What is known once a build has looked at the telemetry of this moment.
Sighted ==
  CASE cache.armed /\ cache.in_air -> "flight"
    [] ~cache.armed /\ ~cache.in_air -> "disarmed"
    [] cache.armed # cache.in_air -> sight

InHandler == {r \in Requests : pc[r] \in {"queued", "deciding", "acting"}}

\* Mutant: cognition is handed to a thread and awaited.
BlockedNever == FALSE

\* engine.process_intent is called, not awaited: the event loop stands still.
Blocked == \E r \in Requests : pc[r] = "deciding"

-----------------------------------------------------------------------------
(* The client *)

\* An operator's command, typed or transcribed, goes out with the frame it may need.
Post(r) ==
  /\ http[r] = "none"
  /\ http' = [http EXCEPT ![r] = "waiting"]
  /\ UNCHANGED <<phase, cache, builderVars, pc, lockVars, workVars>>

\* The client's timeout.  The server's handler does not notice.
GiveUp(r) ==
  /\ http[r] = "waiting"
  /\ http' = [http EXCEPT ![r] = "gave_up"]
  /\ UNCHANGED <<phase, cache, builderVars, pc, lockVars, workVars>>

\* No server listens any more.
Refused(r) ==
  /\ phase \in {"draining", "closed", "failed"}
  /\ pc[r] = "unsent"
  /\ http[r] = "waiting"
  /\ http' = [http EXCEPT ![r] = "failed"]
  /\ UNCHANGED <<phase, cache, builderVars, pc, lockVars, workVars>>

-----------------------------------------------------------------------------
(* The endpoint *)

\* The handler is started and asks for the lock.
Arrive(r) ==
  /\ phase = "serving"
  /\ ~Blocked
  /\ pc[r] = "unsent"
  /\ http[r] \in {"waiting", "gave_up"}
  /\ pc' = [pc EXCEPT ![r] = "queued"]
  /\ queue' = Append(queue, r)
  /\ UNCHANGED <<phase, cache, builderVars, lock, workVars, http>>

\* Mutant: the lock is not asked.
MayEnterUnlocked(r) == ~Blocked /\ queue # <<>> /\ r = Head(queue)

\* asyncio.Lock hands itself to its waiters in the order they came.
MayEnter(r) == ~Blocked /\ lock = NoRequest /\ queue # <<>> /\ r = Head(queue)

\* The handler of r ends and the client, if it is still there, has the outcome.
Finish(r, outcome) ==
  /\ pc' = [pc EXCEPT ![r] = "done"]
  /\ snapshot' = NoSnapshot
  /\ command' = "none"
  /\ http' = [http EXCEPT ![r] = IF @ = "waiting" THEN outcome ELSE @]

\* A response is logged before it is sent; the log may fail (HTTP 500).
Respond(r, outcome) == \E o \in {outcome, "failed"} : Finish(r, o)

\* The validator on c for the snapshot s, execute_command_response and
\* dispatch_command, up to the controller's first await.  m is the builder's memory.
Execute(r, c, s, m) ==
  \/ /\ ~Admits(c, s)
     /\ Respond(r, "not_ok")
     /\ lock' = NoRequest
     /\ memory' = m
  \/ /\ Admits(c, s)
     /\ DryRun \/ (c = "hold" /\ ~cache.in_air)
     /\ Respond(r, "ok")
     /\ lock' = NoRequest
     /\ memory' = Remember(m, cache)
  \/ /\ Admits(c, s)
     /\ ~DryRun
     /\ c = "hold" => cache.in_air
     /\ pc' = [pc EXCEPT ![r] = "acting"]
     /\ snapshot' = s
     /\ command' = c
     /\ memory' = m
     /\ lock' = r
     /\ UNCHANGED http

\* async with command_lock: r, the first that waits, has waited long enough.
Dequeue(r) == r = Head(queue) /\ queue' = Tail(queue)

\* process_payload with a command the transcript spells out: no await before the dispatch.
HandleFast(r) ==
  /\ MayEnter(r)
  /\ Dequeue(r)
  /\ \E c \in Commands : Execute(r, c, Snapshot(memory, cache), Remember(memory, cache))
  /\ sight' = Sighted
  /\ UNCHANGED <<phase, cache>>

\* process_payload up to the call of the engine.
HandleSlow(r) ==
  /\ MayEnter(r)
  /\ Dequeue(r)
  /\ lock' = r
  /\ pc' = [pc EXCEPT ![r] = "deciding"]
  /\ snapshot' = Snapshot(memory, cache)
  /\ memory' = Remember(memory, cache)
  /\ sight' = Sighted
  /\ UNCHANGED <<phase, cache, command, http>>

\* Mutant: the lock is left locked when the handler raises.
BreaksKeepsLock(r) ==
  /\ MayEnter(r)
  /\ Dequeue(r)
  /\ Finish(r, "failed")
  /\ lock' = r
  /\ memory' = Remember(memory, cache)
  /\ sight' = Sighted
  /\ UNCHANGED <<phase, cache>>

\* decode_image_payload raises: HTTP 400 or 413.
Breaks(r) ==
  /\ MayEnter(r)
  /\ Dequeue(r)
  /\ Finish(r, "failed")
  /\ lock' = NoRequest
  /\ memory' = Remember(memory, cache)
  /\ sight' = Sighted
  /\ UNCHANGED <<phase, cache>>

\* The engine returns a command of its own or an error, or raises.
Infer(r) ==
  /\ pc[r] = "deciding"
  /\ \/ \E c \in Commands : Execute(r, c, snapshot, memory)
     \/ /\ Respond(r, "not_ok")
        /\ lock' = NoRequest
        /\ UNCHANGED memory
  /\ UNCHANGED <<phase, cache, queue, sight>>

\* The controller's method returns; a snapshot is built for the response.
ActReturns(r) ==
  /\ ~Blocked
  /\ pc[r] = "acting"
  /\ Respond(r, "ok")
  /\ lock' = NoRequest
  /\ memory' = Remember(memory, cache)
  /\ sight' = Sighted
  /\ UNCHANGED <<phase, cache, queue>>

\* It raises: the response is "action_failed".
ActFails(r) ==
  /\ ~Blocked
  /\ pc[r] = "acting"
  /\ Respond(r, "not_ok")
  /\ lock' = NoRequest
  /\ UNCHANGED <<phase, cache, builderVars, queue>>

-----------------------------------------------------------------------------
(* The rest of the application *)

\* Mutant: a poll is answered by a builder of its own, which then serves the requests.
healthAfresh ==
  /\ phase = "serving"
  /\ ~Blocked
  /\ memory' = Remember(FreshBuilder, cache)
  /\ sight' = Sighted
  /\ UNCHANGED <<phase, cache, pc, lockVars, workVars, http>>

\* GET /health, which builds a snapshot without the lock.
health ==
  /\ phase = "serving"
  /\ ~Blocked
  /\ memory' = Remember(memory, cache)
  /\ sight' = Sighted
  /\ UNCHANGED <<phase, cache, pc, lockVars, workVars, http>>

\* A watcher of the controller stores one field.
Watch ==
  /\ ~Blocked
  /\ phase # "closed"
  /\ cache' \in Reports
  /\ \E field \in DOMAIN cache :
       \A other \in DOMAIN cache \ {field} : cache'[other] = cache[other]
  /\ sight' = IF sight = "flight" /\ ~cache'.armed THEN "nothing" ELSE sight
  /\ UNCHANGED <<phase, memory, pc, lockVars, workVars, http>>

\* ServerContext.start.
start ==
  /\ phase = "starting"
  /\ phase' \in {"serving", "failed"}
  /\ UNCHANGED <<cache, builderVars, pc, lockVars, workVars, http>>

\* The server is told to stop; it accepts no connection from now on.
Stop ==
  /\ phase = "serving"
  /\ phase' = "draining"
  /\ UNCHANGED <<cache, builderVars, pc, lockVars, workVars, http>>

\* The lifespan ends when the last handler has: ServerContext.close.
close ==
  /\ phase = "draining"
  /\ InHandler = {}
  /\ phase' = "closed"
  /\ UNCHANGED <<cache, builderVars, pc, lockVars, workVars, http>>

-----------------------------------------------------------------------------

ClientStep(r) == Post(r) \/ GiveUp(r) \/ Refused(r)

HandlerStep(r) ==
  HandleFast(r) \/ HandleSlow(r) \/ Breaks(r) \/ Infer(r) \/ ActReturns(r) \/ ActFails(r)

Next ==
  \/ \E r \in Requests : ClientStep(r) \/ Arrive(r) \/ HandlerStep(r)
  \/ health \/ Watch
  \/ start \/ Stop \/ close

Spec == Init /\ [][Next]_vars

\* The event loop resumes handlers that can go on; generation is bounded by
\* max_new_tokens and the controller's commands end (CommandsReturn of DroneController).
FairSpec == Spec /\ \A r \in Requests : WF_vars(HandlerStep(r))

-----------------------------------------------------------------------------
(* Properties *)

HandlerPcs == {"unsent", "queued", "deciding", "acting", "done"}

\* A command begins only in a state that admits it: between the snapshot the validator
\* judged and the controller's call no telemetry is stored, however long cognition
\* takes, and no snapshot built meanwhile by another handler changes the history.
DispatchValidated ==
  [][\A r \in Requests :
       pc[r] # "acting" /\ pc'[r] = "acting" => Admits(command', Snapshot(memory', cache))]_vars

\* Handlers that decide or act hold the lock: the controller has one caller at a time,
\* as DroneController assumes, and no two commands overlap.
OneCommandAtATime == \A r \in Requests : pc[r] \in {"deciding", "acting"} => lock = r

\* The lock is held by the one handler that decides or acts, or by nobody: no two commands
\* overlap, and however a handler ends it leaves nothing locked.  Those that wait stand in
\* the lock's queue, each once, so that whoever waits will have it.
LockComesFree ==
  /\ OneCommandAtATime
  /\ lock # NoRequest => pc[lock] \in {"deciding", "acting"}
  /\ \A r \in Requests : pc[r] = "queued" <=> \E i \in 1..Len(queue) : queue[i] = r
  /\ \A i, j \in 1..Len(queue) : queue[i] = queue[j] => i = j

Gate == INSTANCE CommandGate
          WITH Local <- FALSE, telemetry <- cache, verdict <- {}, running <- command,
               over <- FALSE

\* The server implements the gate: its handlers together give the controller one command at a
\* time, each admitted in the state of the moment it begins, and the builder they share with
\* /health remembers what builds from the telemetry of their moment make of it.
KeepsGate == Gate!Spec

\* On the ground and armed, with nothing else against a takeoff.
ReadyToTakeOff ==
  /\ cache.connected /\ cache.armed /\ ~cache.in_air
  /\ cache.flight_mode # "LAND" /\ ~cache.low_battery

\* The builder is one for the requests, the responses and the polls of /health, and what
\* any of them saw holds for all the others: a flight that one of them saw locks takeoff
\* for the next request until the vehicle is disarmed, however many builds come between;
\* and a disarmed vehicle that one of them saw, be it a poll that nobody reads, opens it
\* to the next request, however long ago it flew.
OneMemory ==
  /\ sight = "flight" => ~Admits("takeoff", Snapshot(memory, cache))
  /\ sight = "disarmed" /\ ReadyToTakeOff => Admits("takeoff", Snapshot(memory, cache))

\* Every request that arrives is handled to its end, whatever happens to those before it.
RequestsAnswered == \A r \in Requests : pc[r] = "queued" ~> pc[r] = "done"
=============================================================================
