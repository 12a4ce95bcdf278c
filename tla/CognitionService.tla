--------------------------- MODULE CognitionService ---------------------------
(***************************************************************************)
(* The cognition services of src/perception/cognition_service.py.  The     *)
(* agent loop is the only caller: it warms the service up, asks one        *)
(* request after the other and closes the service when it shuts down.      *)
(*                                                                         *)
(* Isolated is TRUE for ProcessCognitionService: an executor of one worker *)
(* process is created when it is needed and given up after a timeout, a    *)
(* crash or an exception, and its worker may still be computing then.      *)
(* Isolated is FALSE for ThreadedCognitionService: one executor of one     *)
(* thread, made with the service and never given up, and no timeout.       *)
(***************************************************************************)
EXTENDS Naturals

CONSTANTS
  Requests,    \* what process_intent is asked
  Warmup,      \* the warm-up call
  NoRequest,   \* no request is in progress
  Executors,   \* identities of executors; bounds how many are ever created
  NoExecutor,  \* the value None of _executor
  Isolated     \* worker processes with a timeout, or one thread

ASSUME ServiceAssumption ==
  /\ Warmup \notin Requests
  /\ NoRequest \notin Requests \cup {Warmup}
  /\ (Requests \cup {Warmup}) \cap {"pending", "raised", "broken"} = {}
  /\ NoExecutor \notin Executors
  /\ Executors # {}
  /\ Isolated \in BOOLEAN

VARIABLES
  executor,  \* _executor
  worker,    \* each executor's worker
  job,       \* the call each worker is running
  caller,    \* what the agent loop is doing with the service
  asked,     \* the call it waits for
  future,    \* how that call stands: "pending", "raised", "broken", or a call, for that call's result
  reply,     \* the last answer: "none", "error", or a call, for the result computed for it
  errors     \* history: the calls that failed on account of each executor

vars == <<executor, worker, job, caller, asked, future, reply, errors>>

Calls == Requests \cup {Warmup}

\* "unborn"; "idle" and "busy" while the executor accepts calls; "draining" when it was
\* shut down and the worker still computes; "broken" when the worker died under an
\* executor that was not shut down; "gone".
WorkerStates == {"unborn", "idle", "busy", "draining", "broken", "gone"}

Init ==
  /\ job = [e \in Executors |-> NoRequest]
  /\ caller = "new"
  /\ asked = NoRequest
  /\ future = "pending"
  /\ reply = "none"
  /\ errors = [e \in Executors |-> 0]
  /\ \/ /\ Isolated
        /\ executor = NoExecutor
        /\ worker = [e \in Executors |-> "unborn"]
     \/ /\ ~Isolated
        /\ executor \in Executors
        /\ worker = [e \in Executors |-> IF e = executor THEN "idle" ELSE "unborn"]

-----------------------------------------------------------------------------
(* Shutting an executor down *)

\* Mutant: the executor is dropped and never told to shut down.
ShutDownForgets(e) == worker' = worker

\* executor.shutdown(cancel_futures=True): an idle worker exits, a busy one does so when
\* its call is over; a call that runs cannot be cancelled.
ShutDown(e) ==
  worker' = [worker EXCEPT ![e] = CASE @ = "busy" -> "draining"
                                    [] @ \in {"idle", "broken"} -> "gone"
                                    [] OTHER -> @]

\* _reset_executor.
ResetExecutor ==
  /\ executor' = NoExecutor
  /\ \/ executor = NoExecutor /\ UNCHANGED worker
     \/ executor # NoExecutor /\ ShutDown(executor)

\* The call failed: the worker process behind it is blamed.
Blame(e) == errors' = IF Isolated THEN [errors EXCEPT ![e] = @ + 1] ELSE errors

-----------------------------------------------------------------------------
(* A call *)

\* _ensure_executor and run_in_executor: the call is handed to the worker.
Submit(r) ==
  \E e \in Executors :
    /\ \/ executor = e /\ worker[e] \in {"idle", "busy"}
       \/ executor = NoExecutor /\ worker[e] = "unborn"
    /\ executor' = e
    /\ worker' = [worker EXCEPT ![e] = "busy"]
    /\ job' = [job EXCEPT ![e] = r]
    /\ future' = "pending"
    /\ caller' = "waiting"
    /\ asked' = r
    /\ reply' = "none"
    /\ UNCHANGED errors

\* A call of process_intent or warmup ends in an error.
FailCall ==
  /\ caller' = IF asked = Warmup THEN "down" ELSE "ready"
  /\ asked' = NoRequest
  /\ reply' = "error"
  /\ future' = "pending"

\* warmup_cognition, before the loop runs.
warmup ==
  /\ caller = "new"
  /\ Submit(Warmup)

process_intent(r) ==
  /\ caller = "ready"
  /\ executor # NoExecutor => worker[executor] # "broken"
  /\ Submit(r)

\* The worker died between two calls: run_in_executor raises BrokenProcessPool, which is
\* caught like one that arrives with the answer.
SubmitToBroken(r) ==
  /\ caller = "ready"
  /\ executor # NoExecutor
  /\ worker[executor] = "broken"
  /\ caller' = "waiting"
  /\ asked' = r
  /\ reply' = "none"
  /\ future' = "broken"
  /\ UNCHANGED <<executor, worker, job, errors>>

Succeeded ==
  /\ caller = "waiting"
  /\ future \in Calls
  /\ caller' = "ready"
  /\ asked' = NoRequest
  /\ reply' = future
  /\ future' = "pending"
  /\ UNCHANGED <<executor, worker, job, errors>>

\* The call raised, or the pool is broken.  A thread's exception goes to the caller as it is.
Failed ==
  /\ caller = "waiting"
  /\ future \in {"raised", "broken"}
  /\ FailCall
  /\ IF Isolated THEN ResetExecutor ELSE UNCHANGED <<executor, worker>>
  /\ Blame(executor)
  /\ UNCHANGED job

\* Mutant: the wait has no timeout.
TimesOutNever == caller = "waiting" /\ Isolated /\ UNCHANGED vars

\* Mutant: a timeout leaves the executor to the next request.
TimesOutKeepsExecutor ==
  /\ Isolated
  /\ caller = "waiting"
  /\ FailCall
  /\ Blame(executor)
  /\ UNCHANGED <<executor, worker, job>>

\* wait_for gives up, even when the result has arrived but was not yet looked at.
TimesOut ==
  /\ Isolated
  /\ caller = "waiting"
  /\ FailCall
  /\ ResetExecutor
  /\ Blame(executor)
  /\ UNCHANGED job

-----------------------------------------------------------------------------
(* The worker *)

\* Mutant: all workers answer through one queue, so the call in progress takes any result.
WorkerReturnsShared(e) ==
  /\ worker[e] \in {"busy", "draining"}
  /\ worker' = [worker EXCEPT ![e] = IF @ = "busy" THEN "idle" ELSE "gone"]
  /\ job' = [job EXCEPT ![e] = NoRequest]
  /\ IF caller = "waiting" /\ future = "pending"
     THEN future' \in {job[e], "raised"}
     ELSE UNCHANGED future
  /\ UNCHANGED <<executor, caller, asked, reply, errors>>

\* The call ends with a result or an exception, which reaches the future it was made for.
WorkerReturns(e) ==
  /\ worker[e] \in {"busy", "draining"}
  /\ worker' = [worker EXCEPT ![e] = IF @ = "busy" THEN "idle" ELSE "gone"]
  /\ job' = [job EXCEPT ![e] = NoRequest]
  /\ IF caller = "waiting" /\ e = executor
     THEN future' \in {job[e], "raised"}
     ELSE UNCHANGED future
  /\ UNCHANGED <<executor, caller, asked, reply, errors>>

\* A native failure kills the worker process, or its initializer fails.
WorkerDies(e) ==
  /\ Isolated
  /\ worker[e] \in {"idle", "busy", "draining"}
  /\ worker' = [worker EXCEPT ![e] = IF @ = "draining" THEN "gone" ELSE "broken"]
  /\ job' = [job EXCEPT ![e] = NoRequest]
  /\ IF caller = "waiting" /\ e = executor /\ worker[e] = "busy"
     THEN future' = "broken"
     ELSE UNCHANGED future
  /\ UNCHANGED <<executor, caller, asked, reply, errors>>

-----------------------------------------------------------------------------
(* Interruption and close *)

\* The loop is cancelled at the await (Ctrl-C): CancelledError is no Exception, so the
\* executor is kept.
Interrupted ==
  /\ caller \in {"waiting", "ready"}
  /\ caller' = "down"
  /\ asked' = NoRequest
  /\ reply' = IF caller = "waiting" THEN "none" ELSE reply
  /\ future' = "pending"
  /\ UNCHANGED <<executor, worker, job, errors>>

\* close: executor.shutdown(wait=True) blocks until the worker is gone.  Workers of
\* executors given up earlier are not waited for.  (ProcessCognitionService has set
\* _executor to None by then and holds the executor in a local; the model keeps it.)
close ==
  /\ caller = "down"
  /\ caller' = "closing"
  /\ \/ executor = NoExecutor /\ UNCHANGED worker
     \/ executor # NoExecutor /\ ShutDown(executor)
  /\ UNCHANGED <<executor, job, asked, future, reply, errors>>

Closed ==
  /\ caller = "closing"
  /\ executor # NoExecutor => worker[executor] = "gone"
  /\ caller' = "closed"
  /\ UNCHANGED <<executor, worker, job, asked, future, reply, errors>>

-----------------------------------------------------------------------------

CallerStep == Succeeded \/ Failed \/ TimesOut \/ close \/ Closed

WorkerStep(e) == WorkerReturns(e) \/ WorkerDies(e)

Next ==
  \/ warmup
  \/ \E r \in Requests : process_intent(r) \/ SubmitToBroken(r)
  \/ CallerStep
  \/ \E e \in Executors : WorkerStep(e)
  \/ Interrupted

Spec == Init /\ [][Next]_vars

\* The event loop runs: a resolved future is read, a timeout fires.  A worker need not
\* ever finish.
FairSpec == Spec /\ WF_vars(CallerStep)

\* What CloseReturns needs in addition, and nothing in the code ensures.
WorkersFinish == \A e \in Executors : WF_vars(WorkerReturns(e))

-----------------------------------------------------------------------------
(* Properties *)

\* The service implements the promise of CognitionCall: a result that arrives after its
\* call has timed out is never taken for the answer to a later one.
Promise == INSTANCE CognitionCall WITH Requests <- Calls
KeepsPromise == Promise!Spec

\* No request waits behind another one: when a call is handed to a worker the worker is
\* not computing, although calls that timed out may still be running elsewhere.
StartsAtOnce ==
  [][\A e \in Executors :
       job'[e] # job[e] /\ job'[e] # NoRequest => worker[e] \in {"unborn", "idle"}]_vars

\* One bad worker costs one request: after a timeout, a crash or an exception the next
\* request goes to a new worker.
OneErrorPerWorker == Isolated => \A e \in Executors : errors[e] <= 1

\* A worker process whose executor was given up is computing its last call: none stays
\* behind idle, with a model in memory and nobody to use it.
NoIdleOrphan ==
  \A e \in Executors : e # executor => worker[e] \in {"unborn", "draining", "gone"}

\* Every call returns, even when its worker never does.
CallsReturn == caller = "waiting" ~> caller # "waiting"

\* close returns, provided the workers finish: the one it waits for is told to exit.
CloseReturns == WorkersFinish => (caller = "closing" ~> caller = "closed")
=============================================================================
