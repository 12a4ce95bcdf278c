----------------------- MODULE CognitionServiceProofs -----------------------
(***************************************************************************)
(* The cognition service keeps its promise for every set of requests and   *)
(* however many executors it creates, with worker processes and with the   *)
(* thread: an answer is the answer to the request that is waiting, no call *)
(* queues behind another, and a bad worker costs one request.  The last    *)
(* part is about WorkerRuntime: the service with a model in each worker    *)
(* is a service of this kind, and what a failed load leaves behind.        *)
(***************************************************************************)
EXTENDS WorkerRuntime, TLAPS

\* Types of the fields the argument reads.
Typed ==
  /\ executor \in Executors \cup {NoExecutor}
  /\ worker \in [Executors -> WorkerStates]
  /\ job \in [Executors -> Calls \cup {NoRequest}]
  /\ errors \in [Executors -> Nat]
  /\ asked \in Calls \cup {NoRequest}

\* The executor in use has not been shut down, and is computing only what is waited for.
CallerMatchesWorker ==
  /\ caller = "waiting" <=> asked # NoRequest
  /\ caller = "waiting" =>
       executor # NoExecutor /\ worker[executor] \in {"idle", "busy", "broken"}
  /\ (caller \in {"new", "ready"} /\ executor # NoExecutor) =>
       worker[executor] \in {"idle", "broken"}

\* The future holds the answer to the request that is waiting, or none yet.
FutureMatchesRequest ==
  caller = "waiting" =>
    /\ future \in {asked, "pending", "raised", "broken"}
    /\ worker[executor] = "busy" => future = "pending" /\ job[executor] = asked

\* A worker that has cost a request has been given up.
BlamedIsGivenUp ==
  Isolated => \A e \in Executors :
    errors[e] # 0 => errors[e] = 1 /\ worker[e] \in {"draining", "gone"}

\* The inductive invariant.
IInv == Typed /\ NoIdleOrphan /\ CallerMatchesWorker /\ FutureMatchesRequest /\ BlamedIsGivenUp

\* The invariant holds at first.
LEMMA InitIInv == Init => IInv
BY ServiceAssumption
   DEF Init, IInv, Typed, NoIdleOrphan, CallerMatchesWorker, FutureMatchesRequest,
       BlamedIsGivenUp, WorkerStates, Calls

-----------------------------------------------------------------------------
(* A step at a time *)

\* A call that is handed to a worker finds it idle, or not yet born.
LEMMA SubmitKeepsIInv ==
  ASSUME IInv, NEW r \in Calls, caller \in {"new", "ready"}, Submit(r)
  PROVE  /\ IInv'
         /\ \A e \in Executors :
              job'[e] # job[e] => worker[e] \in {"unborn", "idle"}
<1> USE DEF IInv, Typed
<1>1. PICK e \in Executors :
        /\ \/ executor = e /\ worker[e] \in {"idle", "busy"}
           \/ executor = NoExecutor /\ worker[e] = "unborn"
        /\ executor' = e
        /\ worker' = [worker EXCEPT ![e] = "busy"]
        /\ job' = [job EXCEPT ![e] = r]
        /\ future' = "pending"
        /\ caller' = "waiting"
        /\ asked' = r
        /\ UNCHANGED errors
  BY DEF Submit
<1>2. worker[e] \in {"unborn", "idle"} /\ r # NoRequest
  BY <1>1, ServiceAssumption DEF CallerMatchesWorker, Calls
<1>3. Typed'
  BY <1>1 DEF WorkerStates
<1>4. NoIdleOrphan'
  BY <1>1, ServiceAssumption DEF NoIdleOrphan
<1>5. CallerMatchesWorker'
  BY <1>1, <1>2, ServiceAssumption DEF CallerMatchesWorker
<1>6. FutureMatchesRequest'
  BY <1>1 DEF FutureMatchesRequest
<1>7. BlamedIsGivenUp'
  BY <1>1, <1>2 DEF BlamedIsGivenUp
<1>8. \A x \in Executors : job'[x] # job[x] => worker[x] \in {"unborn", "idle"}
  BY <1>1, <1>2
<1> QED
  BY <1>3, <1>4, <1>5, <1>6, <1>7, <1>8

\* Shutting down the executor in use leaves no idle worker behind.
LEMMA ShutDownEffect ==
  ASSUME IInv, executor # NoExecutor, ShutDown(executor)
  PROVE  /\ worker' \in [Executors -> WorkerStates]
         /\ \A e \in Executors : e # executor => worker'[e] = worker[e]
         /\ worker[executor] \in {"idle", "busy", "broken"} => worker'[executor] \in {"draining", "gone"}
         /\ \A e \in Executors : worker[e] \in {"draining", "gone"} => worker'[e] = worker[e]
         /\ worker[executor] = "unborn" => worker'[executor] = "unborn"
<1> USE DEF IInv, Typed
<1>1. executor \in Executors
  OBVIOUS
<1> QED
  BY <1>1 DEF ShutDown, WorkerStates

\* The end of a call, by its answer, an error or a timeout: a worker that is blamed is
\* given up in the same step.
LEMMA CallEnds ==
  ASSUME IInv, Succeeded \/ Failed \/ TimesOut
  PROVE  IInv'
<1> USE DEF IInv, Typed
<1>1. /\ caller = "waiting" /\ caller' \in {"ready", "down"}
      /\ asked' = NoRequest /\ UNCHANGED job
      /\ executor \in Executors
      /\ worker[executor] \in {"idle", "busy", "broken"}
  BY DEF Succeeded, Failed, TimesOut, FailCall, CallerMatchesWorker
<1>2. CASE Succeeded \/ (Failed /\ ~Isolated)
  <2>1. /\ UNCHANGED <<executor, worker>>
        /\ Isolated => UNCHANGED errors
        /\ errors' \in [Executors -> Nat]
    BY <1>2 DEF Succeeded, Failed, Blame
  <2>2. future # "pending"
    BY <1>2, ServiceAssumption DEF Succeeded, Failed, Calls
  <2>3. worker[executor] # "busy"
    BY <1>1, <2>2 DEF FutureMatchesRequest
  <2> QED
    BY <1>1, <2>1, <2>3 DEF NoIdleOrphan, CallerMatchesWorker, FutureMatchesRequest, BlamedIsGivenUp
<1>3. CASE (Failed /\ Isolated) \/ TimesOut
  <2>1. /\ executor' = NoExecutor /\ ShutDown(executor)
        /\ errors' = [errors EXCEPT ![executor] = @ + 1]
    BY <1>1, <1>3, ServiceAssumption DEF Failed, TimesOut, ResetExecutor, Blame
  <2>2. /\ worker' \in [Executors -> WorkerStates]
        /\ \A e \in Executors : e # executor => worker'[e] = worker[e]
        /\ worker'[executor] \in {"draining", "gone"}
    BY <1>1, <2>1, ShutDownEffect, ServiceAssumption
  <2>3. Typed'
    <3>1. errors[executor] + 1 \in Nat
      BY <1>1
    <3>2. errors' \in [Executors -> Nat]
      <4>1. ASSUME NEW n \in Nat PROVE [errors EXCEPT ![executor] = n] \in [Executors -> Nat]
        BY <1>1
      <4> QED
        BY <2>1, <3>1, <4>1
    <3> QED
      BY <1>1, <2>1, <2>2, <3>2
  <2>4. NoIdleOrphan'
    BY <2>1, <2>2 DEF NoIdleOrphan
  <2>5. CallerMatchesWorker' /\ FutureMatchesRequest'
    BY <1>1, <2>1 DEF CallerMatchesWorker, FutureMatchesRequest
  <2>6. BlamedIsGivenUp'
    <3>1. Isolated
      BY <1>3 DEF TimesOut
    <3>2. errors[executor] = 0
      BY <1>1, <3>1 DEF BlamedIsGivenUp
    <3> QED
      BY <1>1, <2>1, <2>2, <3>1, <3>2 DEF BlamedIsGivenUp
  <2> QED
    BY <2>3, <2>4, <2>5, <2>6
<1> QED
  BY <1>2, <1>3

\* What a worker does by itself reaches the caller only through the executor in use.
LEMMA WorkerKeepsIInv ==
  ASSUME IInv, NEW e \in Executors, WorkerStep(e)
  PROVE  IInv'
<1> USE DEF IInv, Typed
<1>1. /\ UNCHANGED <<executor, caller, asked, errors>>
      /\ job' = [job EXCEPT ![e] = NoRequest]
  BY DEF WorkerStep, WorkerReturns, WorkerDies
<1>2. /\ worker' \in [Executors -> WorkerStates]
      /\ \A x \in Executors \ {e} : worker'[x] = worker[x]
      /\ worker[e] \in {"idle", "busy"} => worker'[e] \in {"idle", "broken"}
      /\ worker[e] = "draining" => worker'[e] = "gone"
      /\ worker[e] \in {"idle", "busy", "draining"}
  BY DEF WorkerStep, WorkerReturns, WorkerDies, WorkerStates
<1>3. Typed'
  BY <1>1, <1>2
<1>4. NoIdleOrphan'
  BY <1>1, <1>2 DEF NoIdleOrphan
<1>5. CallerMatchesWorker'
  <2>1. executor = e => worker'[executor] \in {"idle", "broken"} \/ worker[executor] = "draining"
    BY <1>2
  <2>2. executor # e /\ executor # NoExecutor => worker'[executor] = worker[executor]
    BY <1>2
  <2> QED
    BY <1>1, <2>1, <2>2 DEF CallerMatchesWorker
<1>6. FutureMatchesRequest'
  <2>1. CASE caller = "waiting" /\ e = executor
    <3>1. worker'[executor] # "busy"
      BY <1>2, <2>1 DEF CallerMatchesWorker
    <3>2. future' \in {asked, "pending", "raised", "broken"}
      BY <1>2, <2>1 DEF WorkerStep, WorkerReturns, WorkerDies, FutureMatchesRequest,
                         CallerMatchesWorker
    <3> QED
      BY <1>1, <3>1, <3>2 DEF FutureMatchesRequest
  <2>2. CASE caller = "waiting" /\ e # executor
    <3>1. UNCHANGED future /\ executor \in Executors
      BY <2>2 DEF WorkerStep, WorkerReturns, WorkerDies, CallerMatchesWorker
    <3> QED
      BY <1>1, <1>2, <2>2, <3>1 DEF FutureMatchesRequest
  <2> QED
    BY <1>1, <2>1, <2>2 DEF FutureMatchesRequest
<1>7. BlamedIsGivenUp'
  BY <1>1, <1>2 DEF BlamedIsGivenUp
<1> QED
  BY <1>3, <1>4, <1>5, <1>6, <1>7

\* Interruption and close leave the requests behind.
LEMMA EndKeepsIInv ==
  ASSUME IInv, Interrupted \/ close \/ Closed
  PROVE  IInv'
<1> USE DEF IInv, Typed
<1>1. CASE Interrupted \/ Closed
  <2>1. /\ UNCHANGED <<executor, worker, job, errors>>
        /\ asked' = NoRequest /\ caller' \in {"down", "closed"}
    BY <1>1 DEF Interrupted, Closed, CallerMatchesWorker
  <2> QED
    BY <2>1 DEF NoIdleOrphan, CallerMatchesWorker, FutureMatchesRequest, BlamedIsGivenUp
<1>2. CASE close
  <2>1. /\ UNCHANGED <<executor, job, errors>>
        /\ asked' = NoRequest /\ caller' = "closing"
    BY <1>2 DEF close, CallerMatchesWorker
  <2>2. /\ worker' \in [Executors -> WorkerStates]
        /\ \A e \in Executors : e # executor => worker'[e] = worker[e]
        /\ \A e \in Executors : worker[e] \in {"draining", "gone"} => worker'[e] = worker[e]
    BY <1>2, ShutDownEffect DEF close
  <2> QED
    BY <2>1, <2>2 DEF NoIdleOrphan, CallerMatchesWorker, FutureMatchesRequest, BlamedIsGivenUp
<1> QED
  BY <1>1, <1>2

\* A request that meets a broken pool waits for the error.
LEMMA BrokenKeepsIInv ==
  ASSUME IInv, NEW r \in Requests, SubmitToBroken(r)
  PROVE  IInv'
BY ServiceAssumption
   DEF IInv, Typed, SubmitToBroken, NoIdleOrphan, CallerMatchesWorker, FutureMatchesRequest,
       BlamedIsGivenUp, Calls

\* Every step keeps the invariant.
LEMMA StepKeepsIInv == IInv /\ [Next]_vars => IInv'
<1> SUFFICES ASSUME IInv, [Next]_vars PROVE IInv'
  OBVIOUS
<1>1. CASE warmup
  BY <1>1, SubmitKeepsIInv DEF warmup, Calls
<1>2. ASSUME NEW r \in Requests, process_intent(r) \/ SubmitToBroken(r)
      PROVE  IInv'
  BY <1>2, SubmitKeepsIInv, BrokenKeepsIInv DEF process_intent, Calls
<1>3. CASE CallerStep \/ Interrupted
  BY <1>3, CallEnds, EndKeepsIInv DEF CallerStep
<1>4. ASSUME NEW e \in Executors, WorkerStep(e)
      PROVE  IInv'
  BY <1>4, WorkerKeepsIInv
<1>5. CASE UNCHANGED vars
  BY <1>5 DEF vars, IInv, Typed, NoIdleOrphan, CallerMatchesWorker, FutureMatchesRequest,
              BlamedIsGivenUp
<1> QED
  BY <1>1, <1>2, <1>3, <1>4, <1>5 DEF Next

\* The invariant holds throughout.
LEMMA Inductive == Spec => []IInv
BY InitIInv, StepKeepsIInv, PTL DEF Spec

-----------------------------------------------------------------------------

\* A worker process whose executor was given up is computing its last call or gone,
\* however many were given up.
THEOREM NoIdleOrphanHolds == Spec => []NoIdleOrphan
<1>1. IInv => NoIdleOrphan
  BY DEF IInv
<1> QED
  BY <1>1, Inductive, PTL

\* No worker process costs the loop two requests.
THEOREM OneErrorPerWorkerHolds == Spec => []OneErrorPerWorker
<1>1. IInv => OneErrorPerWorker
  BY DEF IInv, Typed, BlamedIsGivenUp, OneErrorPerWorker
<1> QED
  BY <1>1, Inductive, PTL

\* No request waits behind an earlier one, those that timed out included.
THEOREM StartsAtOnceHolds == Spec => StartsAtOnce
<1>1. ASSUME IInv, [Next]_vars,
             NEW e \in Executors, job'[e] # job[e], job'[e] # NoRequest
      PROVE  worker[e] \in {"unborn", "idle"}
  <2> USE DEF IInv, Typed
  <2>1. CASE warmup
    BY <1>1, <2>1, SubmitKeepsIInv DEF warmup, Calls
  <2>2. ASSUME NEW r \in Requests, process_intent(r)
        PROVE  worker[e] \in {"unborn", "idle"}
    BY <1>1, <2>2, SubmitKeepsIInv DEF process_intent, Calls
  <2>3. ASSUME NEW x \in Executors, WorkerStep(x)
        PROVE  FALSE
    BY <1>1, <2>3 DEF WorkerStep, WorkerReturns, WorkerDies
  <2>4. CASE UNCHANGED job
    BY <1>1, <2>4
  <2> QED
    BY <1>1, <2>1, <2>2, <2>3, <2>4
       DEF Next, CallerStep, SubmitToBroken, Succeeded, Failed, TimesOut, close, Closed,
           Interrupted, vars
<1>2. IInv /\ [Next]_vars =>
        [\A e \in Executors :
           job'[e] # job[e] /\ job'[e] # NoRequest => worker[e] \in {"unborn", "idle"}]_vars
  BY <1>1
<1> QED
  BY <1>2, Inductive, PTL DEF Spec, StartsAtOnce

\* Each step of the service is a step of the promise, or none that the loop notices: the
\* result it is given is that of the request it waits for.
THEOREM KeepsPromiseHolds == Spec => KeepsPromise
<1>1. Init => Promise!Init
  BY DEF Init, Promise!Init
<1>2. IInv /\ [Next]_vars => [Promise!Next]_(Promise!vars)
  <2> SUFFICES ASSUME IInv, [Next]_vars PROVE [Promise!Next]_(Promise!vars)
    OBVIOUS
  <2> USE DEF IInv, Typed, CallerMatchesWorker, Promise!Next, Promise!vars
  <2>1. ASSUME NEW r \in Calls, asked' = r, reply' = "none", caller \in {"new", "ready"},
               caller # "waiting"
        PROVE  Promise!Next
    BY <2>1 DEF Promise!Ask
  <2>2. CASE warmup
    BY <2>1, <2>2 DEF warmup, Submit, Calls
  <2>3. ASSUME NEW r \in Requests, process_intent(r) \/ SubmitToBroken(r)
        PROVE  Promise!Next
    BY <2>1, <2>3 DEF process_intent, SubmitToBroken, Submit, Calls
  <2>4. CASE Succeeded
    <3>1. future = asked
      BY <2>4, ServiceAssumption DEF Succeeded, FutureMatchesRequest, Calls
    <3> QED
      BY <2>4, <3>1 DEF Succeeded, Promise!Succeed
  <2>5. CASE Failed \/ TimesOut
    BY <2>5 DEF Failed, TimesOut, FailCall, Promise!Fail
  <2>6. CASE Interrupted
    BY <2>6 DEF Interrupted, Promise!Abandon
  <2>7. CASE UNCHANGED <<asked, reply>>
    BY <2>7
  <2> QED
    BY <2>2, <2>3, <2>4, <2>5, <2>6, <2>7
       DEF Next, CallerStep, WorkerStep, WorkerReturns, WorkerDies, close, Closed, vars
<1> QED
  BY <1>1, <1>2, Inductive, PTL DEF Spec, KeepsPromise, Promise!Spec

-----------------------------------------------------------------------------
(* The model in the worker *)

\* A step inside a worker is none of the service; every other one is a step of it.
LEMMA RuntimeStepMaps == [RuntimeNext]_<<vars, runtimeVars>> => [Next]_vars
<1> SUFFICES ASSUME [RuntimeNext]_<<vars, runtimeVars>> PROVE [Next]_vars
  OBVIOUS
<1>1. CASE Hand
  BY <1>1 DEF Hand, Next
<1>2. CASE Others
  BY <1>2 DEF Others, Next
<1>3. ASSUME NEW e \in Executors, RuntimeStep(e) PROVE UNCHANGED vars
  BY <1>3 DEF RuntimeStep
<1>4. ASSUME NEW e \in Executors, Return(e) \/ Die(e) PROVE Next
  BY <1>4 DEF Return, Die, Next, WorkerStep
<1> QED
  BY <1>1, <1>2, <1>3, <1>4 DEF RuntimeNext

\* WorkerRuntime takes the steps of CognitionService as they are and adds to them, so that
\* what is proved of the latter carries over: no more than that is said here.
LEMMA RuntimeIsService == RuntimeSpec => Spec
<1>1. RuntimeInit => Init
  BY DEF RuntimeInit
<1> QED
  BY <1>1, RuntimeStepMaps, PTL DEF RuntimeSpec, Spec

\* In particular a worker that loads late or fails to load cannot make the loop take
\* another request's answer for its own.
THEOREM RuntimeKeepsPromise == RuntimeSpec => KeepsPromise
BY RuntimeIsService, KeepsPromiseHolds, PTL

\* And a worker that breaks or hangs while it loads costs one request, leaves no worker
\* behind that runs nothing, and keeps no later call waiting.
THEOREM RuntimeIsolates ==
  RuntimeSpec => [](NoIdleOrphan /\ OneErrorPerWorker) /\ StartsAtOnce
BY RuntimeIsService, NoIdleOrphanHolds, OneErrorPerWorkerHolds, StartsAtOnceHolds, PTL

RuntimeTyped ==
  /\ runtime \in [Executors -> {"empty", "half", "loaded"}]
  /\ progress \in [Executors -> Progress]
  /\ hit \in [Executors -> BOOLEAN]

\* A worker generates only with a runtime that takes itself for loaded.
ReadyMeansSeen == \A e \in Executors : progress[e] = "ready" => SeenAsLoaded(e)

RuntimeInv == RuntimeTyped /\ ReadyMeansSeen /\ FaultsDoNotLast

\* The steps of a call touch one worker, and leave it with a result that its faults explain.
LEMMA RuntimeStepKeeps ==
  ASSUME RuntimeInv, NEW e \in Executors, RuntimeStep(e)
  PROVE  RuntimeInv'
<1> USE DEF RuntimeInv, RuntimeTyped, ReadyMeansSeen, FaultsDoNotLast, SeenAsLoaded, Progress
<1>1. CASE BeginCall(e)
  BY <1>1 DEF BeginCall
<1>2. CASE LoadFirst(e)
  BY <1>2 DEF LoadFirst
<1>3. CASE LoadRest(e)
  BY <1>3 DEF LoadRest
<1>4. CASE LoadFails(e)
  BY <1>4 DEF LoadFails
<1>5. CASE Generate(e)
  BY <1>5 DEF Generate
<1>6. CASE GenerateFails(e)
  BY <1>6 DEF GenerateFails
<1> QED
  BY <1>1, <1>2, <1>3, <1>4, <1>5, <1>6 DEF RuntimeStep

LEMMA RuntimeInvStep == RuntimeInv /\ [RuntimeNext]_<<vars, runtimeVars>> => RuntimeInv'
<1> SUFFICES ASSUME RuntimeInv, [RuntimeNext]_<<vars, runtimeVars>> PROVE RuntimeInv'
  OBVIOUS
<1> USE DEF RuntimeInv, RuntimeTyped, ReadyMeansSeen, FaultsDoNotLast, SeenAsLoaded, Progress
<1>1. CASE Hand
  BY <1>1 DEF Hand
<1>2. CASE Others \/ UNCHANGED <<vars, runtimeVars>>
  BY <1>2 DEF Others, runtimeVars
<1>3. ASSUME NEW e \in Executors, RuntimeStep(e) PROVE RuntimeInv'
  BY <1>3, RuntimeStepKeeps
<1>4. ASSUME NEW e \in Executors, Return(e) PROVE RuntimeInv'
  BY <1>4 DEF Return
<1>5. ASSUME NEW e \in Executors, Die(e) PROVE RuntimeInv'
  BY <1>5 DEF Die
<1> QED
  BY <1>1, <1>2, <1>3, <1>4, <1>5 DEF RuntimeNext

\* A call during which no library raised is answered, whatever the calls before it went
\* through, except by the mlx runtime that is half loaded.
THEOREM FaultsDoNotLastHolds == RuntimeSpec => []FaultsDoNotLast
<1>1. RuntimeInit => RuntimeInv
  BY DEF RuntimeInit, RuntimeInv, RuntimeTyped, ReadyMeansSeen, FaultsDoNotLast, Progress
<1>2. RuntimeInv => FaultsDoNotLast
  BY DEF RuntimeInv
<1> QED
  BY <1>1, <1>2, RuntimeInvStep, PTL DEF RuntimeSpec
=============================================================================
