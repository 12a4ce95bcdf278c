---------------------------- MODULE WorkerRuntime ----------------------------
(***************************************************************************)
(* What the worker of a cognition service does with a call: the engine of  *)
(* src/perception/cognition_engine.py over one of its two local runtimes,  *)
(* vlm_runtime.py ("mlx") or smolvlm_runtime.py ("smolvlm").  A runtime    *)
(* loads its model in the first call that needs it, not only in the        *)
(* warm-up: a worker that replaces one that was given up was never warm.   *)
(*                                                                         *)
(* The module refines the worker of CognitionService: a call takes several *)
(* steps, between which the caller may time out, and its result depends on *)
(* what the calls before it left in the process.                           *)
(***************************************************************************)
EXTENDS CognitionService

VARIABLES
  backend,   \* which runtime the engine was built with
  runtime,   \* the fields of each worker's runtime: "empty", "half" or "loaded"
  progress,  \* how far each worker is with its call
  hit        \* history: the libraries raised something during this call

runtimeVars == <<backend, runtime, progress, hit>>

Backends == {"mlx", "smolvlm"}

\* "ready" is between loading and generating; "good" and "bad" when the engine has decided.
Progress == {"rest", "called", "loading", "completing", "ready", "good", "bad"}

RuntimeInit ==
  /\ Init
  /\ backend \in Backends
  /\ runtime = [e \in Executors |-> "empty"]
  /\ progress = [e \in Executors |-> "rest"]
  /\ hit = [e \in Executors |-> FALSE]

-----------------------------------------------------------------------------
(* load_local_model and load_model *)

\* Mutant: one of model and processor is enough for either runtime.
SeenAsLoadedByEither(e) == runtime[e] # "empty"

\* The early return asks for model and processor.  The mlx runtime sets both at once and
\* the functions that generate last; smolvlm sets the processor first and the model last.
SeenAsLoaded(e) ==
  \/ runtime[e] = "loaded"
  \/ backend = "mlx" /\ runtime[e] = "half"

\* The call reaches the runtime.
BeginCall(e) ==
  /\ progress[e] = "called"
  /\ progress' = [progress EXCEPT ![e] = IF SeenAsLoaded(e) THEN "ready" ELSE "loading"]
  /\ UNCHANGED <<backend, runtime, hit>>

\* The first fields are assigned; again, if an earlier call got no further than this.
LoadFirst(e) ==
  /\ progress[e] = "loading"
  /\ runtime' = [runtime EXCEPT ![e] = "half"]
  /\ progress' = [progress EXCEPT ![e] = "completing"]
  /\ UNCHANGED <<backend, hit>>

LoadRest(e) ==
  /\ progress[e] = "completing"
  /\ runtime' = [runtime EXCEPT ![e] = "loaded"]
  /\ progress' = [progress EXCEPT ![e] = "ready"]
  /\ UNCHANGED <<backend, hit>>

\* An import, the download, the conversion of the layers or the move to the device raises.
LoadFails(e) ==
  /\ progress[e] \in {"loading", "completing"}
  /\ progress' = [progress EXCEPT ![e] = "bad"]
  /\ hit' = [hit EXCEPT ![e] = TRUE]
  /\ UNCHANGED <<backend, runtime>>

-----------------------------------------------------------------------------
(* generate_profiled, or what warmup generates *)

\* With a field missing, generating raises on a None: TypeError, AttributeError, or the
\* assertion of warmup.
Generate(e) ==
  /\ progress[e] = "ready"
  /\ progress' = [progress EXCEPT ![e] = IF runtime[e] = "loaded" THEN "good" ELSE "bad"]
  /\ UNCHANGED <<backend, runtime, hit>>

\* The library raises.  mlx may have failed in streaming and then succeed in one batch.
GenerateFails(e) ==
  /\ progress[e] = "ready"
  /\ \/ progress' = [progress EXCEPT ![e] = "bad"]
     \/ /\ backend = "mlx" /\ runtime[e] = "loaded" /\ job[e] # Warmup
        /\ progress' = [progress EXCEPT ![e] = "good"]
  /\ hit' = [hit EXCEPT ![e] = TRUE]
  /\ UNCHANGED <<backend, runtime>>

RuntimeStep(e) ==
  /\ BeginCall(e) \/ LoadFirst(e) \/ LoadRest(e) \/ LoadFails(e) \/ Generate(e) \/ GenerateFails(e)
  /\ UNCHANGED vars

-----------------------------------------------------------------------------
(* Composition with the service *)

\* A worker is handed a call.
Hand ==
  /\ warmup \/ \E r \in Requests : process_intent(r)
  /\ progress' = [e \in Executors |-> IF job'[e] # job[e] THEN "called" ELSE progress[e]]
  /\ UNCHANGED <<backend, runtime, hit>>

Others ==
  /\ CallerStep \/ Interrupted \/ \E r \in Requests : SubmitToBroken(r)
  /\ UNCHANGED runtimeVars

\* process_intent of the engine turns what was raised into a CognitionError, which is a
\* result like any other, and only the write of the transaction log after it may raise;
\* the warm-up raises what it met.
Return(e) ==
  /\ progress[e] \in {"good", "bad"}
  /\ WorkerReturns(e)
  /\ (job[e] = Warmup /\ caller = "waiting" /\ e = executor) =>
       future' = IF progress[e] = "good" THEN Warmup ELSE "raised"
  /\ progress' = [progress EXCEPT ![e] = "rest"]
  /\ hit' = [hit EXCEPT ![e] = FALSE]
  /\ runtime' = IF worker'[e] = "gone" THEN [runtime EXCEPT ![e] = "empty"] ELSE runtime
  /\ UNCHANGED backend

Die(e) ==
  /\ WorkerDies(e)
  /\ progress' = [progress EXCEPT ![e] = "rest"]
  /\ hit' = [hit EXCEPT ![e] = FALSE]
  /\ runtime' = [runtime EXCEPT ![e] = "empty"]
  /\ UNCHANGED backend

RuntimeNext ==
  \/ Hand
  \/ Others
  \/ \E e \in Executors : RuntimeStep(e) \/ Return(e) \/ Die(e)

RuntimeSpec == RuntimeInit /\ [][RuntimeNext]_<<vars, runtimeVars>>

\* The event loop runs; what happens in a worker may take for ever.
FairRuntimeSpec == RuntimeSpec /\ WF_vars(CallerStep)

-----------------------------------------------------------------------------
(* Properties *)

\* A call during which nothing is raised is answered properly, whatever the calls before
\* it left behind: a load that failed is repeated, also in a worker that was never warm.
\* The one exception is the mlx runtime whose load raised between its assignments: it
\* takes itself for loaded and fails in every call until its worker is replaced.
FaultsDoNotLast ==
  \A e \in Executors :
    (progress[e] = "bad" /\ ~hit[e]) => (backend = "mlx" /\ runtime[e] = "half")
=============================================================================
