\* Worker processes that may hang, crash and answer late, and that load their model in
\* the first call: up to three executors, two requests that may be asked again.
CONSTANTS
  Requests = {r1, r2}
  Warmup = warm
  NoRequest = none
  Executors = {e1, e2, e3}
  NoExecutor = noexec
  Isolated = TRUE
SPECIFICATION FairRuntimeSpec
INVARIANT OneErrorPerWorker NoIdleOrphan FaultsDoNotLast
PROPERTY KeepsPromise StartsAtOnce CallsReturn CloseReturns
CHECK_DEADLOCK FALSE
