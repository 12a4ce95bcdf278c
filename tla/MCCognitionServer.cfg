\* Three requests at the lock, and a flight from the first heartbeat to the landing.
CONSTANTS
  Requests = {r1, r2, r3}
  NoRequest = none
  Reports <- FlightReports
  DryRun = FALSE
SPECIFICATION FairSpec
INVARIANT OneMemory LockComesFree
PROPERTY KeepsGate RequestsAnswered
CHECK_DEADLOCK FALSE
