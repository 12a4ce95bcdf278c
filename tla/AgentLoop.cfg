\* Two cognition errors before the failsafe hold, streaks of up to five.
CONSTANTS
  MaxFailures = 2
  MaxStreak = 5
SPECIFICATION FairSpec
INVARIANT FailsafeOnStreak LandedBeforeClosing
PROPERTY KeepsGate IterationEnds ShutdownEnds
CHECK_DEADLOCK FALSE
