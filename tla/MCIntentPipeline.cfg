\* Both backends on every transcript and model output of interest.
CONSTANTS
  Texts <- TextsOfInterest
  ModelOutputs <- OutputsOfInterest
  DroneStates <- StatesOfInterest
  Backends = {"smolvlm", "mlx"}
SPECIFICATION Spec
CHECK_DEADLOCK FALSE
INVARIANT TargetSeenBeforeMotion HoldWins ModelCannotEscalate MotionIsVouched
PROPERTY AbsentTargetHolds
