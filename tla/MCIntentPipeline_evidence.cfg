\* A malformed model output, and a transcript with a command as part of a word.
CONSTANTS
  Texts <- TextsOfInterest
  ModelOutputs <- OutputsOfInterest
  DroneStates <- StatesOfInterest
  Backends = {"smolvlm", "mlx"}
SPECIFICATION Spec
CHECK_DEADLOCK FALSE
INVARIANT CriticalNeedsEvidence
