\* A coloured target, no frame, and a transcript the fast path understands.
CONSTANTS
  Texts <- TextsOfInterest
  ModelOutputs <- OutputsOfInterest
  DroneStates <- StatesOfInterest
  Backends = {"smolvlm", "mlx"}
SPECIFICATION Spec
CHECK_DEADLOCK FALSE
INVARIANT VisualMotionIsGuarded
