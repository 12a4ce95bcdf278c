\* The vehicle begins to land while cognition thinks.
CONSTANTS
  MaxFailures = 2
  MaxStreak = 2
SPECIFICATION Spec
PROPERTY OnlyValidatedMotion
CHECK_DEADLOCK FALSE
