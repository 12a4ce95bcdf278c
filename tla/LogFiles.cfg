\* Three writers, samples in twos, and two runs of the reset script.
CONSTANTS
  Writers = {w1, w2, w3}
  Samples = 2
  MaxResets = 2
SPECIFICATION Spec
INVARIANT HeaderFirst WrittenOnce ClosedMeansWritten
CHECK_DEADLOCK FALSE
