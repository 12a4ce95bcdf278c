\* Two commands, two cameras to try, and a microphone whose clock runs in blocks.
CONSTANTS
  ListenTimeout = 3
  MaxRecord = 3
  TrailingSilence = 2
  MinRecord = 2
  Poll = 2
  MaxStall = 1
  MaxCommands = 2
  Cameras = 2
SPECIFICATION FairSpec
INVARIANT RecordingFaithful CaptureBounded NothingLeftOpen VerdictIsCurrent PayloadIsCurrent
PROPERTY PromptReturns
CHECK_DEADLOCK FALSE
