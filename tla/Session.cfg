SPECIFICATION FairSpec
CONSTANTS
  RingCap = 1
  Hold = 1
  PauseEnabled = TRUE
  MaxLevel = 1
  MaxFrames = 3
  MaxFailures = 1
  MaxConns = 3
INVARIANTS
  SentInOrder
  NoFrameVanishes
  QuietAfterHook
  PoliteEndLosesNothing
  CleanEndIsComplete
PROPERTIES
  LostSpeechIsCounted
  ResumeIsNoticed
  WriterHearsAudio
  SessionEnds
CHECK_DEADLOCK FALSE
