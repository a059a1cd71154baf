SPECIFICATION Spec
CONSTANTS
  Segments <- MCSegments
  MusicTimes <- MCMusicTimes
  States <- MCStates
  Clients = {c1}
  MaxWords = 2
  BreakGap = 2
  MusicReplayWindow = 3
  MaxUtterance = 3
  SubscriberBuffer = 2
  MaxCalls = 3
INVARIANTS
  SlowSubscriberIsDropped
CHECK_DEADLOCK FALSE
