SPECIFICATION FairFeedSpec
CONSTANTS
  Segments <- MCSegments
  MusicTimes <- MCMusicTimes
  States <- MCStates
  Clients = {}
  MaxWords = 2
  BreakGap = 2
  MusicReplayWindow = 4
  MaxUtterance = 3
  SubscriberBuffer = 2
  MaxCalls = 12
INVARIANTS
  SpeechAndMusicInOrder
PROPERTIES
  EndEdgeIsSettled
CHECK_DEADLOCK FALSE
