SPECIFICATION FeedSpec
CONSTANTS
  Segments <- MCSegments
  MusicTimes <- MCMusicTimes
  States <- MCStates
  Clients = {}
  MaxWords = 2
  BreakGap = 2
  MusicReplayWindow = 3
  MaxUtterance = 3
  SubscriberBuffer = 2
  MaxCalls = 9
INVARIANTS
  TimelineNondecreasing
CHECK_DEADLOCK FALSE
