SPECIFICATION Spec
CONSTANTS
  Segments <- MCSegments
  MusicTimes <- MCMusicTimes
  States <- MCStates
  Clients = {c1}
  MaxWords = 2
  BreakGap = 2
  MusicReplayWindow = 3
  MaxUtterance = 3
  SubscriberBuffer = 3
  MaxCalls = 5
INVARIANTS
  TranscriptIsWhatWasPainted
  PaintedInArrivalOrder
  OneVoicePerLine
  FrozenWhileMusic
  ViewersAgree
PROPERTIES
  ReleaseIsExact
  OwnHoldElapsed
  NoSongWordPainted
  NothingDiscardedReturns
  ImplementsCaptionStream
CHECK_DEADLOCK FALSE
