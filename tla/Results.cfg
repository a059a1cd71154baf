SPECIFICATION Spec
CONSTANTS
  Window = 2
  MaxAnchors = 2
  SampleTicks = 2
  ChunkSizes = {1, 3}
  Gaps = {0, 2}
  Rounding = 1
  Edges = {"music"}
  MaxSource = 8
  MaxConns = 2
INVARIANTS WordsKeepTheirPlace PublishedInSourceOrder RecentAudioIsAnchored
CHECK_DEADLOCK FALSE
