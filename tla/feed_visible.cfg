SPECIFICATION FeedSpec
CONSTANTS
  a = a
  b = b
  c = c
  Speech = Speech
  Kinds <- PageOnly
  Song <- MCSong
  Start <- MCStart
  Nameless <- None
  Untimed <- None
  Unnumbered <- None
  Zones = {0}
  DayLength = 4
  ListLength = 2
  Window = 1
  MaxTime = 8
INVARIANTS
  VisibleIngested
