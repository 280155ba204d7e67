SPECIFICATION FairServerSpec
CONSTANTS
  x = x
  y = y
  a = a
  b = b
  Speech = Speech
  Kinds <- AllKinds
  Song <- MCSong
  Start <- MCStart
  Nameless <- MCNameless
  Untimed <- MCUntimed
  Unnumbered <- MCUnnumbered
  Zones = {0, 1}
  DayLength = 4
  ListLength = 3
  Window = 1
  MaxTime = 7
  Threads = {x, y}
  MaxRequests = 2
  LimiterWindow = 2
  MaxCalls = 4
  LimiterMaxTime = 4
  Threshold = 3
  MaxRestarts = 2
  Subscriptions = {x, y}
  EventTypes = {play}
  MaxFired = 1
  MaxRetries = 3
  Ingests = {x, y}
  ChartDays = 2
  Tunes = {x, y}
  Operators = {x, y}
  Lookbacks = {1}
  TierFrom <- MCTierFrom
  MaxPlays = 4
  MaxAnalyses = 1
  MaxDay = 1
  Uploads = {x}
  CsvSongs = {y}
  NoName = NoName
  MaxRows = 2
  ReasonCap = 1
  Checks = {x, y}
  Readers = {x, y}
  MaxCheckTime = 3
  Services = {x, y}
  Seeds = 2
  MaxBoots = 2
INVARIANTS
  ServerTypeOK
  OffByZoneAndDay
  SamePlayOneRow
  ChartStoredDaily
  LimitHeld
  RefusedOnlyWhenFull
  PausedAfterThreshold
  DeadPollsBounded
  EndedRightly
  BackfillAllOrNothing
  EverySongOnce
  SeedsComplete
  NoCircularWait
PROPERTIES
  RepollAddsOnlyRepeats
  DeadSourcePaused
  EventsReturn
  SummariesNeverGoBack
  StartsEnd
