SPECIFICATION FairSpec
CONSTANTS
  a = a
  b = b
  NoId = NoId
  Jobs <- IHeartJobs
  Kind <- IHeartKind
  ListLength = 3
  NumPlays = 3
  Fingerprint <- MCFingerprint
  SourceId <- PlayIds
  Start <- MCStart
  StartKnown <- AllKnown
  Window = 1
  MaxTime = 4
  MaxRuns = 2
INVARIANTS
  TypeOK
  EachPlayOnce
  RunsAccounted
PROPERTIES
  ImplementsPlayLog
  JobsFinish
