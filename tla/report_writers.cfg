SPECIFICATION FairSpec
CONSTANTS
  Writers <- Everybody
  Kind <- EverybodyKind
  MaxPlays = 2
  MaxTurns = 1
  None = None
INVARIANTS
  TypeOK
  CorrectedIffVersioned
  GenerateBacked
PROPERTIES
  TurnsEnd
