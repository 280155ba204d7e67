SPECIFICATION Spec
CONSTANTS
  Writers <- OneClient
  Kind <- OneClientKind
  MaxPlays = 2
  MaxTurns = 2
  None = None
INVARIANTS
  HistoryKept
