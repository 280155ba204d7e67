SPECIFICATION FairSpec
CONSTANTS
  SydneyOffsets <- MCSydney
  PacificOffsets <- MCPacific
  Late = TRUE
  MaxFaults = 1
  MaxDown = 2
  Behind = 1
  MaxHour = 44
INVARIANTS
  CycleTypeOK
  ReportsComplete
  NoGapBetweenNights
PROPERTIES
  TriggersEnd
