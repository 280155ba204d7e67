SPECIFICATION Spec
CONSTANTS
  SydneyOffsets <- Winter
  PacificOffsets <- Standard
  Late = FALSE
  MaxFaults = 0
  MaxDown = 0
  Behind = 0
  MaxHour = 44
INVARIANTS
  DedupCurrent
