SPECIFICATION ImportSpec
CONSTANTS
  x = x
  y = y
  Uploads = {x}
  CsvSongs = {y}
  NoName = NoName
  MaxRows = 2
  ReasonCap = 1
INVARIANTS
  BackfillStores
