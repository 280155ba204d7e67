SPECIFICATION Spec
CONSTANTS
  Requests <- Three
  Operators <- Two
  Body <- TheBody
  NoOne = NoOne
INVARIANTS
  TypeOK
  RefusalsHonest
PROPERTIES
  RequestsEnd
