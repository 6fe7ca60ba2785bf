CHECK_DEADLOCK FALSE
CONSTANTS
  Capacity = 4
  MaxRows = 12
SPECIFICATION FairSpec
INVARIANTS
  TypeOK
  IndicesLocateRows
  StopsWithinOneRow
PROPERTIES
  Terminates
  ImplementsContract
