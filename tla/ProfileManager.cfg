CONSTANTS
  Names = {1, 2}
  Flags = {"quick", "hidden"}
SPECIFICATION Spec
INVARIANTS
  TypeOK
  InSync
PROPERTIES
  MarkersStayExclusive
  StaysAttached
  CursorStaysOnChosen
