CONSTANTS
  Keys <- UniqueKeys
  PageSize = 2
SPECIFICATION Spec
INVARIANTS
  TypeOK
  NamedPageShown
  TurnsAreContiguous
  TransitionHasItsStatement
