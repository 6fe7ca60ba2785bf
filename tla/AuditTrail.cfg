CHECK_DEADLOCK FALSE
CONSTANTS
  MaxBytes = 7
  MaxArchives = 2
  MaxRecords = 7
SPECIFICATION Spec
INVARIANTS
  TypeOK
  SizeBounded
  ArchivesContiguous
PROPERTY ImplementsLog
