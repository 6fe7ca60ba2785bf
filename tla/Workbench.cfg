CONSTANTS
  Values <- Cells
  Columns <- ColumnNames
  Answers <- AnswerRows
  Needles <- TextNeedles
  DemoRows <- RowsOfDemo
  DemoHeaders <- HeadersOfDemo
  DemoColumn = 2
  Fields <- WizardFields
  Listings <- ListedColumns
SPECIFICATION Spec
INVARIANTS
  TypeOK
  CursorsOnCells
  SearchOnlyOverResults
  EditBelongsToField
