CONSTANTS
  Leading = {"a", "e", " "}
  Continuing = {"x"}
  Space = {" "}
  Typed <- TypedChars
  Generated <- Statements
  Snippets <- Snippet
  HistoryLimit = 2
  MaxLength = 3
SPECIFICATION Spec
INVARIANTS
  TypeOK
  CursorOnBoundary
