CONSTANTS
  Texts <- ShortTexts
  Other <- Risky
  ReadWords <- Reads
  NonceLimit = 2
SPECIFICATION GuardSpec
INVARIANTS
  SplitsAtSeparators
  OpenQuestionCanBeConfirmed
