CONSTANTS
  Names = {1, 2}
  Flags = {"quick", "hidden"}
SPECIFICATION Spec
PROPERTIES
  OptionsSurvive
