CONSTANTS
  Names <- MCFields
  Handles = {"tui", "proc"}
  Texts <- MCTexts
  Console = "tui"
  Edits <- MCTypical
  DefaultKey <- MCDefaultKey
  KeyTail <- MCKeyTail
  MaxEdits = 2
  MaxSaves = 2
  MaxLoads = 1
  MaxCrashes = 0
  MaxPutFailures = 0
SPECIFICATION ConfigSpec
INVARIANTS LoadedFieldsHeld SavedConfigSurvives
CHECK_DEADLOCK FALSE
