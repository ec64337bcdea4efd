CONSTANTS
  Names <- MCFields
  Handles = {"tui", "proc"}
  Texts <- MCTexts
  Console = "tui"
  Edits <- MCTypical
  DefaultKey <- MCDefaultKey
  KeyTail <- MCKeyTail
  MaxEdits = 1
  MaxSaves = 1
  MaxLoads = 0
  MaxCrashes = 0
  MaxPutFailures = 1
SPECIFICATION ConfigSpec
INVARIANT SaveOkMeansStored
