CONSTANTS
  Names <- MCFields
  Handles = {"tui", "proc"}
  Texts <- MCTexts
  Console = "tui"
  Edits <- MCTypical
  DefaultKey <- MCDefaultKey
  KeyTail <- MCKeyTail
  MaxEdits = 1
  MaxSaves = 1
  MaxLoads = 0
  MaxCrashes = 1
  MaxPutFailures = 0
SPECIFICATION ConfigSpec
INVARIANT IdentityIsUuid
