CONSTANTS
  Names <- MCFields
  Handles = {"tui"}
  Texts <- MCTexts
  Console = "tui"
  Edits <- MCEdits
  DefaultKey <- MCDefaultKey
  KeyTail <- MCKeyTail
  MaxEdits = 2
  MaxSaves = 2
  MaxLoads = 0
  MaxCrashes = 2
  MaxPutFailures = 1
SPECIFICATION ConfigSpec
INVARIANTS ConfigTypeOK SavedConfigSurvives PollingOnMeansComplete
CHECK_DEADLOCK FALSE
