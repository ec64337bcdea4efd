CONSTANTS
  Names = {"a", "b"}
  Handles = {"x", "y"}
  Texts <- MCTexts
  Defaults <- MCDefaults
  Values <- MCValues
SPECIFICATION KVSpec
INVARIANTS ClientsTypeOK StringReadBack
PROPERTY OnlyWritersChange
