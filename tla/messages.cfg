CONSTANTS
  Unit = 10
  CoarseFrom = 1000
  Int64Max = 10000
  Received <- MCReceived
  Agent <- MCAgent
  ConfigDoc <- MCConfig
  Now = 1236
  MaxHops = 2
SPECIFICATION PathSpec
INVARIANTS WrittenConforms RelayKeeps ReplyKeepsRequest Addressed
PROPERTY RelayStable
CHECK_DEADLOCK FALSE
