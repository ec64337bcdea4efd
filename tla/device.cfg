SPECIFICATION LiveSpec
CONSTANTS
  Builds <- MCBuilds
  Credentials <- MCCredentials
  Networks <- MCNetworks
  Gateways <- MCGateways
  MaxJoins = 2
  MaxDrops = 1
  MaxCommands = 1
  MaxRestarts = 1
  Counts <- MCCounts
  CountWidth = 6
  SeqnoWidth = 2
  Second = 4
  HZ = 2
  MaxPings = 1
INVARIANTS DeviceTypeOK SetupUndisturbed SntpFollowsGateway PingRunsToItsEnd NothingLeft
PROPERTIES SntpWhileJoined ConsoleComesUp PingReturns
CHECK_DEADLOCK FALSE
