SPECIFICATION DeviceSpec
CONSTANTS
  Builds <- MCBuilds
  Credentials <- MCCredentials
  Networks <- MCNetworks
  Gateways <- MCGateways
  MaxJoins = 0
  MaxDrops = 0
  MaxCommands = 1
  MaxRestarts = 0
  Counts <- MCCounts
  CountWidth = 6
  SeqnoWidth = 2
  Second = 4
  HZ = 2
  MaxPings = 1
INVARIANT GiveFindsSemaphore
CHECK_DEADLOCK FALSE
