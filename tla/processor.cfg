CONSTANTS
  Agents <- MCAgents
  Keys <- MCKeys
  Urls <- MCUrls
  FormSizes <- MCFormSizes
  SizeWidth = 4
  HeapLimit = 10
  JsonStringMax = 5
  Messages <- MCUnlimited
  UnsetClient <- MCUnsetClient
  DefaultConfig <- MCDefaultConfig
  FirstConfig <- MCWorking
  SavedConfigs <- MCRename
  PeerUrl = "peer"
  PeerKey = "k"
  PeerHonours = FALSE
  MaxBatch = 2
  MaxLosses = 1
  MaxRestarts = 1
  MaxSaves = 1
SPECIFICATION Spec
INVARIANTS TypeOK ClientConfigured OneIdentity ReplyMatchesRequest AtMostOneReply TracesBracketWork
PROPERTIES ImplementsService PacedPolling
