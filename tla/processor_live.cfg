CONSTANTS
  Agents <- MCAgents
  Keys <- MCKeys
  Urls <- MCUrls
  FormSizes <- MCFormSizes
  SizeWidth = 4
  HeapLimit = 10
  JsonStringMax = 5
  Messages <- MCLive
  UnsetClient <- MCUnsetClient
  DefaultConfig <- MCDefaultConfig
  FirstConfig <- MCWrongKey
  SavedConfigs <- MCRepair
  PeerUrl = "peer"
  PeerKey = "k"
  PeerHonours = TRUE
  MaxBatch = 2
  MaxLosses = 1
  MaxRestarts = 0
  MaxSaves = 2
SPECIFICATION FairSpec
INVARIANT OneAtATime
PROPERTIES EventuallyServed SettingsTakeEffect
