CONSTANTS
  Keys <- MCKeys
  Nonces <- MCNonces
  Documents <- MCDocuments
  Replies <- MCReplies
  KeySlots = 2
  MaxResponses = 2
SPECIFICATION AgentSpec
INVARIANT OnlySealedIsPosted
