CONSTANTS
  Keys <- MCKeys
  Nonces <- MCNonces
  Documents <- MCDocuments
  Replies <- MCReplies
  KeySlots = 2
  MaxResponses = 2
SPECIFICATION AgentFairSpec
INVARIANTS AgentTypeOK Released AnswerAuthentic OpensToDocument
PROPERTIES CallReturns ImplementsExchange
