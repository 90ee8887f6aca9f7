SPECIFICATION Spec
CONSTANTS
  Tools = {read, write}
  ApprovalTools = {write}
  Handoffs = {transfer}
  FilteredHandoffs = {}
  Conversations = {c1}
  NoConversation = none
  MaxToolCalls = 2
  MaxRetries = 1
  ReturnErrors = TRUE
  Selections = {{read, write, transfer}, {read}}
  MaxBatch = 2
  MaxLostReplies = 1
INVARIANTS ContextDelivered CallsAnswered StopsResumably RequestBound ContinuationWhole
