SPECIFICATION LiveFairSpec
CONSTANTS
  MaxRetries = 1
  MaxTurns = 2
  MaxCancels = 1
INVARIANTS CancelStopsOrIntercepted CompletedTurnKept TurnsBuildOnEachOther ConversationCleanedUp
PROPERTIES TurnEnds ConversationEnds
