SPECIFICATION Spec
CONSTANTS
  MaxRetries = 1
  MaxTurns = 2
  MaxCancels = 1
INVARIANTS CancelHitsItsTurn
