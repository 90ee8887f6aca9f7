SPECIFICATION Spec
CONSTANTS
  Attempts = 2
  BackoffSeconds = 1
  JitterSeconds = 1
  Timeout = 3
  Limits = {2, 4, 7}
  RetryAfters = {0, 3}
  MaxChunks = 2
  MaxNesting = 3
INVARIANTS OneBody RetryAfterHonoured
PROPERTIES WithinBudgets RequestEnds
