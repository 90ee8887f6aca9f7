SPECIFICATION Spec
CONSTANTS
  CallIds = {1, 2}
  Threshold = 4
  KeepRecentTurns = 2
  MaxInputSize = 4
  MaxSummarySize = 1
  RequestOverhead = 1
  MaxItems = 6
  MaxForgotten = 1
INVARIANTS SummaryIsPrefix ContextComplete CallsNotSplit RecentTurnsKept
