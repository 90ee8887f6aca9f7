SPECIFICATION FairSpec
CONSTANTS
  NumCalls = 3
  Remote = {1}
  MayHang = {3}
  NullReturns = {1}
  MaxProgress = 1
INVARIANTS ResultsComplete
PROPERTIES ImplementsToolStep BatchEnds
