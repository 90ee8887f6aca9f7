SPECIFICATION RealtimeSpec
CONSTANTS
  Agents = {a, b}
  Entry = a
  Strangers = {x}
  MaxCalls = 2
  MaxInFlight = 2
INVARIANTS TypeOK ServerInStep
PROPERTIES EndsTruly StreamEnds
