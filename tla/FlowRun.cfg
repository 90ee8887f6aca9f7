SPECIFICATION Spec
CONSTANTS
  Agents = {a, b}
  Entrypoint = a
  ProtectedAgents = {a, b}
  NestedAgents = {b}
  ContextParameter = FALSE
  MaxHandoffs = 2
  Hosts = {"session", "chain", "both"}
  SaveCompletedState = FALSE
  MaxTurns = 2
  MaxItems = 7
INVARIANTS HistoryDelivered SessionIsLedger SnapshotKeepsHistory
