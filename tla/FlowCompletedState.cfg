SPECIFICATION Spec
CONSTANTS
  Agents = {a, b}
  Entrypoint = a
  ProtectedAgents = {a}
  NestedAgents = {}
  ContextParameter = FALSE
  MaxHandoffs = 2
  Hosts = {"session"}
  SaveCompletedState = TRUE
  MaxTurns = 3
  MaxItems = 8
INVARIANTS SessionAnswered
