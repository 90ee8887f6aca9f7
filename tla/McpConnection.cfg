SPECIFICATION FairSpec
CONSTANTS
  Clients = {1, 2}
  Discovers = {1}
  Owned = {1}
  Runs = {r1}
  Manager = manager
  Host = host
  Names = {1, 2, 3}
  Local = {}
  Offers = {{1}, {2, 3}}
  None = none
  MaxStarts = 2
  MaxHostCalls = 1
INVARIANTS CatalogueWhole LostOnlyToOthers GroupClosed
PROPERTIES RunServed FailureEnds
CHECK_DEADLOCK FALSE
