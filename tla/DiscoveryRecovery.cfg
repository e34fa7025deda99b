\* Two steps and one retry, three routes, three queries of the recovery.
CONSTANTS
  given = given  seed = seed  hit = hit  board = board  portal = portal
  Urls = {given, seed, hit}
  Scopes = {board, portal}
  DomainOf <- MCDomainOf
  Supplied = {given}
  Listed = {hit}
  Findable = {hit}
  Posts = {hit}
  Priority = {seed}
  Seeds = {seed}
  ModelQueries = {"goal", "model"}
  Hints <- MCHints
  MaxRoutes = 3
  MaxBatch = 2
  MaxExpand = 1
  MaxTools = 7
  MaxCalls = 2
  MaxSteps = 2
  MaxRetries = 1
SPECIFICATION DiscoverySpec
INVARIANTS RoutesAreShared RecoverySearchIsAllowed
PROPERTY RecoveryEnds
