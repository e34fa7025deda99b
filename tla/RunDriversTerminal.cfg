SPECIFICATION DriversSpec
CONSTANTS
  Worker = Worker
  Requests = {r1, r2}
  Nobody = Nobody
  MaxTurns = 2
  MaxPlans = 2
PROPERTIES
  TerminalRunIsImmutable
CHECK_DEADLOCK FALSE
