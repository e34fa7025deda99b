\* Two passes; the budgets can each be the first to run out.
CONSTANTS
  MaxRequests = 3
  MaxInput = 4
  MaxTurns = 3
  MaxTools = 1
  MaxFixes = 1
  MaxAttempts = 2
  MaxEstimate = 2
  MaxSteps = 3
  MaxPasses = 2
  Goals <- MCGoals
SPECIFICATION Spec
INVARIANTS RequestsAreCounted PlansServeTheGoal
 
CHECK_DEADLOCK FALSE
