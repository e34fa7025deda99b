SPECIFICATION FairSpec
CONSTANTS
  Plans <- MCPlans
  Shape <- MCShape
  StepCount <- MCStepCount
  NoPlan = NoPlan
  MaxReplans = 2
  ReplanCap = 3
  MaxAutoRecoveries = 1
  MaxPasses = 3
INVARIANTS
  
  PlansBoundedByPasses
  SucceededRunIsCovered
  CommittedPauseIsQuiet
PROPERTIES
  LifecycleImplemented
  DriverTerminates
CHECK_DEADLOCK FALSE
