SPECIFICATION FairSpec
CONSTANTS
  MaxReplans = 2
  FreshFacts <- MCFreshFacts
  NoFingerprint = NoFingerprint
INVARIANTS
  SucceededStepIsBacked
  
  InvocationsAreEarned
PROPERTIES
  BlockedIsNeverRetried
  StepEnds
CHECK_DEADLOCK FALSE
