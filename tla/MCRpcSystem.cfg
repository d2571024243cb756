CONSTANTS
  Services <- MCServices
  Pooled <- MCPooled
  Plans <- MCPlans
  MaxInt32 = 2
  MaxCalls = 3
SPECIFICATION FairSpec
INVARIANT WaitingCallsAreSomewhere
PROPERTY CallsKeepTheContract
PROPERTY EveryCallReturns
PROPERTY ShutdownIsExplained
CHECK_DEADLOCK FALSE
