CONSTANTS
  Shapes <- AnyShape
  MaxInt32 = 1
  MaxCalls = 3
  MaxFrames = 2
SPECIFICATION FairSpec
INVARIANT TypeOK
INVARIANT CallsAccounted
INVARIANT CallbackGetsItsAnswer
INVARIANT HandledAnswersAreDelivered
INVARIANT NamedBadAnswersClean
PROPERTY EveryAnswerIsDelivered
CHECK_DEADLOCK FALSE
