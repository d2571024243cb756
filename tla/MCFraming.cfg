CONSTANTS
  Payloads <- MCPayloads
  Foreign <- MCForeign
  MaxInt32 = 99
  MaxLen <- MCMaxLen
  MaxSends = 2
  MaxForeign = 1
SPECIFICATION FairSpec
INVARIANT TypeOK
PROPERTY TakesWhatWasSent
PROPERTY EveryMessageIsTaken
CHECK_DEADLOCK FALSE
