CONSTANTS
  Mark = 2
  Sizes <- MCSizes
  Requests = 6
SPECIFICATION FairSpec
INVARIANT TypeOK
INVARIANT AboveTheMarkNothingIsRead
INVARIANT ForgottenOnlyTheFirstTime
PROPERTY StoppedReadingResumes
PROPERTY RequestsAreRead
CHECK_DEADLOCK FALSE
