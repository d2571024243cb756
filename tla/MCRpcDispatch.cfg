CONSTANT Services <- MCServices
SPECIFICATION Spec
INVARIANT RunsExactlyTheAdmitted
INVARIANT RefusalsEchoTheId
INVARIANT ErrorsNameTheWrongPart
CHECK_DEADLOCK FALSE
