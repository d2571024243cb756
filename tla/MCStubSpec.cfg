CONSTANT Protos <- AllProtos
CONSTANT Invocations <- MCInvocations
SPECIFICATION MainSpec
INVARIANT ParsesTheWellFormed
INVARIANT GeneratedCallsAreAdmitted
INVARIANT ArgumentsArrive
INVARIANT AllOrNothing
CHECK_DEADLOCK FALSE
