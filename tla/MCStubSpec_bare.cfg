CONSTANT Protos <- MCProtosBare
CONSTANT Invocations <- MCInvocationsBare
SPECIFICATION MainSpec
INVARIANT EveryStubRequestRuns
CHECK_DEADLOCK FALSE
