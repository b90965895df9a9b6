CONSTANT Outputs <- MCOutputs
SPECIFICATION OrigSpec
INVARIANT TypeOK
PROPERTY ImplementsToolCall
PROPERTY SettledIsFinal
CHECK_DEADLOCK FALSE
