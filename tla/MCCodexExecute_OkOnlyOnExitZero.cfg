CONSTANT Outputs <- MCOutputs
SPECIFICATION FairSpec
INVARIANT OkOnlyOnExitZero
CHECK_DEADLOCK FALSE
