CONSTANT Outputs <- MCOutputs
SPECIFICATION FairSpec
INVARIANT EveryEventRendered
CHECK_DEADLOCK FALSE
