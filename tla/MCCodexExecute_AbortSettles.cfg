CONSTANT Outputs <- MCOutputs
SPECIFICATION FairSpec
PROPERTY AbortSettles
CHECK_DEADLOCK FALSE
