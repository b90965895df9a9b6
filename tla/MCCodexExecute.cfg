CONSTANT Outputs <- MCOutputs
SPECIFICATION FairSpec
INVARIANT TypeOK
INVARIANT AtMostOneSettleCall
INVARIANT EventsMatchOutput
PROPERTY SettlesOnceChildGone
PROPERTY ImplementsToolCall
PROPERTY SettledIsFinal
CHECK_DEADLOCK FALSE
