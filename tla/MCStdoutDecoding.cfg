CONSTANTS
  Writes <- MCWrites
  MaxChunk = 3
SPECIFICATION Spec
INVARIANT TypeOK DamageConfined
CHECK_DEADLOCK FALSE
