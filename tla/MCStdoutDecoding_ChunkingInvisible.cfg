CONSTANTS
  Writes <- MCWrites
  MaxChunk = 3
SPECIFICATION Spec
INVARIANT ChunkingInvisible
CHECK_DEADLOCK FALSE
