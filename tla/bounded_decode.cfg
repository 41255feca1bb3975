SPECIFICATION DecodeSpec
CONSTANTS
  N = 5
  M = 2
  Declarable <- MCDeclarable
INVARIANTS MemoryFollowsInput ExcessIsRefusedEarly
CHECK_DEADLOCK FALSE
