SPECIFICATION TextSpec
CONSTANTS
  Nodes <- MCNodes
  Positions = {3, 26}
  MaxEdits = 2
INVARIANTS ParsedIffUnchanged
CHECK_DEADLOCK FALSE
