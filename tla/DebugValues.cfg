SPECIFICATION DebugSpec
CONSTANTS
  MaxValue = 3
  DefaultValue = 0
  Programs <- MCPrograms
  MaxDepth = 4
  Homonyms <- MCHomonyms
INVARIANTS
  DebuggerTruthful
CHECK_DEADLOCK FALSE
