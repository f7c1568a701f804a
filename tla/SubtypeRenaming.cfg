SPECIFICATION DebugSpec
CONSTANTS
  MaxValue = 3
  DefaultValue = 0
  Programs <- RenamedPrograms
  MaxDepth = 4
  Homonyms <- MCHomonyms
INVARIANTS
  SubtypeHeld
CHECK_DEADLOCK FALSE
