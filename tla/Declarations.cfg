SPECIFICATION DebugSpec
CONSTANTS
  MaxValue = 3
  DefaultValue = 0
  Programs <- MCPrograms
  MaxDepth = 4
  Homonyms <- MCHomonyms
INVARIANTS
  ValuesDominate
  RefusalJustified
  FormalsDescribed
  BoundsDescribed
PROPERTIES
  ImplementsAdaElaboration
CHECK_DEADLOCK FALSE
