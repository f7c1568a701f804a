SPECIFICATION Spec
CONSTANTS
  x = x
  y = y
  None = None
  Object <- MCObject
  Base <- MCBase
  Subtype <- MCSubtype
  Dynamic <- MCDynamic
  Calls <- MCCalls
INVARIANTS
  TypeOK
  CopyBackPrefix
  CompletedActualsValid
PROPERTIES
  ImplementsAdaCall
CHECK_DEADLOCK FALSE
