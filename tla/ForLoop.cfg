SPECIFICATION FairSpec
CONSTANTS
  MachineWidths <- MCWidths
  Types <- MCTypes
  Boolean <- MCBoolean
  Arrays <- NoArrays
INVARIANTS
  LoopTypeOK
PROPERTIES
  ImplementsAdaFor
  Terminates
CHECK_DEADLOCK FALSE
