SPECIFICATION Spec
CONSTANTS
  MachineWidths <- MCWidths
  Types <- NarrowTypes
  Boolean <- MCBoolean
  Arrays <- NarrowArrays
  AddressWidth = 4
INVARIANTS
  SubtypeEstablished
