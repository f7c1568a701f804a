SPECIFICATION Spec
CONSTANTS
  MachineWidths <- MCWidths
  Types <- MCTypes
  Boolean <- MCBoolean
  Arrays <- MCArrays
  AddressWidth = 4
INVARIANTS
  TypeOK
  SubtypeEstablished
PROPERTIES
  ImplementsAdaScalars
