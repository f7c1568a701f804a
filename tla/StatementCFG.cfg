SPECIFICATION Spec
CONSTANTS
  Programs <- MCPrograms
INVARIANTS
  TypeOK
  NothingDangles
  OrphansErased
  VerdictJustified
  LabelsAnchored
PROPERTIES
  ImplementsAdaStatements
CHECK_DEADLOCK FALSE
