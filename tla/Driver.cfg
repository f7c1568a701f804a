SPECIFICATION Spec
CONSTANTS
  Units <- MCUnits
  Emitted <- MCEmitted
  MaxRuns = 3
INVARIANTS
  TypeOK
  PipelineComplete
  BoundProgramLinks
PROPERTIES
  ImplementsBuildDirectory
CHECK_DEADLOCK FALSE
