SPECIFICATION RunSpec
CONSTANTS
  Programs <- MCAllPrograms
  MaxDepth = 4
INVARIANTS
  TypeOK
  HoistedIsolated
  CallsMatch
  ParametersLeast
  RefusalExact
  UpLevelCorrect
CHECK_DEADLOCK FALSE
