SPECIFICATION Spec
CONSTANTS
  Name <- MCName
  Operator <- MCOperator
  Signed <- MCOperator
  Units <- MCUnits
INVARIANTS
  SymbolsDistinct
  CallsFollow
  TypeScopesResolve
  NamesStable
CHECK_DEADLOCK FALSE
