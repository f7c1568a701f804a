SPECIFICATION Spec
CONSTANTS
  MaxMachine = 3
  Nominal = {2, 3}
  Unset = 1
  Junk = {0, 3}
  MaxOps = 4
  MaxSpread = 3
  Kinds <- MCKinds
INVARIANTS
  TypeOK
  IRValid
  OutcomesKept
  ValuesHeld
CHECK_DEADLOCK FALSE
