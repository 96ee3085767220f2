SPECIFICATION Spec
CONSTANTS
  t1 = t1
  t2 = t2
  other = other
  Tasks = {t1, t2, other}
  Foreign = {other}
  Setups <- MCSetups
  MaxFaults = 1
INVARIANT TypeOK
INVARIANT LevelsAgree
INVARIANT PackagesWhole
PROPERTY StoresAgain
