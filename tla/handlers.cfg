SPECIFICATION Spec
CONSTANTS
  c1 = c1
  c2 = c2
  c3 = c3
  c4 = c4
  c5 = c5
  c6 = c6
  c7 = c7
  c8 = c8
  None = None
  Settlement = settlement
  MaxLimit = 2
  Calls = {c1, c2, c3, c4, c5, c6, c7, c8}
  Scenarios <- MCScenarios
INVARIANTS
  TypeOK
  RegistrationsHold
  OwnerDebits
  OwnDataOnly
  ReadYourWrites
PROPERTY
  VerdictMeansNetChange
