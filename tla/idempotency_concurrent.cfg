SPECIFICATION Spec
CONSTANTS
  sys = sys
  alice = alice
  bob = bob
  ghost = ghost
  carol = carol
  c1 = c1
  c2 = c2
  c3 = c3
  k1 = k1
  Requests = {c1, c2}
  Settlement = sys
  Accounts <- MCAccounts
  Currency <- MCCurrency
  Inputs <- MCInputs
  OpeningEntries <- MCOpening
  TxIds <- MCTxIds
  NumericMax = 6
  NoKey = NoKey
  Foreign = {carol}
  Habits <- MCImpatient
INVARIANT
  ExecutedAtMostOnce
