SPECIFICATION FairSpec
CONSTANTS
  sys = sys
  alice = alice
  bob = bob
  carol = carol
  ghost = ghost
  r1 = r1
  None = None
  Requests = {r1, r2, r3}
  Settlement = sys
  Accounts <- MCAccounts
  Currency <- MCCurrency
  Inputs <- MCContention
  OpeningEntries <- MCOpening
  NumericMax = 5
  MaxAttempts = 2
  PoolSize = 2
  Faults <- MCOneUnlucky
INVARIANTS
  DecisionCurrent
  BooksBalance
  DeadlockNeedsTransfer
  ContentionBound
PROPERTIES
  AtomicSpec
  EveryRequestAnswered
