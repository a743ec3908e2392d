SPECIFICATION Spec
CONSTANTS
  sys = sys
  alice = alice
  bob = bob
  carol = carol
  ghost = ghost
  r1 = r1
  None = None
  Requests = {r1, r2}
  Settlement = sys
  Accounts <- MCMixedAccounts
  Currency <- MCMixedCurrency
  Inputs <- MCEdges
  OpeningEntries <- MCOpening
  NumericMax = 5
  MaxAttempts = 3
  PoolSize = 2
  Faults <- MCAllFaults
SYMMETRY Symmetry
INVARIANTS
  TypeOK
  NoOverdraft
  Reconciled
  ExactlyOnce
PROPERTY
  AtomicSpec
