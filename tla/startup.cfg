SPECIFICATION FairSpec
CONSTANTS
  i1 = i1
  i2 = i2
  None = None
  Containers = {i1, i2}
  Deployments <- MCDeployments
  Latest = 3
  MaxAttempts = 2
INVARIANTS
  TypeOK
  ServesWhatWasMigrated
  ServesCurrentSchema
  AppliedOnce
PROPERTY
  ComesUp
