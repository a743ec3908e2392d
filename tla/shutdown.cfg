SPECIFICATION FairSpec
CONSTANTS
  c1 = c1
  c2 = c2
  c3 = c3
  Connections <- Three
  ReadHeaderTimeout = 1
  WriteTimeout = 3
  Grace = 6
INVARIANTS
  TypeOK
  PoolOutlivesHandlers
PROPERTIES
  GraceProtects
  SignalStops
