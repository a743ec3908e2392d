SPECIFICATION Spec
CONSTANTS
  alice = alice
  bob = bob
  r1 = r1
  r2 = r2
  r3 = r3
  r4 = r4
  None = None
  Clients = {alice, bob}
  Requests = {r1, r2, r3, r4}
  ClientOf <- MCClientOf
  Price = 3
  Burst = 2
  Ttl = 7
  Period = 3
  Stall = 1
  Horizon = 12
SYMMETRY Symmetry
INVARIANTS
  WindowBound
  IdleClientsForgotten
PROPERTY
  ForgettingIsInvisible
