SPECIFICATION Spec
CONSTANTS
  r1 = r1
  r2 = r2
  r3 = r3
  r4 = r4
  r5 = r5
  peer = peer
  forwarded = forwarded
  apikey = apikey
  key = key
  None = None
  Requests = {r1, r2, r3, r4, r5}
  PathOf <- MCPathOf
  PeerOf <- MCPeerOf
  ForwardOf <- MCForwardOf
  ApiKeyOf <- MCApiKeyOf
  KeyOf <- MCKeyOf
  Authentic = {r1, r2, r3, r4}
  Limits <- MCLimits
  Horizon = 2
INVARIANTS
  EndpointLimitsHold
  GlobalLimitHolds
  RefusalsNotStored
  OnlyAuthenticSpend
CHECK_DEADLOCK FALSE
