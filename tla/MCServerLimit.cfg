\* Two of the three requests come with the key that is good for one.
CONSTANTS
  k1 = k1
  k2 = k2
  r1 = r1
  r2 = r2
  r3 = r3
  None = None
  Keys <- MCKeys
  Requests <- MCRequests
  KeyOf <- MCKeyOf
  Estimates = {1}
  RequestCost = 1
  RequestCapacity = 2
  RequestRefill = 1
  TokenCapacity = 2
  TokenRefill = 1
  ConcurrentPerKey = 1
  OlderThan = 2
  MaxTime = 0
  MaxSlots = 2
  MaxChunks = 2
SPECIFICATION Spec
CHECK_DEADLOCK FALSE
INVARIANT ConcurrencyLimited
