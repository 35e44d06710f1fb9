\* Two keys, bursts of two requests and three tokens that refill in two ticks.
CONSTANTS
  Keys = {k1, k2}
  Estimates = {0, 3}
  RequestCost = 2
  RequestCapacity = 4
  RequestRefill = 2
  TokenCapacity = 3
  TokenRefill = 2
  ConcurrentPerKey = 1
  OlderThan = 2
  MaxTime = 3
  MaxSlots = 1
SPECIFICATION LimiterSpec
SYMMETRY MCSymmetry
INVARIANTS
  GrantedRates
