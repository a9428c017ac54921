SPECIFICATION LimitSpec
CONSTANTS
  Calls <- Household
  TrustedProxies <- Proxies
  MaxRequests = 1
  Window = 3
  MaxHits = 2
INVARIANT LimitInv
PROPERTY RefusalIsEarned
