CONSTANTS
  c1 = c1
  c2 = c2
  NaN = NaN
  Err = Err
  NoOne = NoOne
  Callers <- MCCallers
  Prices <- MCPrices
  CacheTimeOut = 1
  MaxNow = 7
  MaxSkew = 1
SPECIFICATION Spec
INVARIANTS
  SingleFlight
PROPERTIES
  CachedPriceFresh
  AnswersFarApart
  ServedIfRequestsEnd
