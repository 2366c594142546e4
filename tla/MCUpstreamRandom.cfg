SPECIFICATION FairSpec
CONSTANTS
  c1 = c1
  c2 = c2
  Callers = {c1, c2}
  urls <- Weighted
  Unusable = {"r2"}
  LoadBalance = "random"
  CounterMod = 4
  MaxCalls = 1
PROPERTIES KeepsContract CallReturns
