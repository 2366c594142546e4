SPECIFICATION FairSpec
CONSTANTS
  c1 = c1
  c2 = c2
  Callers = {c1, c2}
  urls <- TwoHosts
  Unusable = {}
  LoadBalance = "round_robin"
  CounterMod = 8
  MaxCalls = 1
PROPERTY FailoverMovesOn
