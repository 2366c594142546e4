SPECIFICATION FairSpec
CONSTANTS
  c1 = c1
  c2 = c2
  Callers = {c1, c2}
  urls <- ThreeHosts
  Unusable = {}
  LoadBalance = "round_robin"
  CounterMod = 6
  MaxCalls = 2
INVARIANTS TypeOK FairShare SoloCoversAll
PROPERTIES KeepsContract CallReturns
