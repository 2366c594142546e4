SPECIFICATION Spec
CONSTANTS
  c1 = c1
  c2 = c2
  Callers = {c1, c2}
  urls <- TwoHosts
  Unusable = {}
  LoadBalance = "random"
  CounterMod = 8
  MaxCalls = 1
INVARIANT NextAnswers
