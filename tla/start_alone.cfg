CONSTANTS
  NoStart = NoStart  NoRef = NoRef  NoOrder = NoOrder
  Start = {s1}
  Ref = {r1}
  Order = {o1, o2, o3}
  Tokenizations = {"true", "false", "qris"}
  LinkRetryLimit = 2
  ChargeRetryLimit = 3
  MaxTime = 3
CHECK_DEADLOCK FALSE
SPECIFICATION FairSpec
INVARIANTS FlowIsBacked StrayIsUnusable 
PROPERTIES StartImplements StartEnds
