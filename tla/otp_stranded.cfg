CONSTANTS
  m1 = m1  m2 = m2  j1 = j1  j2 = j2
  plus = plus  bare = bare  sms = sms  kPlus = kPlus  kBare = kBare  kSms = kSms
  acct = acct  NoOne = NoOne  NoTarget = NoTarget
  Target = {bare}
  Key = {kBare}
  IndexKeys <- PlainKeys
  Msg = {m1}
  Manual = {}
  Job = {j1}
  Account = {acct}
  AccountOf <- OneAccount
  Goals <- AnyGoal
  Timeouts = {2}
  Grace = 3
  ClaimTTL = 2
  HoldLimit = 1
  LatestTTL = 3
  WaitLimit = 2
  Rounds = 1
  MaxTime = 3
  Faults = {}
CHECK_DEADLOCK FALSE
SPECIFICATION Spec
INVARIANTS NoStrandedCode
