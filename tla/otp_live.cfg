CONSTANTS
  m1 = m1  m2 = m2  j1 = j1  j2 = j2
  plus = plus  bare = bare  sms = sms  kPlus = kPlus  kBare = kBare  kSms = kSms
  acct = acct  NoOne = NoOne  NoTarget = NoTarget
  Target = {plus, sms}
  Key = {kPlus, kBare, kSms}
  IndexKeys <- PlusKeys
  Msg = {m1, m2}
  Manual = {}
  Job = {j1, j2}
  Account = {acct}
  AccountOf <- OneAccount
  Goals <- AnyGoal
  Timeouts = {1}
  Grace = 2
  ClaimTTL = 2
  HoldLimit = 1
  LatestTTL = 3
  WaitLimit = 2
  Rounds = 1
  MaxTime = 1
  Faults = {}
CHECK_DEADLOCK FALSE
SPECIFICATION FairSpec
INVARIANTS RightTarget ReachableWait ClaimHeldByPoster
PROPERTIES WaitingJobIsResumed
