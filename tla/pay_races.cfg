CONSTANTS
  NoFlow = NoFlow  NoRef = NoRef
  Flow = {f1, f2}
  Call = {c1, c2, c3}
  Ref = {r1, r2}
  Token = {t1}
  Modes = {"link", "manual"}
  Exclusive = FALSE
  Protocol = FALSE
  Crashes = TRUE
CHECK_DEADLOCK FALSE
SPECIFICATION FairSpec
INVARIANTS TypeOK SettledAnswerIsTrue SessionOwned StateKept PaidByHandIsConfirmable
PROPERTIES SessionSettles
