CONSTANTS
  Job = {j1, j2}
  Account = {a1}
  NoAccount = NoAccount
  Ops = {"login", "signup", "check_balance", "ensure_pin_setup", "change_phone", "deactivate"}
  FinishSent = {"signup", "ensure_pin_setup", "change_phone", "deactivate"}
  SaveLosses = 1
  AnswersLost = FALSE
  Overlap = FALSE
SPECIFICATION FairSpec
 
PROPERTIES OutcomeKept JobEnds
CHECK_DEADLOCK FALSE
