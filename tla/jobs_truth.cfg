CONSTANTS
  Job = {j1, j2}
  Account = {a1}
  NoAccount = NoAccount
  Ops = {"signup", "change_phone", "deactivate"}
  FinishSent = {"login", "signup", "check_balance", "ensure_pin_setup", "change_phone", "deactivate"}
  SaveLosses = 1
  AnswersLost = TRUE
  Overlap = TRUE
SPECIFICATION Spec
SYMMETRY Symmetry
INVARIANTS StoreIsNeverAhead SucceededIsTrue
CHECK_DEADLOCK FALSE
