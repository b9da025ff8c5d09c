CONSTANTS
  NoFlow = NoFlow  NoRef = NoRef
  Flow = {f1, f2}
  Call = {c1, c2, c3, c4, c5}
  Ref = {r1, r2}
  Token = {t1}
  Modes = {"link", "manual"}
  Exclusive = TRUE
  Protocol = TRUE
  Crashes = TRUE
CHECK_DEADLOCK FALSE
SPECIFICATION Spec
SYMMETRY Symmetry
INVARIANTS OneChargePerFlow
