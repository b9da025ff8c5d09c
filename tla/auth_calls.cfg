CONSTANTS
  NoPhone = NoPhone  NoAccount = NoAccount
  Phone = {p1, p2}
  Account = {a1}
  Callers <- FourCallers
SPECIFICATION Spec
SYMMETRY Symmetry
VIEW StateView
INVARIANTS StateOK CodesInTime ReadyIsVerified ChangesAccounted
PROPERTIES TokenKept LifeSpec
