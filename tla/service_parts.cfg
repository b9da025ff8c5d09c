CONSTANTS
  Checks = {k1}  Loops = {l1}  Users = {u1, u2}
  PreflightAttempts = 2  NumberAttempts = 2
  NumberLeases = 3  TurnLeases = 4  OnceLeases = 3
  Account = {a1}  Caller = {c1, c2}  NoOne = NoOne
  MaxTokens = 2  MaxPins = 1  MaxDevices = 2  Amounts = {0, 1}
  SavesFail = TRUE  BalanceFails = TRUE  Overlap = FALSE
  Environments <- FourEnvironments  Missing <- MissingFields  MaxMade = 2
  AccessToken = {t1, t2}  Fingerprint = {d1, d2}
  NoToken = NoToken  NoSession = NoSession  NoRequest = NoRequest
  NoPart = NoPart
SPECIFICATION PartSpec
SYMMETRY Symmetry
INVARIANTS    PINKept DeviceIsWhole RequestsHold
PROPERTIES RecordsHeeded FaceKept
CHECK_DEADLOCK FALSE
