SPECIFICATION FairSpec
CONSTANTS
  m1 = m1  m2 = m2  m3 = m3
  line = line  text = text  other = other  chat = chat
  Message = {m1, m2}
  Body = {line, text, other, chat}
  CodeBody = {line, text, other}
  BodiesOf <- Texts
  Url = {good, bad}
  Routable = {good}
  Blank = blank
  MaxFingerprints = 2
  MaxLosses = 1
  MaxSaves = 1
CHECK_DEADLOCK FALSE
INVARIANT RelayHolds
PROPERTY ShownCodeSettles
