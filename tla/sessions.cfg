SPECIFICATION SessionSpec
CONSTANTS
  Handler = {h1, h2}
  s1 = s1
  s2 = s2
  a = a
  b = b
  Session = {s1, s2}
  Identity = {a, b}
  Owners <- OneOrTwoOwners
  SessionTTL = 3
  TokenTTL = 1
  MaxDelay = 1
INVARIANTS
  SessionTypeOK
  ValidTokenAccepted
PROPERTIES
  OwnSessionsOnly
  LogoutSettles
  SessionsEnd
