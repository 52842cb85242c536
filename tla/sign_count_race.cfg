SPECIFICATION WebAuthnSpec
CONSTANTS
  Handler = {h1, h2}
  a = a
  b = b
  Identity = {a, b}
  counting = counting
  silent = silent
  code = code
  Credential = {counting, silent, code}
  Enrolment <- TwoPasskeys
  Counterless = {silent}
  Challenge = {c1, c2}
  MaxAssertions = 2
  None = None
SYMMETRY Interchangeable
PROPERTY SignCountMonotone
