SPECIFICATION Spec
CONSTANTS
  Recorded = {}
  THandler = {}
  IHandler = {}
  KHandler = {k1, k2}
  Slug = {1, 2}
  Handle = {1, 2}
  Attributes = {}
  AskedType = {"ed25519"}
  AskedPurpose = {"signing", "authentication"}
  MaxTenants = 2
  MaxIdentities = 2
  MaxVersion = 1
  MaxKeys = 4
  MaxKeyPairs = 4
  SeedTenants = 2
  SeedIdentities <- OneIdentityEach
SYMMETRY Symmetric
INVARIANTS
  OneActiveKeyPerPurpose
  PrimaryKeyOwned
  SuccessionForward
  FirstKeyKept
  KeyCallsSound
PROPERTIES
  KeyHistory
  RevocationSettles
  SupersededStays
  KeyLedgerKept
