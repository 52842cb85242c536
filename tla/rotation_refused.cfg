SPECIFICATION Spec
CONSTANTS
  Recorded = {}
  THandler = {}
  IHandler = {}
  KHandler = {k1}
  Slug = {1}
  Handle = {1}
  Attributes = {}
  AskedType = {}
  AskedPurpose = {}
  MaxTenants = 1
  MaxIdentities = 1
  MaxVersion = 1
  MaxKeys = 3
  MaxKeyPairs = 4
  SeedTenants = 1
  SeedIdentities <- OneIdentity
INVARIANT
  RotationHasRoom
