SPECIFICATION Spec
CONSTANTS
  Recorded = {}
  THandler = {}
  IHandler = {}
  KHandler = {k1, k2}
  Slug = {1}
  Handle = {1, 2}
  Attributes = {}
  AskedType = {}
  AskedPurpose = {}
  MaxTenants = 1
  MaxIdentities = 2
  MaxVersion = 1
  MaxKeys = 3
  MaxKeyPairs = 4
  SeedTenants = 1
  SeedIdentities <- OneIdentity
PROPERTY
  RevocationIsFinal
