SPECIFICATION Spec
CONSTANTS
  Recorded = {"key.rotated", "key.revoked"}
  THandler = {}
  IHandler = {i1}
  KHandler = {k1}
  Slug = {1}
  Handle = {1, 2}
  Attributes = {}
  AskedType = {"ed25519", "rsa_4096"}
  AskedPurpose = {"signing"}
  MaxTenants = 1
  MaxIdentities = 2
  MaxVersion = 1
  MaxKeys = 3
  MaxKeyPairs = 3
  SeedTenants = 1
  SeedIdentities <- OneIdentity
INVARIANTS
  TypeOK
  KeyEventsSound

  
