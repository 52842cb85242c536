SPECIFICATION Spec
CONSTANTS
  Recorded = {"tenant.created", "identity.created", "", "identity.deactivated"}
  THandler = {t1, t2}
  IHandler = {i1, i2}
  KHandler = {}
  Slug = {1}
  Handle = {1}
  Attributes = {a1, a2}
  AskedType = {}
  AskedPurpose = {}
  MaxTenants = 1
  MaxIdentities = 1
  MaxVersion = 3
  MaxKeys = 2
  MaxKeyPairs = 2
  SeedTenants = 0
  SeedIdentities <- NoIdentity
SYMMETRY Symmetric
INVARIANTS
  IdentityCallsSound
  LifecycleEventsSound
PROPERTIES
  IdentityHistory
  NoLostUpdate
  TerminalSettles
