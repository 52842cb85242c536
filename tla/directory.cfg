SPECIFICATION DirectorySpec
CHECK_DEADLOCK FALSE
CONSTANTS
  Creator = {c1, c2}
  Lister = {l}
  Handle = {"x", "y"}
  AskedType = {"IDENTITY_TYPE_UNSPECIFIED", "IDENTITY_TYPE_AI_AGENT", "ai_agent", ""}
  PageSize = {0, 1}
  HttpLimit = 1
  AskedStatus = {"", "active"}
  MaxDepartures = 1
SYMMETRY Interchangeable
INVARIANTS
  ListingComplete
  AnswerTruthful
  ShownAsStored
