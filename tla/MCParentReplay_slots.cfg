SPECIFICATION Spec
CONSTANTS
  Null = Null
  s1 = s1
  s2 = s2
  req = req
  alt = alt
  ConfiguredSlot = s1
  RequiredProposal = req
  CheckpointHeight = 0
  Slots = {s1, s2}
  Hashes = {req}
  M6ids = {m1}
  SidechainHashes = {c1}
  UnusedMaxAge = 2
  UnusedThreshold = 1
  UsedMaxAge = 2
  UsedThreshold = 1
  BundleMaxAge = 2
  InclusionThreshold = 1
  MaxVotes = 3
  LeadMargin = 1
  SingleM6 = TRUE
  Bootstrap <- AlphaBootstrap
  MaxMoney = 1
  MaxHeight = 3
  MaxMessages = 2
  MaxTransactions = 1
  MaxOutputs = 2
INVARIANTS
  ConsistencyChecksPass
  TreasuryBacksMints
CHECK_DEADLOCK FALSE
