SPECIFICATION Spec
CONSTANTS
  Null = Null
  s1 = s1
  s2 = s2
  req = req
  alt = alt
  ConfiguredSlot = s1
  RequiredProposal = req
  CheckpointHeight = 0
  Slots = {s1}
  Hashes = {req, alt}
  M6ids = {m1}
  SidechainHashes = {c1}
  UnusedMaxAge = 3
  UnusedThreshold = 2
  UsedMaxAge = 4
  UsedThreshold = 2
  BundleMaxAge = 2
  InclusionThreshold = 1
  MaxVotes = 4
  LeadMargin = 1
  SingleM6 = FALSE
  Bootstrap <- BetanetBootstrap
  MaxMoney = 1
  MaxHeight = 8
  MaxMessages = 2
  MaxTransactions = 0
  MaxOutputs = 1
INVARIANTS
  ConsistencyChecksPass
PROPERTIES
  ActivationTakesTime
  ActivationIsFinal
  UnanimousProposalsActivate
CHECK_DEADLOCK FALSE
