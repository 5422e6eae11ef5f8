SPECIFICATION Spec
CONSTANTS
  Null = Null
  s1 = s1
  s2 = s2
  req = req
  alt = alt
  ConfiguredSlot = s1
  RequiredProposal = req
  CheckpointHeight = 0
  Slots = {s1}
  Hashes = {req}
  M6ids = {m1, m2}
  SidechainHashes = {c1}
  UnusedMaxAge = 2
  UnusedThreshold = 1
  UsedMaxAge = 2
  UsedThreshold = 1
  BundleMaxAge = 2
  InclusionThreshold = 1
  MaxVotes = 3
  LeadMargin = 1
  SingleM6 = TRUE
  Bootstrap <- BetanetBootstrap
  MaxMoney = 2
  MaxHeight = 5
  MaxMessages = 2
  MaxTransactions = 2
  MaxOutputs = 1
INVARIANTS
  TypeOK
  CommittedTipIsSane
  OnePaymentPerProposal
  TreasuryBacksMints
CHECK_DEADLOCK FALSE
