SPECIFICATION Spec
CHECK_DEADLOCK FALSE
CONSTANTS
  g = g  x = x  c = c  a1 = a1  a2 = a2  a3 = a3  b1 = b1  b2 = b2
  d1 = d1  d2 = d2  m1 = m1
  Null = Null
  Blocks <- Tree
  Parent <- TreeParent
  Height <- TreeHeight
  Chain <- TreeChain
  Checkpoint = c
  DepositIds = {d1, d2}
  Deposits <- TreeDeposits
  M6ids = {m1}
  Payments <- TreePayments
  Proposals <- TreeProposals
  UniqueM6 = TRUE
  Rejected = {}
  Activated <- TreeActivated
  RequiredDepth = 2
  MaxLockedSteps = 1
  Callers = {"warm"}
  WriteFaults = TRUE
  MaxFaults = 3
  MaxReorgsInCall = 1
INVARIANTS
  PaidOnce
