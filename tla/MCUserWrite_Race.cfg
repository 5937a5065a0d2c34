CONSTANTS
  r1 = r1  r2 = r2  r3 = r3  acct = acct  token = token  signer = signer
  Reps = {r1, r2, r3}
  Accounts = {acct}
  c1 = c1  c2 = c2
  Clients = {c1, c2}
  Blocks <- MCBlocks
  Quorums <- Majorities
  Plan <- SendPlan
  Operating = acct
  Payer = acct
  FeesRequired = FALSE
  Weight <- EqualWeight
  Hung = {}
  MaxRetries = 0
  MaxRebuilds = 1
  MaxFaults = 1
SPECIFICATION Spec
INVARIANTS TypeOK AcceptedIsCommitted SelfTempHeld RecoversOneBlock
PROPERTIES RerendersAfterRecovery ImplementsWriteCalls
