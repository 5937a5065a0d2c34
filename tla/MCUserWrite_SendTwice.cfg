CONSTANTS
  r1 = r1  r2 = r2  r3 = r3  acct = acct  token = token  signer = signer
  Reps = {r1, r2, r3}
  Accounts = {acct}
  c1 = c1  c2 = c2
  Clients = {c1}
  Blocks <- MCBlocks
  Quorums <- Majorities
  Plan <- SendPlan
  Operating = acct
  Payer = acct
  FeesRequired = FALSE
  Weight <- EqualWeight
  Hung = {}
  MaxRetries = 2
  MaxRebuilds = 2
  MaxFaults = 2
SPECIFICATION Spec
INVARIANTS AppliedOnce
