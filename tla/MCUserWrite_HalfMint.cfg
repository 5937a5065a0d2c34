CONSTANTS
  r1 = r1  r2 = r2  r3 = r3  acct = acct  token = token  signer = signer
  Reps = {r1, r2, r3}
  Accounts = {acct, token}
  c1 = c1  c2 = c2
  Clients = {c1}
  Blocks <- MCBlocks
  Quorums <- Majorities
  Plan <- MintPlan
  Operating = acct
  Payer = acct
  FeesRequired = TRUE
  Weight <- EqualWeight
  Hung = {}
  MaxRetries = 0
  MaxRebuilds = 1
  MaxFaults = 0
SPECIFICATION Spec
INVARIANTS AllOrNothing
