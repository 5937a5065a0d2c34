CONSTANTS
  r1 = r1  r2 = r2  r3 = r3  b1 = b1  b2 = b2
  sender = sender  recoverer = recoverer  peer = peer
  Reps = {r1, r2}
  Sender = sender
  Recoverer = recoverer
  Peers = {peer}
  Skew <- MCSkew
  TempLife = 3
  PermLife = 30
  Charging = {r2}
  MaxTime = 4
  Slop = 2
  Threshold = 10
  Hash <- MCHash
  Blocks = {b1, b2}
  Votes <- MCVotes
  Moments = {0, 3, 6, 9}
  MaxBlocks = 2
  MaxVotes = 3
  FeeReps = {r1, r2, r3}
  Weight <- MCWeight
  Quorum = 60
  Base = "base"
  Schedules <- MCSchedules
  Priorities <- MCPriorities
  Key <- MCAccounts
  Limits = {0, 1, 2}
  MaxHeight = 4
SPECIFICATION VotingSpec
INVARIANTS BuildIsCanonical RefusedOnlyByTime RecoveryAssembles PeersAccept
           FeesSettled QuotesHonoured QuotesSuffice ReadsComplete
PROPERTIES OnlySlowRoundsFail
CHECK_DEADLOCK FALSE
