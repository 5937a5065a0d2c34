------------------------------- MODULE Voting -------------------------------
(***************************************************************************)
(* The parts that make and use votes, side by side: the clocks of a voting *)
(* round (StapleRound), the sessions of VoteStapleBuilder (StapleBuilder), *)
(* quotes and fees (Fees) and the reads of several answers (Reads).  They  *)
(* share no state, so a behaviour is one of one part, which subject names, *)
(* and the others stay as they began.                                      *)
(***************************************************************************)
EXTENDS StapleRound

CONSTANTS
  Blocks, Votes, Moments, MaxBlocks, MaxVotes,
  FeeReps, Weight, Quorum, Base, Schedules, Priorities, Key,
  Limits, MaxHeight

\* Votes as certificates hold them: dated, for at least one block (vote.rs
\* refuses a vote without blocks), and told apart by their hashes.
ASSUME BuilderAssumption ==
  /\ \A v \in Votes : /\ v.from \in Int /\ v.to \in Int
                      /\ v.blocks \in Seq(Blocks) /\ v.blocks # << >>
  /\ \A v, w \in Votes : Hash(v) \in Int /\ (Hash(v) = Hash(w) => v = w)
  /\ Moments \in SUBSET Int

\* There is a representative to ask, and limits and heights are counts.
ASSUME ReadsAssumption ==
  Reps # {} /\ Limits \in SUBSET Nat /\ MaxHeight \in Nat

\* Weights, thresholds and fees are counts, and the book is finite.
ASSUME FeesAssumption ==
  /\ IsFiniteSet(FeeReps) /\ Weight \in [FeeReps -> Nat] /\ Quorum \in Nat
  /\ \A fees \in Schedules :
       /\ fees \in Seq({fees[i] : i \in DOMAIN fees})
       /\ \A i \in DOMAIN fees : fees[i].amount \in Nat
  /\ \A ranked \in Priorities : ranked \in Seq({ranked[i] : i \in DOMAIN ranked})

VARIABLES
  subject,
  bBlocks, bVotes, bMoment, bStaple, built, verdict,
  phase, collectAll, waiting, quotes, accumulated, fVotes, priority, sends,
  height, readPc, known, limit, cursor, items, wanted, picks, lastError

Builder == INSTANCE StapleBuilder WITH
  blocks <- bBlocks, votes <- bVotes, moment <- bMoment, staple <- bStaple
Paying == INSTANCE Fees WITH Reps <- FeeReps, votes <- fVotes
Reading == INSTANCE Reads WITH pc <- readPc

builderVars == <<bBlocks, bVotes, bMoment, bStaple, built, verdict>>
feeVars == <<phase, collectAll, waiting, quotes, accumulated, fVotes, priority, sends>>
readVars == <<height, readPc, known, limit, cursor, items, wanted, picks, lastError>>
votingVars == <<subject, vars, builderVars, feeVars, readVars>>

VotingInit ==
  /\ subject \in {"round", "builder", "fees", "reads"}
  /\ Init /\ Builder!Init /\ Paying!Init /\ Reading!Init
  /\ subject # "reads" => height = [r \in Reps |-> 0]

RoundSteps ==
  subject = "round" /\ Next /\ UNCHANGED <<subject, builderVars, feeVars, readVars>>
BuilderSteps ==
  subject = "builder" /\ Builder!Next /\ UNCHANGED <<subject, vars, feeVars, readVars>>
FeeSteps ==
  subject = "fees" /\ Paying!Next /\ UNCHANGED <<subject, vars, builderVars, readVars>>
ReadSteps ==
  subject = "reads" /\ Reading!Next /\ UNCHANGED <<subject, vars, builderVars, feeVars>>
VotingNext == RoundSteps \/ BuilderSteps \/ FeeSteps \/ ReadSteps

VotingSpec == VotingInit /\ [][VotingNext]_votingVars

-----------------------------------------------------------------------------
\* A staple builds exactly when its votes endorse its blocks, whatever the
\* order in which both were added (VoteStaple::try_new).
BuildIsCanonical == Builder!BuildIsCanonical

\* A peer refuses a staple that was built only for what time did to its votes
\* (VoteStaple::verify).
RefusedOnlyByTime == Builder!RefusedOnlyByTime

\* The fee block pays every vote that requires a fee, once, in the token that the
\* payer ranks first of those the vote accepts (Fees::select, fee_operations).
FeesSettled == Paying!FeesSettled

\* Whoever quoted charges what it quoted: every request carries the quote of the
\* representative it goes to, and no other (quotes_by_issuer, request_votes).
QuotesHonoured == Paying!QuotesHonoured

\* request_quotes stops before every answer is in only with quotes of the
\* weight asked for, however many representatives refuse.
QuotesSuffice == Paying!QuotesSuffice

\* A paged read returns the whole chain, and vote_staple reports no staple only
\* when no representative had it (drain_cursor_pages, vote_staple).
ReadsComplete == Reading!ReadsComplete
=============================================================================
