----------------------------- MODULE VoteStaple -----------------------------
(***************************************************************************)
(* keetanetwork-vote: the validity of votes (validity.rs) and the bundle   *)
(* of blocks and votes that is exchanged as a staple (staple.rs).          *)
(*                                                                         *)
(* A block is its hash.  A vote is a record of its issuer, the two ends of *)
(* its validity, the blocks it lists, and its fees: "none", "fees", or     *)
(* "quote" for a fee schedule that makes it a quote.  Vote hashes are an   *)
(* injective numbering of the votes.  Times are integers; the saturation   *)
(* of the code's 64-bit sums is out of reach, since a BlockTime is a date  *)
(* some hundred thousand years from now at most.  What distinguishes the   *)
(* error codes, the signatures and the compression is left out.            *)
(***************************************************************************)
EXTENDS Integers, Sequences, FiniteSets

CONSTANTS
  Slop,          \* ValidationConfig::allowed_slop_ms
  Threshold,     \* ValidationConfig::permanent_vote_threshold_ms
  Hash(_)        \* the hash of a vote

ASSUME ConfigAssumption == Slop \in Nat /\ Threshold \in Nat

Elements(s) == {s[i] : i \in 1..Len(s)}

-----------------------------------------------------------------------------
(* Validity.                                                               *)
IsExpiredAt(v, moment) == moment + Slop < v.from \/ moment - Slop > v.to

MomentBeforeFromNoSlop(v, moment) == moment < v.from
MomentIsBeforeFrom(v, moment) == moment < v.from - Slop

IsActiveAt(v, moment) == ~MomentIsBeforeFrom(v, moment) /\ ~IsExpiredAt(v, moment)

IsPermanentAt(v, moment) == v.to > moment + Threshold

-----------------------------------------------------------------------------
(* The invariants of a staple.                                             *)

\* validate_vote_against_representative: the representative vote is the first
\* one supplied.
VoteFits(v, representative, moment) ==
  /\ v.fees # "quote"
  /\ IsActiveAt(v, moment)
  /\ v.blocks = representative.blocks
  /\ IsPermanentAt(v, moment) = IsPermanentAt(representative, moment)
  /\ IsPermanentAt(v, moment) => v.fees = "none"

DistinctIssuers(votes) ==
  \A i, j \in 1..Len(votes) : votes[i].issuer = votes[j].issuer => i = j

VotesValid(votes, moment) ==
  /\ \A i \in 1..Len(votes) : VoteFits(votes[i], votes[1], moment)
  /\ DistinctIssuers(votes)

\* reorder_blocks_to_match: the slot of a block is the first place the
\* representative vote lists it; no slot may be filled twice or left empty.
SlotOf(expected, b) ==
  CHOOSE s \in 1..Len(expected) :
    expected[s] = b /\ \A t \in 1..(s - 1) : expected[t] # b

FillSlots(blocks, expected) ==
  /\ Elements(blocks) \subseteq Elements(expected)
  /\ \A i, j \in 1..Len(blocks) :
       SlotOf(expected, blocks[i]) = SlotOf(expected, blocks[j]) => i = j
  /\ \A s \in 1..Len(expected) :
       \E i \in 1..Len(blocks) : SlotOf(expected, blocks[i]) = s

KeepSupplied(blocks, expected) == blocks
Reordered(blocks, expected) ==
  [s \in 1..Len(expected) |->
     blocks[CHOOSE i \in 1..Len(blocks) : SlotOf(expected, blocks[i]) = s]]

\* The votes by ascending hash (they have distinct issuers, so they differ).
InArrivalOrder(votes) == votes
SortedByHash(votes) ==
  [k \in 1..Len(votes) |->
     CHOOSE v \in Elements(votes) :
       Cardinality({w \in Elements(votes) : Hash(w) < Hash(v)}) = k - 1]

Rejected == [ok |-> FALSE, blocks |-> << >>, votes |-> << >>]

\* VoteStaple::try_new.
TryNew(blocks, votes, moment) ==
  IF /\ votes # << >> /\ blocks # << >>
     /\ VotesValid(votes, moment)
     /\ FillSlots(blocks, votes[1].blocks)
    THEN [ok |-> TRUE,
          blocks |-> Reordered(blocks, votes[1].blocks),
          votes |-> SortedByHash(votes)]
    ELSE Rejected

\* VoteStaple::verify, on what the wire bytes decode to.
AssertVoteOrderDescending(votes) ==
  \A i, j \in 1..Len(votes) : j = i + 1 => Hash(votes[j]) <= Hash(votes[i])
AssertVoteOrder(votes) ==
  \A i, j \in 1..Len(votes) : j = i + 1 => Hash(votes[i]) <= Hash(votes[j])

Verify(wire, moment) ==
  /\ wire.votes # << >> /\ wire.blocks # << >>
  /\ VotesValid(wire.votes, moment)
  /\ wire.blocks = wire.votes[1].blocks
  /\ AssertVoteOrder(wire.votes)

-----------------------------------------------------------------------------
\* The moment a reconstructed staple is validated at: the latest `from', when
\* the validity windows of its votes overlap, otherwise `fallback'.
LatestFrom(votes) ==
  CHOOSE t \in {v.from : v \in votes} : \A v \in votes : v.from <= t
Overlap(votes) == votes # {} /\ \A v \in votes : LatestFrom(votes) <= v.to

StapleMomentNow(votes, fallback) == fallback
StapleMoment(votes, fallback) ==
  IF Overlap(Elements(votes)) THEN LatestFrom(Elements(votes)) ELSE fallback
=============================================================================
