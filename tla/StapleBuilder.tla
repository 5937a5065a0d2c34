--------------------------- MODULE StapleBuilder ---------------------------
(***************************************************************************)
(* A session of VoteStapleBuilder (builder.rs): blocks and votes are added *)
(* in any order, the staple is built as of some moment, and a peer         *)
(* verifies what it receives as of a moment of its own.                    *)
(***************************************************************************)
EXTENDS VoteStaple

CONSTANTS
  Blocks,        \* block hashes
  Votes,         \* the votes that may be added
  Moments,       \* the moments a staple may be validated at
  MaxBlocks, MaxVotes   \* bounds on a session

VARIABLES
  blocks,   \* VoteStapleBuilder::blocks
  votes,    \* VoteStapleBuilder::votes
  moment,   \* the moment the staple was built at
  staple,   \* the staple that was built, Rejected before and on an error
  built,    \* whether build was called
  verdict   \* what a peer said of it: "none", "accepted" or "refused"

vars == <<blocks, votes, moment, staple, built, verdict>>

Init ==
  /\ blocks = << >> /\ votes = << >>
  /\ moment = 0 /\ staple = Rejected /\ built = FALSE /\ verdict = "none"

AddBlock(b) ==
  /\ ~built /\ Len(blocks) < MaxBlocks
  /\ blocks' = Append(blocks, b)
  /\ UNCHANGED <<votes, moment, staple, built, verdict>>

AddVote(v) ==
  /\ ~built /\ Len(votes) < MaxVotes
  /\ votes' = Append(votes, v)
  /\ UNCHANGED <<blocks, moment, staple, built, verdict>>

Build(m) ==
  /\ ~built /\ built' = TRUE
  /\ moment' = m
  /\ staple' = TryNew(blocks, votes, m)
  /\ UNCHANGED <<blocks, votes, verdict>>

\* The staple travels and a peer verifies it, at its own moment, which becomes
\* the moment the staple is next judged by.
Receive(m) ==
  /\ built /\ staple.ok
  /\ moment' = m
  /\ verdict' = IF Verify(staple, m) THEN "accepted" ELSE "refused"
  /\ UNCHANGED <<blocks, votes, staple, built>>

Next ==
  \/ \E b \in Blocks : AddBlock(b)
  \/ \E v \in Votes : AddVote(v)
  \/ \E m \in Moments : Build(m) \/ Receive(m)
  \/ built /\ ~staple.ok /\ UNCHANGED vars

Spec == Init /\ [][Next]_vars

-----------------------------------------------------------------------------
\* What the votes must be like, whatever their order: one per issuer, each of
\* them active and no quote, all for the same blocks, and all permanent and
\* free of fees or all temporary.
Endorse(vs, m) ==
  /\ vs # {}
  /\ \A v, w \in vs : v.blocks = w.blocks /\ (v.issuer = w.issuer => v = w)
  /\ \A v \in vs : v.from - Slop <= m /\ m <= v.to + Slop /\ v.fees # "quote"
  /\ \/ \A v \in vs : v.to - m > Threshold /\ v.fees = "none"
     \/ \A v \in vs : v.to - m <= Threshold

\* try_new succeeds exactly when the votes, as a set without repetitions,
\* endorse the supplied blocks, each supplied once, and the staple then lists
\* them in the votes' order: neither the order in which blocks and votes
\* arrived nor the vote that came first decides anything (staple.rs: the
\* staple is canonical).
BuildIsCanonical ==
  (built /\ verdict = "none") =>
    LET vs == Elements(votes)
        fits == \A v \in vs : /\ Elements(blocks) = Elements(v.blocks)
                              /\ Len(blocks) = Len(v.blocks)
                              /\ Cardinality(Elements(blocks)) = Len(blocks)
    IN /\ staple.ok <=> (Endorse(vs, moment) /\ Cardinality(vs) = Len(votes) /\ fits)
       /\ staple.ok => /\ \A v \in vs : staple.blocks = v.blocks
                       /\ Elements(staple.votes) = vs
                       /\ Len(staple.votes) = Len(votes)

\* A staple that was built is refused by a peer only for what time did to it:
\* at the peer's moment its votes no longer endorse anything.
RefusedOnlyByTime ==
  verdict # "none" => (verdict = "accepted" <=> Endorse(Elements(votes), moment))
=============================================================================
