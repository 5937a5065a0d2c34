------------------------------ MODULE MCVoting ------------------------------
(***************************************************************************)
(* The instance of Voting that TLC explores.                               *)
(***************************************************************************)
EXTENDS Voting

CONSTANTS r1, r2, r3, sender, recoverer, peer, b1, b2

\* One representative is ahead; the recovering client and the peer are behind.
MCSkew == [p \in {r1, r2, sender, recoverer, peer} |->
             IF p = r2 THEN 1 ELSE IF p \in {peer, recoverer} THEN 0 - 1 ELSE 0]

MkVote(i, f, t, bs, fees) ==
  [issuer |-> i, from |-> f, to |-> t, blocks |-> bs, fees |-> fees]

\* With Slop = 2 and Threshold = 10, a vote that runs to 6 is temporary, one
\* that runs to 16 turns temporary at moment 6 and one to 40 stays permanent.
MCVotes == {
  MkVote(r1, 0, 40, <<b1, b2>>, "none"), MkVote(r2, 3, 40, <<b1, b2>>, "none"),
  MkVote(r3, 0, 16, <<b1, b2>>, "none"), MkVote(r1, 0, 6, <<b1, b2>>, "fees"),
  MkVote(r2, 0, 6, <<b1, b2>>, "none"),  MkVote(r2, 0, 40, <<b2, b1>>, "none"),
  MkVote(r3, 0, 40, <<b1, b2>>, "fees"), MkVote(r3, 0, 6, <<b1, b2>>, "quote"),
  MkVote(r1, 1, 40, <<b1, b2>>, "none"), MkVote(r2, 0, 40, <<b1, b1>>, "none")}

\* An injective numbering in which no field decides the order alone.
MCHash(v) ==
  IF v.blocks[1] \in {b1, b2}
    THEN (IF v.issuer = r1 THEN 20 ELSE IF v.issuer = r2 THEN 10 ELSE 30)
           + v.from + (IF v.to > 10 THEN 100 - 2 * v.to ELSE 5)
           + (IF v.blocks = <<b1, b2>> THEN 0 ELSE IF v.blocks = <<b2, b1>> THEN 400 ELSE 800)
           + (IF v.fees = "none" THEN 0 ELSE 200)
    ELSE (IF v.issuer = r1 THEN 5 ELSE 0) + 2 * v.from
           + (IF IsPerm(v) THEN 100 ELSE 0) + 1000 * Len(v.blocks)
           + (IF v.blocks[Len(v.blocks)] = "rfee" THEN 500 ELSE 0)

\* Entries with and without a beneficiary and a token, one of them free.
Entry(amount, payTo, token) == [amount |-> amount, payTo |-> payTo, token |-> token]
MCSchedules == {
  <<Entry(1, "none", "none")>>, <<Entry(2, "till", "gold")>>,
  <<Entry(2, "till", "gold"), Entry(3, "none", "base")>>,
  <<Entry(1, "none", "gold"), Entry(0, "none", "none")>>}
MCPriorities == {<< >>, <<"gold">>, <<"silver", "base">>}
MCAccounts == [r \in FeeReps |-> r]
MCWeight == [r \in FeeReps |-> IF r = r1 THEN 3 ELSE 1]
=============================================================================
