---------------------------- MODULE MCUserWrite ----------------------------
(* Instances of UserWrite for TLC.                                          *)
EXTENDS UserWrite

CONSTANTS r1, r2, r3, c1, c2, acct, token, signer

MCBlocks == Clients \X (0..MaxRebuilds) \X (0..Len(Plan)) \X (0..(MaxRetries + 1))

\* Equal weights: any two of three representatives are a quorum.
EqualWeight == [r \in Reps |-> 1]
Majorities  == {Q \in SUBSET Reps : 2 * Cardinality(Q) > Cardinality(Reps)}

\* A send renders to one block; a mint to one for the token, one for the holder.
SendPlan == <<acct>>
MintPlan == <<token, acct>>
=============================================================================
