----------------------------- MODULE StapleRound -----------------------------
(***************************************************************************)
(* Clocks and the staple: transmit_round takes its moment before the first *)
(* voting round and validates the staple by it after the second one, while *)
(* every representative dates its votes by a clock of its own; and         *)
(* recover_account validates what it gathered by staple_moment.            *)
(*                                                                         *)
(* One client transmits, another one recovers the same account meanwhile,  *)
(* and peers verify the staples they receive.  Who votes for what, and     *)
(* what a representative refuses, is the subject of UserWrite; here a      *)
(* representative votes at most once temporarily and once permanently.     *)
(***************************************************************************)
EXTENDS VoteStaple

CONSTANTS
  Reps,          \* representatives
  Sender,        \* the client that transmits
  Recoverer,     \* the client that recovers
  Peers,         \* whoever verifies a staple
  Skew,          \* Skew[p]: how far the clock of p is ahead of true time
  TempLife,      \* how long a temporary vote is valid
  PermLife,      \* how long a permanent vote is valid
  Charging,      \* representatives whose temporary votes carry a required fee
  MaxTime        \* bound on the passing of time

ASSUME ClockAssumption ==
  /\ Skew \in [Reps \cup Peers \cup {Sender, Recoverer} -> Int]
  /\ TempLife \in Nat /\ PermLife \in Nat /\ MaxTime \in Nat
  /\ Charging \subseteq Reps

\* The lives of votes against the threshold that tells them apart
\* (ValidationConfig: a hundred years) and the time a round and a recovery
\* take: permanent votes stay permanent and temporary ones temporary, and the
\* clock of the sender is not ahead of a voter's by the life of its vote.
ASSUME LifeAssumption ==
  /\ \A r \in Reps, p \in Reps \cup Peers \cup {Sender, Recoverer} :
       MaxTime + Skew[p] + Threshold < Skew[r] + PermLife
  /\ \A r \in Reps, p \in {Sender, Recoverer} :
       MaxTime + Skew[r] + TempLife <= Skew[p] + Threshold
  /\ \A r \in Reps : Skew[Sender] <= Skew[r] + TempLife + Slop

\* The blocks of a round and of a recovery: what is sent, and the fee blocks
\* of both.
Lists ==
  {<<"block">>, <<"block", "fee">>, <<"block", "rfee">>, <<"block", "fee", "rfee">>}

\* The permanent votes there can be.
PermVotes ==
  UNION {{[issuer |-> r, from |-> t + Skew[r], to |-> t + Skew[r] + PermLife,
           blocks |-> bs, fees |-> "none"] : t \in 0..MaxTime, bs \in Lists} : r \in Reps}

\* Their hashes tell them apart.
ASSUME HashAssumption ==
  \A v, w \in PermVotes : Hash(v) \in Int /\ (Hash(v) = Hash(w) => v = w)

VARIABLES
  now,      \* true time
  issued,   \* every vote a representative gave
  pc,       \* the transmit_round of Sender
  moment,   \* its moment
  blocks,   \* its blocks
  temp,     \* its temporary votes, in order of arrival
  perm,     \* its permanent votes
  staple,   \* the staple it assembled, or Rejected
  rpc,      \* the recover_account of Recoverer
  rmoment,  \* its moment
  rleft,    \* representatives it has not read or asked
  rblocks,  \* its blocks
  rtemp,    \* the temporary votes it found
  rperm,    \* the permanent votes it found or was given
  rstaple   \* the staple it assembled, or Rejected

sendVars == <<pc, moment, blocks, temp, perm, staple>>
recoverVars == <<rpc, rmoment, rleft, rblocks, rtemp, rperm, rstaple>>
vars == <<now, issued, sendVars, recoverVars>>

Clock(p) == now + Skew[p]
IssuersOf(votes) == {v.issuer : v \in Elements(votes)}

TempVote(r, bs) ==
  [issuer |-> r, from |-> Clock(r), to |-> Clock(r) + TempLife, blocks |-> bs,
   fees |-> IF r \in Charging THEN "fees" ELSE "none"]
PermVote(r, bs) ==
  [issuer |-> r, from |-> Clock(r), to |-> Clock(r) + PermLife, blocks |-> bs,
   fees |-> "none"]
IsPerm(v) == v.to - v.from = PermLife
FeesRequired(votes) == \E v \in Elements(votes) : v.fees = "fees"
HasVoted(r, kind) == \E v \in issued : v.issuer = r /\ IsPerm(v) = kind

Init ==
  /\ now = 0 /\ issued = {}
  /\ pc = "start" /\ moment = 0 /\ blocks = <<"block">>
  /\ temp = << >> /\ perm = << >> /\ staple = Rejected
  /\ rpc = "start" /\ rmoment = 0 /\ rleft = {} /\ rblocks = << >>
  /\ rtemp = << >> /\ rperm = << >> /\ rstaple = Rejected

Tick ==
  /\ now < MaxTime /\ now' = now + 1
  /\ UNCHANGED <<issued, sendVars, recoverVars>>

-----------------------------------------------------------------------------
\* transmit_round: the moment is taken first.
StartRound ==
  /\ pc = "start" /\ pc' = "temp"
  /\ moment' = Clock(Sender)
  /\ UNCHANGED <<now, issued, blocks, temp, perm, staple, recoverVars>>

GiveTemp(r) ==
  /\ pc = "temp" /\ ~HasVoted(r, FALSE)
  /\ issued' = issued \cup {TempVote(r, blocks)}
  /\ temp' = Append(temp, TempVote(r, blocks))
  /\ UNCHANGED <<now, pc, moment, blocks, perm, staple, recoverVars>>

\* The other representatives answered with an error.  A required fee needs a
\* staple of the temporary votes first (fee_block_from_options).
TempDone ==
  /\ pc = "temp"
  /\ \/ temp = << >> /\ pc' = "refused" /\ UNCHANGED blocks
     \/ temp # << >> /\ ~FeesRequired(temp) /\ pc' = "perm" /\ UNCHANGED blocks
     \/ /\ temp # << >> /\ FeesRequired(temp)
        /\ IF TryNew(blocks, temp, moment).ok
             THEN pc' = "perm" /\ blocks' = Append(blocks, "fee")
             ELSE pc' = "failed" /\ UNCHANGED blocks
  /\ UNCHANGED <<now, issued, moment, temp, perm, staple, recoverVars>>

\* The vote may be given and its answer lost.
GivePerm(r) ==
  /\ pc = "perm" /\ r \in IssuersOf(temp) /\ ~HasVoted(r, TRUE)
  /\ issued' = issued \cup {PermVote(r, blocks)}
  /\ perm' \in {perm, Append(perm, PermVote(r, blocks))}
  /\ UNCHANGED <<now, pc, moment, blocks, temp, staple, recoverVars>>

PermDone ==
  /\ pc = "perm"
  /\ \/ perm = << >> /\ pc' = "refused" /\ UNCHANGED staple
     \/ /\ perm # << >>
        /\ staple' = TryNew(blocks, perm, moment)
        /\ pc' = IF staple'.ok THEN "done" ELSE "failed"
  /\ UNCHANGED <<now, issued, moment, blocks, temp, perm, recoverVars>>

-----------------------------------------------------------------------------
\* recover_account, once there is something pending.
StartRecover ==
  /\ rpc = "start" /\ issued # {} /\ rpc' = "gather"
  /\ rmoment' = Clock(Recoverer) /\ rleft' = Reps
  /\ UNCHANGED <<now, issued, rblocks, rtemp, rperm, rstaple, sendVars>>

\* The votes of r that r still holds: a temporary vote is dropped when it
\* expires, and replaced by a permanent one.
Held(r) ==
  {v \in issued : v.issuer = r /\ (IsPerm(v) \/ (v.to >= Clock(r) /\ ~HasVoted(r, TRUE)))}

\* collect_recover_votes: pick_best_vote takes the vote that ends last.
ReadVote(r) ==
  /\ rpc = "gather" /\ r \in rleft /\ rleft' = rleft \ {r}
  /\ IF Held(r) = {} THEN UNCHANGED <<rtemp, rperm>>
     ELSE LET best == CHOOSE v \in Held(r) : \A w \in Held(r) : w.to <= v.to
          IN IF IsPermanentAt(best, rmoment)
               THEN rperm' = Append(rperm, best) /\ UNCHANGED rtemp
               ELSE rtemp' = Append(rtemp, best) /\ UNCHANGED rperm
  /\ UNCHANGED <<now, issued, rpc, rmoment, rblocks, rstaple, sendVars>>

\* The blocks are those of a sample vote.
GatherDone ==
  /\ rpc = "gather" /\ rleft = {}
  /\ \/ /\ rperm = << >> /\ rtemp = << >> /\ rpc' = "none"
        /\ UNCHANGED <<rleft, rblocks>>
     \/ /\ rperm # << >> \/ rtemp # << >>
        /\ rpc' = "more"
        /\ rblocks' = IF rperm # << >> THEN rperm[1].blocks ELSE rtemp[1].blocks
        /\ rleft' = Reps \ (IssuersOf(rperm) \cup IssuersOf(rtemp))
  /\ UNCHANGED <<now, issued, rmoment, rtemp, rperm, rstaple, sendVars>>

\* top_up_recover_votes: the representatives without a vote are asked for a
\* temporary one,
AskTemp(r) ==
  /\ rpc = "more" /\ r \in rleft /\ rleft' = rleft \ {r}
  /\ IF HasVoted(r, FALSE) THEN UNCHANGED <<issued, rtemp>>
     ELSE /\ issued' = issued \cup {TempVote(r, rblocks)}
          /\ rtemp' \in {rtemp, Append(rtemp, TempVote(r, rblocks))}
  /\ UNCHANGED <<now, rpc, rmoment, rblocks, rperm, rstaple, sendVars>>

\* a required fee adds a fee block when there is no permanent vote yet,
MoreDone ==
  /\ rpc = "more" /\ rleft = {}
  /\ LET fee == FeesRequired(rtemp) /\ rperm = << >>
     IN IF fee /\ ~TryNew(rblocks, rtemp, rmoment).ok
          THEN rpc' = "failed" /\ UNCHANGED <<rleft, rblocks>>
          ELSE /\ rpc' = "topup"
               /\ rblocks' = IF fee THEN Append(rblocks, "rfee") ELSE rblocks
               /\ rleft' = Reps \ IssuersOf(rperm)
  /\ UNCHANGED <<now, issued, rmoment, rtemp, rperm, rstaple, sendVars>>

\* and the representatives without a permanent vote are asked for one.
TopUp(r) ==
  /\ rpc = "topup" /\ r \in rleft /\ rleft' = rleft \ {r}
  /\ IF HasVoted(r, FALSE) /\ ~HasVoted(r, TRUE)
       THEN /\ issued' = issued \cup {PermVote(r, rblocks)}
            /\ rperm' \in {rperm, Append(rperm, PermVote(r, rblocks))}
       ELSE UNCHANGED <<issued, rperm>>
  /\ UNCHANGED <<now, rpc, rmoment, rblocks, rtemp, rstaple, sendVars>>

RecoverDone ==
  /\ rpc = "topup" /\ rleft = {}
  /\ rstaple' = TryNew(rblocks, rperm, StapleMoment(rperm, rmoment))
  /\ rpc' = IF rstaple'.ok THEN "done" ELSE "failed"
  /\ UNCHANGED <<now, issued, rmoment, rleft, rblocks, rtemp, rperm, sendVars>>

-----------------------------------------------------------------------------
SendEnded == pc \in {"refused", "done", "failed"}
RecoverEnded == rpc \in {"none", "done", "failed"} \/ (rpc = "start" /\ issued = {})

Next ==
  \/ Tick
  \/ StartRound \/ TempDone \/ PermDone
  \/ \E r \in Reps : GiveTemp(r) \/ GivePerm(r)
  \/ StartRecover \/ GatherDone \/ MoreDone \/ RecoverDone
  \/ \E r \in Reps : ReadVote(r) \/ AskTemp(r) \/ TopUp(r)
  \/ now = MaxTime /\ SendEnded /\ RecoverEnded /\ UNCHANGED vars

Spec == Init /\ [][Next]_vars

-----------------------------------------------------------------------------
\* A round whose votes do not assemble lasted too long: the clock of a
\* representative that voted is ahead of the round's moment by more than the
\* slop (the moment is taken before both rounds and used after them).
OnlySlowRoundsFail ==
  [][(pc' = "failed" /\ pc # "failed") =>
       \E r \in IssuersOf(temp) : Clock(r) > moment + Slop]_vars

\* What a slow or crashed round leaves behind can be reassembled whatever the
\* clocks: a recovery that found or obtained a permanent vote has its staple
\* validate (staple_moment).
RecoveryAssembles == rpc = "failed" => rperm = << >>

\* A staple is accepted by every peer, then and later, whose clock is not
\* behind that of the last voter by more than the slop.
PeersAccept ==
  \A s \in {staple, rstaple}, p \in Peers :
    (s.ok /\ Clock(p) + Slop >= LatestFrom(Elements(s.votes))) => Verify(s, Clock(p))
=============================================================================
