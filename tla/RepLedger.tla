----------------------------- MODULE RepLedger -----------------------------
(***************************************************************************)
(* The representatives a KeetaNet client talks to, modelled EXTERNALLY:    *)
(* the node is not part of this repository, so its rules are the ones the  *)
(* client relies on (the error codes it dispatches on, its comments, and   *)
(* the end-to-end tests in keetanetwork-client/tests/e2e.rs).              *)
(*                                                                         *)
(* Every representative keeps, per account, a main ledger (the chain of    *)
(* committed blocks) and a side ledger (the temporary and the permanent    *)
(* vote it has given to a successor of the head).  Votes and staples do    *)
(* not carry signatures or times here: a vote is its issuer and the blocks *)
(* it covers, a temporary vote simply expires.                             *)
(*                                                                         *)
(* A block hash commits to the whole history below it, so the `previous'   *)
(* of a block is the chain it was built on.  The blocks one vote covers    *)
(* are a set of parts, one per account: the account, the chain its first   *)
(* block was built on and the blocks themselves, in order.                 *)
(***************************************************************************)
EXTENDS Naturals, Sequences, FiniteSets

CONSTANTS
  Reps,          \* the representatives
  Accounts,      \* the accounts whose chains are modelled
  Blocks,        \* block identities (hashes)
  Quorums        \* the sets of representatives with enough voting weight

\* Two sets with enough voting weight share a representative.
ASSUME QuorumAssumption ==
  /\ Quorums \subseteq SUBSET Reps
  /\ \A Q1, Q2 \in Quorums : Q1 \cap Q2 # {}

\* Somebody keeps the ledgers: a client that knows no representative refuses
\* every call (ClientError::NoRepresentatives).
ASSUME RepsAssumption == Reps # {}

VARIABLES
  chain,   \* chain[r][a]: main ledger of r for a, one entry per committed staple
  tvote,   \* tvote[r][a]: blocks r gave a live temporary vote, {} for none
  pvote,   \* pvote[r][a]: blocks r gave a permanent vote at its head, {} for none
  cast     \* cast[r]: every permanent vote r ever gave

repVars == <<chain, tvote, pvote, cast>>

Chains == Seq(Seq(Blocks))
Parts  == [acct : Accounts, prev : Chains, ids : Seq(Blocks)]
Bodies == SUBSET Parts
Votes  == [by : Reps, body : Bodies]

-----------------------------------------------------------------------------
AcctsOf(body) == {p.acct : p \in body}
IdsOf(body)   == UNION {{p.ids[i] : i \in 1..Len(p.ids)} : p \in body}
Issuers(votes) == {v.by : v \in votes}

\* `wide' is `narrow', possibly with further blocks (a fee block) after it.
Covers(wide, narrow) ==
  \A p \in narrow : \E q \in wide :
     /\ q.acct = p.acct /\ q.prev = p.prev
     /\ Len(p.ids) <= Len(q.ids)
     /\ \A i \in 1..Len(p.ids) : q.ids[i] = p.ids[i]

\* Every account's first block extends r's head.
Successor(r, body) == \A p \in body : p.prev = chain[r][p.acct]

\* r is already bound, by a vote, to a successor of one of the heads.
Bound(r, body) ==
  \E a \in AcctsOf(body) : tvote[r][a] # {} \/ pvote[r][a] # {}

\* A permanent vote of r, or a temporary vote for other blocks, stands in the way.
BoundElsewhere(r, body) ==
  \E a \in AcctsOf(body) :
     pvote[r][a] # {} \/ (tvote[r][a] # {} /\ ~Covers(body, tvote[r][a]))

(***************************************************************************)
(* The verdicts of a representative.  A binding vote for a predecessor     *)
(* that already has one conflicts, even for the same blocks (e2e.rs:513).  *)
(***************************************************************************)
TempReply(r, body) ==
  IF ~Successor(r, body) THEN "LEDGER_NOT_SUCCESSOR"
  ELSE IF Bound(r, body) THEN "LEDGER_SUCCESSOR_VOTE_EXISTS"
  ELSE "ok"

PermReply(r, body, prior) ==
  LET backing == {v \in prior : Covers(body, v.body)}
  IN IF ~Successor(r, body) THEN "LEDGER_NOT_SUCCESSOR"
     ELSE IF BoundElsewhere(r, body) THEN "LEDGER_SUCCESSOR_VOTE_EXISTS"
     ELSE IF r \notin Issuers(backing) THEN "LEDGER_NO_PERM_WITHOUT_SELF_TEMP"
     ELSE IF Issuers(backing) \notin Quorums THEN "LEDGER_INSUFFICIENT_VOTING_WEIGHT"
     ELSE "ok"

PublishReply(r, body, votes) ==
  IF ~Successor(r, body) THEN "LEDGER_NOT_SUCCESSOR"
  ELSE IF Issuers({v \in votes : v.body = body}) \notin Quorums
    THEN "LEDGER_INSUFFICIENT_VOTING_WEIGHT"
  ELSE "ok"

(***************************************************************************)
(* What an accepted request changes on the representative.                 *)
(***************************************************************************)
GiveTemp(r, body) ==
  /\ tvote' = [tvote EXCEPT ![r] =
                 [a \in Accounts |-> IF a \in AcctsOf(body) THEN body ELSE @[a]]]
  /\ UNCHANGED <<chain, pvote, cast>>

GivePerm(r, body) ==
  /\ pvote' = [pvote EXCEPT ![r] =
                 [a \in Accounts |-> IF a \in AcctsOf(body) THEN body ELSE @[a]]]
  /\ cast' = [cast EXCEPT ![r] = @ \cup {body}]
  /\ UNCHANGED <<chain, tvote>>

Commit(r, body) ==
  /\ chain' = [chain EXCEPT ![r] =
                 [a \in Accounts |->
                    IF a \in AcctsOf(body)
                      THEN Append(@[a], (CHOOSE p \in body : p.acct = a).ids)
                      ELSE @[a]]]
  /\ tvote' = [tvote EXCEPT ![r] =
                 [a \in Accounts |-> IF a \in AcctsOf(body) THEN {} ELSE @[a]]]
  /\ pvote' = [pvote EXCEPT ![r] =
                 [a \in Accounts |-> IF a \in AcctsOf(body) THEN {} ELSE @[a]]]
  /\ UNCHANGED cast

\* A temporary vote that was not made permanent runs out.
ExpireTemp(r, a) ==
  /\ tvote[r][a] # {} /\ pvote[r][a] = {}
  /\ tvote' = [tvote EXCEPT ![r][a] = {}]
  /\ UNCHANGED <<chain, pvote, cast>>

(***************************************************************************)
(* Reads.                                                                  *)
(***************************************************************************)
\* The blocks pending after r's head for account a, {} for none.
Pending(r, a) == IF pvote[r][a] # {} THEN pvote[r][a] ELSE tvote[r][a]

\* r committed the blocks of `body' of account a.
Committed(r, body, a) ==
  \E p \in body :
     /\ p.acct = a /\ Len(p.prev) < Len(chain[r][a])
     /\ chain[r][a][Len(p.prev) + 1] = p.ids

\* r's own permanent, and own temporary, votes for block `id' of account a:
\* the permanent one from the main ledger when r committed the block, or from
\* the side ledger, where it replaces the temporary one.
OwnPerm(r, a, id) ==
  {[by |-> r, body |-> b] : b \in
     {b \in cast[r] : id \in IdsOf(b) /\ (Committed(r, b, a) \/ pvote[r][a] = b)}}
OwnTemp(r, a, id) ==
  {[by |-> r, body |-> b] : b \in
     {b \in {tvote[r][a]} : id \in IdsOf(b)}}

RepInit ==
  /\ chain = [r \in Reps |-> [a \in Accounts |-> << >>]]
  /\ tvote = [r \in Reps |-> [a \in Accounts |-> {}]]
  /\ pvote = [r \in Reps |-> [a \in Accounts |-> {}]]
  /\ cast  = [r \in Reps |-> {}]

RepTypeOK ==
  /\ chain \in [Reps -> [Accounts -> Chains]]
  /\ tvote \in [Reps -> [Accounts -> Bodies]]
  /\ pvote \in [Reps -> [Accounts -> Bodies]]
  /\ cast  \in [Reps -> SUBSET Bodies]
=============================================================================
