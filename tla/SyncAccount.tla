---------------------------- MODULE SyncAccount ----------------------------
(***************************************************************************)
(* sync_account of keetanetwork-client: bring representatives that lag     *)
(* behind on an account forward by one staple.  The caller modelled is     *)
(* try_recover_on_error, which syncs the contended accounts in order, and  *)
(* which a call that keeps meeting a conflict runs again and again.        *)
(*                                                                         *)
(* Representatives never disagree (Agreement, proved in UserWriteProofs),  *)
(* so the ledgers are prefixes, account by account, of one sequence of     *)
(* staples; a staple that touches two accounts needs both predecessors.    *)
(* Heads are read one representative after the other while writers and     *)
(* other callers go on publishing.  A failed read counts as "no head".     *)
(*                                                                         *)
(* Left out: the call with publish = false, which only reads, the assembly *)
(* of the staple, the subject of StapleRound, and what the caller does     *)
(* with the result, the subject of RepBook.                                *)
(***************************************************************************)
EXTENDS Integers, Sequences, FiniteSets

CONSTANTS
  RepOrder,   \* the representatives, in the order of snapshot_picks
  Staples,    \* Staples[i]: the accounts the i-th staple touches
  Accounts,   \* the contended accounts, in the order they are synced
  Callers,    \* tasks running try_recover_on_error
  MaxFaults   \* bound on lost requests and answers

Reps == {RepOrder[i] : i \in 1..Len(RepOrder)}

ASSUME SyncAssumption ==
  /\ RepOrder \in Seq(Reps) /\ Accounts \in Seq({Accounts[k] : k \in 1..Len(Accounts)})
  /\ Staples \in Seq(SUBSET {Accounts[k] : k \in 1..Len(Accounts)})
  /\ Len(RepOrder) >= 1 /\ Len(Accounts) >= 1 /\ MaxFaults \in Nat
  /\ \A i \in 1..Len(Staples) :
       Staples[i] # {} /\ Staples[i] \subseteq {Accounts[k] : k \in 1..Len(Accounts)}

VARIABLES
  applied,   \* applied[r]: the staples on the main ledger of r
  pc,        \* pc[c]: where the sync_account call of c stands
  acct,      \* acct[c]: index in Accounts of the account being synced
  heads,     \* heads[c]: the heads read so far, along RepOrder, 0 for none
  staple,    \* staple[c]: the staple to publish, 0 before it is known
  todo,      \* todo[c]: lagging representatives still to be sent the staple
  result,    \* result[c]: what the last call returned
  faults

callVars == <<pc, acct, heads, staple, todo, result>>
vars == <<applied, callVars, faults>>

-----------------------------------------------------------------------------
(* The node: external.                                                     *)

\* How many blocks of account a are on the main ledger of r.
Height(r, a) == Cardinality({i \in applied[r] : a \in Staples[i]})

\* The n-th staple that touches a.
Nth(a, n) ==
  CHOOSE i \in 1..Len(Staples) :
    a \in Staples[i] /\ Cardinality({j \in 1..i : a \in Staples[j]}) = n

\* r accepts staple i: it extends the head of each account it touches.
Applicable(r, i) ==
  /\ i \notin applied[r]
  /\ \A j \in 1..(i - 1) : Staples[i] \cap Staples[j] # {} => j \in applied[r]

Outcomes == {"delivered", "answer_lost", "request_lost"}
Outcome(d) ==
  /\ faults' = IF d = "delivered" THEN faults ELSE faults + 1
  /\ faults' <= MaxFaults

-----------------------------------------------------------------------------
A(c) == Accounts[acct[c]]

\* head_info: an error and an account that is not open look the same.
HeadInfo(c, r, d) == IF d = "delivered" THEN Height(r, A(c)) ELSE 0

\* height_value: the opening block has height 0, no head counts as -1.
HeightValueUnopenedZero(h) == IF h = 0 THEN 0 ELSE h - 1
HeightValue(h) == h - 1

\* The stable sort by height: heads[0] is the first of the lowest, the last
\* entry the last of the highest.
LowestHeight(c) ==
  CHOOSE v \in {HeightValue(heads[c][i]) : i \in 1..Len(RepOrder)} :
    \A i \in 1..Len(RepOrder) : v <= HeightValue(heads[c][i])
Lagging(c) == {i \in 1..Len(RepOrder) : HeightValue(heads[c][i]) = LowestHeight(c)}
Lowest(c) == CHOOSE i \in Lagging(c) : \A j \in Lagging(c) : i <= j
Highest(c) ==
  CHOOSE i \in 1..Len(RepOrder) :
    \A j \in 1..Len(RepOrder) :
       /\ HeightValue(heads[c][j]) <= HeightValue(heads[c][i])
       /\ j > i => HeightValue(heads[c][j]) < HeightValue(heads[c][i])

NextAccount(i) == (i % Len(Accounts)) + 1

\* The call returns; try_recover_on_error goes on to the next account, whatever
\* it returned, and starts over after the last one.
Return(c, how) ==
  /\ pc' = [pc EXCEPT ![c] = "read"]
  /\ result' = [result EXCEPT ![c] = how]
  /\ acct' = [acct EXCEPT ![c] = NextAccount(@)]
  /\ heads' = [heads EXCEPT ![c] = << >>]
  /\ staple' = [staple EXCEPT ![c] = 0]
  /\ todo' = [todo EXCEPT ![c] = {}]

\* The next head is read.
ReadHead(c) ==
  /\ pc[c] = "read" /\ Len(heads[c]) < Len(RepOrder)
  /\ \E d \in {"delivered", "request_lost"} :
       /\ Outcome(d)
       /\ heads' = [heads EXCEPT ![c] =
                      Append(@, HeadInfo(c, RepOrder[Len(@) + 1], d))]
  /\ UNCHANGED <<applied, pc, acct, staple, todo, result>>

\* All heads are read: equal heights end the call.
Compare(c) ==
  /\ pc[c] = "read" /\ Len(heads[c]) = Len(RepOrder)
  /\ IF Lagging(c) = 1..Len(RepOrder) THEN Return(c, "none")
     ELSE /\ pc' = [pc EXCEPT ![c] = "fetch"]
          /\ UNCHANGED <<acct, heads, staple, todo, result>>
  /\ UNCHANGED <<applied, faults>>

\* The successor of the lowest head, as read, and its staple come from the
\* highest representative, whose ledger only grew since it was read; a failed
\* request fails the call.
SuccessorOfHighest(c) == Nth(A(c), heads[c][Highest(c)])
Successor(c) == Nth(A(c), heads[c][Lowest(c)] + 1)

Fetch(c) ==
  /\ pc[c] = "fetch"
  /\ \/ /\ Outcome("delivered")
        /\ staple' = [staple EXCEPT ![c] = Successor(c)]
        /\ todo' = [todo EXCEPT ![c] = Lagging(c)]
        /\ pc' = [pc EXCEPT ![c] = "publish"]
        /\ UNCHANGED <<acct, heads, result>>
     \/ Outcome("request_lost") /\ Return(c, "error")
  /\ UNCHANGED applied

\* The lagging representatives are sent the staple one by one; refusals and
\* lost answers are ignored.
PublishTo(c) ==
  /\ pc[c] = "publish" /\ todo[c] # {}
  /\ LET i == CHOOSE i \in todo[c] : \A j \in todo[c] : i <= j
         r == RepOrder[i]
     IN /\ \E d \in Outcomes :
             /\ Outcome(d)
             /\ applied' = IF d # "request_lost" /\ Applicable(r, staple[c])
                             THEN [applied EXCEPT ![r] = @ \cup {staple[c]}]
                             ELSE applied
        /\ todo' = [todo EXCEPT ![c] = @ \ {i}]
  /\ UNCHANGED <<pc, acct, heads, staple, result>>

\* The first lagging representative must have moved.
Moved(c, h) == HeightValue(h) # LowestHeight(c)

Verify(c) ==
  /\ pc[c] = "publish" /\ todo[c] = {}
  /\ \E d \in {"delivered", "request_lost"} :
       /\ Outcome(d)
       /\ Return(c, IF Moved(c, HeadInfo(c, RepOrder[Lowest(c)], d))
                      THEN "some" ELSE "failed")
  /\ UNCHANGED applied

-----------------------------------------------------------------------------
\* A writer's fan-out, or a sync elsewhere, brings r a new or a known staple.
WriterPublishes(r, i) ==
  /\ i \in 1..Len(Staples) /\ Applicable(r, i)
  /\ applied' = [applied EXCEPT ![r] = @ \cup {i}]
  /\ UNCHANGED <<callVars, faults>>

Init ==
  /\ applied = [r \in Reps |-> {}]
  /\ pc = [c \in Callers |-> "read"]
  /\ acct = [c \in Callers |-> 1]
  /\ heads = [c \in Callers |-> << >>]
  /\ staple = [c \in Callers |-> 0]
  /\ todo = [c \in Callers |-> {}]
  /\ result = [c \in Callers |-> "none"]
  /\ faults = 0

SyncStep(c) == ReadHead(c) \/ Compare(c) \/ Fetch(c) \/ PublishTo(c) \/ Verify(c)

Next ==
  \/ \E c \in Callers : SyncStep(c)
  \/ \E r \in Reps, i \in 1..Len(Staples) : WriterPublishes(r, i)

Spec == Init /\ [][Next]_vars

\* The executor keeps polling the callers; nothing makes writers publish.
FairSpec == Spec /\ \A c \in Callers : WF_vars(SyncStep(c))

-----------------------------------------------------------------------------
\* Every variable keeps its shape.
TypeOK ==
  /\ applied \in [Reps -> SUBSET (1..Len(Staples))]
  /\ pc \in [Callers -> {"read", "fetch", "publish"}]
  /\ acct \in [Callers -> 1..Len(Accounts)]
  /\ \A c \in Callers : Len(heads[c]) <= Len(RepOrder)
  /\ staple \in [Callers -> 0..Len(Staples)]
  /\ todo \in [Callers -> SUBSET (1..Len(RepOrder))]
  /\ result \in [Callers -> {"none", "some", "failed", "error"}]
  /\ faults \in 0..MaxFaults

\* Repeated syncing reconciles the representatives: once the writers and the
\* losses end, every ledger ends up the same, although a call moves one staple
\* on one account, a staple may need another account to be synced first, and a
\* pass ignores the accounts that fail.
Converges == <>[](\A r, q \in Reps : applied[r] = applied[q])

\* A staple is sent only where it can be next, or is already known: whatever
\* writers, other callers and lost reads did since the heads were read, no
\* representative is sent a staple from beyond the successor of its head.
NeverAhead ==
  \A c \in Callers : \A i \in todo[c] :
    Cardinality({j \in 1..staple[c] : A(c) \in Staples[j]})
      <= Height(RepOrder[i], A(c)) + 1

\* sync_account returns the staple only when the representative it verifies by
\* moved (client.rs: SyncPublishFailed when "the lagging reps did not advance
\* after publishing").
SyncedMeansAdvanced ==
  [][\A c \in Callers :
       (pc[c] = "publish" /\ pc'[c] = "read" /\ result'[c] = "some") =>
         staple[c] \in applied[RepOrder[Lowest(c)]]]_vars
=============================================================================
