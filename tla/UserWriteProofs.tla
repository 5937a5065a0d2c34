-------------------------- MODULE UserWriteProofs --------------------------
(***************************************************************************)
(* Proofs about UserWrite, for every set of representatives, clients and   *)
(* accounts, every plan and every bound: type correctness, the properties  *)
(* of one call and of its blocks, of a recovery, and the refinement of     *)
(* WriteCalls.                                                             *)
(*                                                                         *)
(* IInv is split into what the representatives keep (RepSound) and what    *)
(* the clients hold (CliSound).  The representatives change by four        *)
(* operations only, so RepSound is proved once per operation; CliSound is  *)
(* proved once per action.                                                 *)
(***************************************************************************)
EXTENDS UserWrite, TLAPS

RepWellFormed ==
  /\ \A r \in Reps : \A a \in Accounts : WellFormed(tvote[r][a]) /\ WellFormed(pvote[r][a])
  /\ \A r \in Reps : \A b \in cast[r] : WellFormed(b)

RepSound == RepTypeOK /\ RepWellFormed /\ OneVotePerHeight /\ VotesBelowHead /\ EntriesBacked

CliWellFormed ==
  /\ \A c \in Clients : WellFormed(body[c])
  /\ \A c \in Clients : \A v \in temp[c] \cup perm[c] : WellFormed(v.body)

CliSound == CliTypeOK /\ CliWellFormed /\ HeldVotesCast

Sound == RepSound /\ CliSound /\ faults \in 0..MaxFaults

\* Votes are never withdrawn, so what was backed by a quorum stays backed.
CastGrows == \A r \in Reps : cast[r] \subseteq cast'[r]

\* The inductive invariant is its two halves, the bound on faults and RecoverBudget.
LEMMA IInvSplit == IInv <=> Sound /\ RecoverBudget
  BY DEF IInv, Sound, RepSound, CliSound, TypeOK, BodiesWellFormed, RepWellFormed, CliWellFormed

\* Appending an entry to a ledger keeps its type and its earlier entries.
LEMMA AppendFacts ==
  ASSUME NEW s \in Seq(Seq(Blocks)), NEW e \in Seq(Blocks)
  PROVE  /\ Append(s, e) \in Seq(Seq(Blocks))
         /\ Len(Append(s, e)) = Len(s) + 1
         /\ \A i \in 1..Len(s) : Append(s, e)[i] = s[i]
         /\ Append(s, e)[Len(s) + 1] = e
<1> DEFINE S == Seq(Blocks)
<1> e \in S /\ s \in Seq(S) OBVIOUS
<1> HIDE DEF S
<1>1. /\ Append(s, e) \in Seq(S)
      /\ Len(Append(s, e)) = Len(s) + 1
      /\ \A i \in 1..Len(s) : Append(s, e)[i] = s[i]
      /\ Append(s, e)[Len(s) + 1] = e
  OBVIOUS
<1> QED BY <1>1 DEF S

-----------------------------------------------------------------------------
(* The operations of a representative.                                     *)

\* A temporary vote keeps the representatives sound (GiveTemp).
LEMMA GiveTempSound ==
  ASSUME RepSound, NEW r \in Reps, NEW b \in Bodies, WellFormed(b), GiveTemp(r, b)
  PROVE  RepSound' /\ CastGrows
<1>1. RepTypeOK'
  BY DEF RepSound, RepTypeOK, GiveTemp
<1>2. RepWellFormed'
  BY DEF RepSound, RepWellFormed, RepTypeOK, GiveTemp, WellFormed
<1>3. OneVotePerHeight' /\ VotesBelowHead' /\ EntriesBacked' /\ CastGrows
  BY DEF RepSound, OneVotePerHeight, VotesBelowHead, EntriesBacked, Backed, GiveTemp, CastGrows
<1> QED BY <1>1, <1>2, <1>3 DEF RepSound

\* An expired temporary vote keeps them sound (ExpireTemp).
LEMMA ExpireTempSound ==
  ASSUME RepSound, NEW r \in Reps, NEW a \in Accounts, ExpireTemp(r, a)
  PROVE  RepSound' /\ CastGrows
<1>1. RepTypeOK'
  BY DEF RepSound, RepTypeOK, ExpireTemp, Bodies
<1>2. RepWellFormed'
  BY DEF RepSound, RepWellFormed, RepTypeOK, ExpireTemp, WellFormed
<1>3. OneVotePerHeight' /\ VotesBelowHead' /\ EntriesBacked' /\ CastGrows
  BY DEF RepSound, OneVotePerHeight, VotesBelowHead, EntriesBacked, Backed, ExpireTemp, CastGrows
<1> QED BY <1>1, <1>2, <1>3 DEF RepSound

\* A permanent vote given by the rules of PermReply keeps them sound: no
\* earlier vote is at the height of the head, and the blocks have one part
\* per account.
LEMMA GivePermSound ==
  ASSUME RepSound, NEW r \in Reps, NEW b \in Bodies, WellFormed(b), NEW prior,
         PermReply(r, b, prior) = "ok", GivePerm(r, b)
  PROVE  RepSound' /\ CastGrows
<1>1. RepTypeOK'
  BY DEF RepSound, RepTypeOK, GivePerm
<1>2. RepWellFormed'
  BY DEF RepSound, RepWellFormed, RepTypeOK, GivePerm, WellFormed
<1>3. CastGrows
  BY DEF RepSound, RepTypeOK, GivePerm, CastGrows
<1>4. \A p \in b : p.acct \in Accounts /\ p.prev = chain[r][p.acct] /\ pvote[r][p.acct] = {}
  BY DEF PermReply, Successor, BoundElsewhere, AcctsOf, Bodies, Parts
<1>5. \A p \in b, e \in cast[r] : \A q \in e : p.acct = q.acct => Len(p.prev) # Len(q.prev)
  BY <1>4 DEF RepSound, VotesBelowHead
<1>6. cast' = [cast EXCEPT ![r] = @ \cup {b}] /\ cast \in [Reps -> SUBSET Bodies]
  BY DEF GivePerm, RepSound, RepTypeOK
<1>7. OneVotePerHeight'
  <2> SUFFICES ASSUME NEW v \in Reps, NEW b1 \in cast'[v], NEW b2 \in cast'[v],
                      NEW p \in b1, NEW q \in b2,
                      p.acct = q.acct, Len(p.prev) = Len(q.prev)
               PROVE  p = q
    BY DEF OneVotePerHeight
  <2>1. CASE b1 \in cast[v] /\ b2 \in cast[v]
    BY <2>1 DEF RepSound, OneVotePerHeight
  <2>2. CASE ~(b1 \in cast[v] /\ b2 \in cast[v])
    <3>1. v = r /\ (b1 = b \/ b2 = b) /\ b1 \in cast[r] \cup {b} /\ b2 \in cast[r] \cup {b}
      BY <2>2, <1>6
    <3> QED BY <3>1, <1>5 DEF WellFormed
  <2> QED BY <2>1, <2>2
<1>8. VotesBelowHead'
  <2> SUFFICES ASSUME NEW v \in Reps, NEW e \in cast'[v], NEW p \in e
               PROVE  /\ Len(p.prev) <= Len(chain[v][p.acct])
                      /\ Len(p.prev) = Len(chain[v][p.acct]) => pvote'[v][p.acct] # {}
    BY DEF VotesBelowHead, GivePerm
  <2>1. CASE e \in cast[v]
    <3>1. /\ Len(p.prev) <= Len(chain[v][p.acct])
          /\ Len(p.prev) = Len(chain[v][p.acct]) => pvote[v][p.acct] # {}
      BY <2>1 DEF RepSound, VotesBelowHead
    <3>2. e \in Bodies /\ p.acct \in Accounts
      BY <2>1, <1>6 DEF Bodies, Parts
    <3>3. pvote'[v][p.acct] = pvote[v][p.acct] \/ (pvote'[v][p.acct] = b /\ p.acct \in AcctsOf(b))
      BY <3>2 DEF GivePerm, RepSound, RepTypeOK
    <3>4. p.acct \in AcctsOf(b) => b # {}
      BY DEF AcctsOf
    <3> QED BY <3>1, <3>3, <3>4
  <2>2. CASE e \notin cast[v]
    <3>1. v = r /\ e = b
      BY <2>2, <1>6
    <3>2. p.prev = chain[v][p.acct] /\ p.acct \in Accounts /\ p.acct \in AcctsOf(b)
      BY <3>1, <1>4 DEF AcctsOf
    <3>3. pvote'[v][p.acct] = b
      BY <3>1, <3>2 DEF GivePerm, RepSound, RepTypeOK
    <3>4. Len(chain[v][p.acct]) \in Nat
      BY <3>2 DEF RepSound, RepTypeOK, Chains
    <3> QED BY <3>1, <3>2, <3>3, <3>4
  <2> QED BY <2>1, <2>2
<1>9. EntriesBacked'
  <2>1. chain' = chain
    BY DEF GivePerm
  <2> SUFFICES ASSUME NEW v \in Reps, NEW a \in Accounts, NEW n \in 1..Len(chain[v][a])
               PROVE  Backed(v, a, n)'
    BY <2>1 DEF EntriesBacked
  <2>2. Backed(v, a, n)
    BY DEF RepSound, EntriesBacked
  <2> QED BY <2>1, <2>2, <1>3, QuorumAssumption DEF Backed, CastGrows
<1> QED BY <1>1, <1>2, <1>3, <1>7, <1>8, <1>9 DEF RepSound

\* Committing a staple whose votes PublishReply accepted keeps them sound: the
\* issuers of the votes are the quorum that backs the new entries.
LEMMA CommitSound ==
  ASSUME RepSound, NEW r \in Reps, NEW b \in Bodies, WellFormed(b),
         NEW votes \in SUBSET Votes, \A v \in votes : v.body \in cast[v.by],
         PublishReply(r, b, votes) = "ok", Commit(r, b)
  PROVE  RepSound' /\ CastGrows
<1> DEFINE PartOf(a) == CHOOSE p \in b : p.acct = a
<1>1. \A a \in Accounts : a \in AcctsOf(b) => PartOf(a) \in b /\ PartOf(a).acct = a
  BY DEF AcctsOf
<1>2. \A p \in b : p.acct \in Accounts /\ p.ids \in Seq(Blocks) /\ p.prev = chain[r][p.acct]
  BY DEF PublishReply, Successor, Bodies, Parts
<1>3. /\ chain \in [Reps -> [Accounts -> Seq(Seq(Blocks))]]
      /\ pvote \in [Reps -> [Accounts -> Bodies]]
      /\ tvote \in [Reps -> [Accounts -> Bodies]]
      /\ cast \in [Reps -> SUBSET Bodies] /\ cast' = cast
  BY DEF RepSound, RepTypeOK, Chains, Commit
<1>4. \A a \in Accounts :
        chain'[r][a] = IF a \in AcctsOf(b) THEN Append(chain[r][a], PartOf(a).ids) ELSE chain[r][a]
  BY <1>3 DEF Commit
<1>5. \A v \in Reps, a \in Accounts : v # r => chain'[v][a] = chain[v][a]
  BY <1>3 DEF Commit
<1> HIDE DEF PartOf
<1>6. \A a \in Accounts : chain'[r][a] \in Seq(Seq(Blocks))
  <2> SUFFICES ASSUME NEW a \in Accounts PROVE chain'[r][a] \in Seq(Seq(Blocks))
    OBVIOUS
  <2>1. chain[r][a] \in Seq(Seq(Blocks)) BY <1>3
  <2>2. a \in AcctsOf(b) => Append(chain[r][a], PartOf(a).ids) \in Seq(Seq(Blocks))
    BY <2>1, <1>1, <1>2, AppendFacts
  <2> QED BY <2>1, <2>2, <1>4
<1>7. chain' \in [Reps -> [Accounts -> Seq(Seq(Blocks))]]
  <2>1. \A v \in Reps, a \in Accounts : chain'[v][a] \in Seq(Seq(Blocks))
    BY <1>3, <1>5, <1>6
  <2>2. \A v \in Reps : chain'[v] \in [Accounts -> Seq(Seq(Blocks))]
    <3> SUFFICES ASSUME NEW v \in Reps PROVE chain'[v] \in [Accounts -> Seq(Seq(Blocks))]
      OBVIOUS
    <3>1. CASE v = r
      <4>1. \E f : chain'[v] = [a \in Accounts |-> f[a]]
        <5> DEFINE f == [a \in Accounts |-> IF a \in AcctsOf(b)
                           THEN Append(chain[r][a], (CHOOSE p \in b : p.acct = a).ids)
                           ELSE chain[r][a]]
        <5>1. chain'[v] = f
          BY <3>1, <1>3 DEF Commit
        <5>2. f = [a \in Accounts |-> f[a]]
          OBVIOUS
        <5> QED BY <5>1, <5>2
      <4> QED BY <4>1, <2>1
    <3>2. CASE v # r
      BY <3>2, <1>3 DEF Commit
    <3> QED BY <3>1, <3>2
  <2>3. chain' = [v \in Reps |-> chain'[v]]
    BY <1>3 DEF Commit
  <2> QED BY <2>2, <2>3
<1>8. RepTypeOK'
  BY <1>3, <1>7 DEF RepTypeOK, Chains, Commit, Bodies
<1>9. RepWellFormed' /\ OneVotePerHeight' /\ CastGrows
  <2>1. \A v \in Reps, a \in Accounts :
          /\ tvote'[v][a] \in {tvote[v][a], {}}
          /\ pvote'[v][a] \in {pvote[v][a], {}}
    BY <1>3 DEF Commit
  <2>2. WellFormed({})
    BY DEF WellFormed
  <2>3. RepWellFormed'
    <3>1. \A v \in Reps, a \in Accounts : WellFormed(tvote[v][a]) /\ WellFormed(pvote[v][a])
      BY DEF RepSound, RepWellFormed
    <3>2. \A v \in Reps : \A e \in cast'[v] : WellFormed(e)
      BY <1>3 DEF RepSound, RepWellFormed
    <3>3. \A v \in Reps, a \in Accounts : WellFormed(tvote'[v][a]) /\ WellFormed(pvote'[v][a])
      BY <3>1, <2>1, <2>2
    <3>4. RepWellFormed' <=>
            /\ \A v \in Reps, a \in Accounts : WellFormed(tvote'[v][a]) /\ WellFormed(pvote'[v][a])
            /\ \A v \in Reps : \A e \in cast'[v] : WellFormed(e)
      BY DEF RepWellFormed, WellFormed
    <3> QED BY <3>2, <3>3, <3>4
  <2> QED BY <2>3, <1>3 DEF RepSound, OneVotePerHeight, CastGrows
<1>10. VotesBelowHead'
  <2> SUFFICES ASSUME NEW v \in Reps, NEW e \in cast[v], NEW p \in e
               PROVE  /\ Len(p.prev) <= Len(chain'[v][p.acct])
                      /\ Len(p.prev) = Len(chain'[v][p.acct]) => pvote'[v][p.acct] # {}
    BY <1>3 DEF VotesBelowHead
  <2>1. /\ Len(p.prev) <= Len(chain[v][p.acct])
        /\ Len(p.prev) = Len(chain[v][p.acct]) => pvote[v][p.acct] # {}
    BY DEF RepSound, VotesBelowHead
  <2>2. p.acct \in Accounts /\ p.prev \in Seq(Seq(Blocks)) /\ chain[v][p.acct] \in Seq(Seq(Blocks))
    BY <1>3 DEF Bodies, Parts, Chains
  <2>3. CASE v = r /\ p.acct \in AcctsOf(b)
    <3>1. Len(chain'[v][p.acct]) = Len(chain[v][p.acct]) + 1
      <4>1. chain'[r][p.acct] = Append(chain[r][p.acct], PartOf(p.acct).ids)
        BY <2>2, <2>3, <1>4
      <4>2. PartOf(p.acct).ids \in Seq(Blocks)
        BY <2>2, <2>3, <1>1, <1>2
      <4>3. Len(Append(chain[r][p.acct], PartOf(p.acct).ids)) = Len(chain[r][p.acct]) + 1
        BY <4>2, <2>2, <2>3, AppendFacts
      <4> QED BY <4>1, <4>3, <2>3
    <3> QED BY <3>1, <2>1, <2>2
  <2>4. CASE ~(v = r /\ p.acct \in AcctsOf(b))
    <3>1. chain'[v][p.acct] = chain[v][p.acct] /\ pvote'[v][p.acct] = pvote[v][p.acct]
      BY <2>2, <2>4, <1>3, <1>4, <1>5 DEF Commit
    <3> QED BY <3>1, <2>1
  <2> QED BY <2>3, <2>4
<1>11. EntriesBacked'
  <2> SUFFICES ASSUME NEW v \in Reps, NEW a \in Accounts, NEW n \in 1..Len(chain'[v][a])
               PROVE  Backed(v, a, n)'
    BY DEF EntriesBacked
  <2>1. chain[v][a] \in Seq(Seq(Blocks))
    BY <1>3
  <2>2. CASE n \in 1..Len(chain[v][a]) /\ chain'[v][a][n] = chain[v][a][n]
    <3>1. Backed(v, a, n)
      BY <2>2 DEF RepSound, EntriesBacked
    <3> QED BY <3>1, <2>2, <1>3 DEF Backed
  <2>3. CASE ~(n \in 1..Len(chain[v][a]) /\ chain'[v][a][n] = chain[v][a][n])
    <3>1. v = r /\ a \in AcctsOf(b)
      BY <2>3, <1>4, <1>5
    <3>2. chain'[v][a] = Append(chain[v][a], PartOf(a).ids) /\ PartOf(a).ids \in Seq(Blocks)
      BY <3>1, <1>1, <1>2, <1>4
    <3>3. n = Len(chain[v][a]) + 1 /\ chain'[v][a][n] = PartOf(a).ids
      BY <3>2, <2>1, <2>3
    <3>4. PartOf(a) \in b /\ PartOf(a).acct = a /\ Len(PartOf(a).prev) + 1 = n
      BY <3>1, <3>3, <1>1, <1>2
    <3>5. Issuers({w \in votes : w.body = b}) \in Quorums
      BY DEF PublishReply
    <3>6. \A q \in Issuers({w \in votes : w.body = b}) : b \in cast'[q]
      BY <1>3 DEF Issuers
    <3> QED BY <3>3, <3>4, <3>5, <3>6 DEF Backed
  <2> QED BY <2>2, <2>3
<1> QED BY <1>8, <1>9, <1>10, <1>11 DEF RepSound

-----------------------------------------------------------------------------
(* What the clients hold.                                                  *)

\* A rendered block of the plan is a well-formed body (PlanBody).
LEMMA PlanBodySound ==
  ASSUME NEW c \in Clients, NEW n \in 0..MaxRebuilds, NEW i \in 1..Len(Plan), NEW prev \in Chains
  PROVE  PlanBody(c, n, i, prev) \in Bodies /\ WellFormed(PlanBody(c, n, i, prev))
<1>1. Plan[i] \in Accounts
  BY PlanAssumption
<1>2. BlockId(c, n, i, 0) \in Blocks
  BY BlocksAssumption, BoundsAssumption, PlanAssumption
<1>3. <<BlockId(c, n, i, 0)>> \in Seq(Blocks) /\ <<BlockId(c, n, i, 0)>> # << >>
  BY <1>2
<1> QED BY <1>1, <1>3 DEF PlanBody, Bodies, Parts, WellFormed

\* Adding a fee block leaves one part per account (WithFee).
LEMMA WithFeeSound ==
  ASSUME NEW b \in Bodies, WellFormed(b), NEW id \in Blocks, NEW head \in Chains
  PROVE  WithFee(b, id, head) \in Bodies /\ WellFormed(WithFee(b, id, head))
<1>1. Payer \in Accounts
  BY PlanAssumption
<1>2. \A p \in b : /\ p \in [acct : Accounts, prev : Chains, ids : Seq(Blocks)]
                   /\ Append(p.ids, id) \in Seq(Blocks) /\ Append(p.ids, id) # << >>
  BY DEF Bodies, Parts
<1>3. CASE Payer \in AcctsOf(b)
  <2> DEFINE Paid(p) == IF p.acct = Payer THEN [p EXCEPT !.ids = Append(@, id)] ELSE p
  <2>1. WithFee(b, id, head) = {Paid(p) : p \in b}
    BY <1>3 DEF WithFee
  <2>2. \A p \in b : Paid(p) \in Parts /\ Paid(p).acct = p.acct /\ Paid(p).ids # << >>
    BY <1>2 DEF Parts, WellFormed
  <2> HIDE DEF Paid
  <2> QED BY <2>1, <2>2 DEF Bodies, WellFormed
<1>4. CASE Payer \notin AcctsOf(b)
  <2> DEFINE fee == [acct |-> Payer, prev |-> head, ids |-> <<id>>]
  <2>1. WithFee(b, id, head) = b \cup {fee}
    BY <1>4 DEF WithFee
  <2>2. fee \in Parts /\ fee.acct = Payer /\ fee.ids # << >>
    BY <1>1 DEF Parts
  <2>3. \A p \in b : p.acct # Payer
    BY <1>4 DEF AcctsOf
  <2> HIDE DEF fee
  <2> QED BY <2>1, <2>2, <2>3 DEF Bodies, WellFormed
<1> QED BY <1>3, <1>4

\* Permanent votes stay cast, so keeping, dropping or adding cast votes keeps
\* HeldVotesCast.
LEMMA HeldKept ==
  ASSUME CliSound, CastGrows,
         \A d \in Clients : \A v \in perm'[d] :
            v \in perm[d] \/ v.body \in cast'[v.by]
  PROVE  HeldVotesCast'
<1> SUFFICES ASSUME NEW d \in Clients, NEW v \in perm'[d] PROVE v.body \in cast'[v.by]
  BY DEF HeldVotesCast
<1>1. CASE v \in perm[d]
  <2>1. v.by \in Reps /\ v.body \in cast[v.by]
    BY <1>1 DEF CliSound, CliTypeOK, HeldVotesCast, Votes
  <2> QED BY <2>1 DEF CastGrows
<1> QED BY <1>1

\* Returning from the call, or crashing, keeps the clients sound (Stop).
LEMMA StopSound ==
  ASSUME CliSound, CastGrows, NEW c \in Clients, NEW where \in PCs, Stop(c, where)
  PROVE  CliSound'
<1>1. CliTypeOK'
  <2>1. NoError \in Errors /\ << >> \in Chains /\ 0 \in 0..MaxRetries
    BY BoundsAssumption DEF NoError, Errors, Codes, Chains
  <2> QED BY <2>1 DEF CliSound, CliTypeOK, Stop, Bodies
<1>2. CliWellFormed'
  BY DEF CliSound, CliTypeOK, CliWellFormed, Stop, WellFormed
<1>3. HeldVotesCast'
  <2>1. \A d \in Clients : \A v \in perm'[d] : v \in perm[d]
    BY DEF CliSound, CliTypeOK, Stop
  <2> QED BY <2>1, HeldKept
<1> QED BY <1>1, <1>2, <1>3 DEF CliSound

\* Entering the temporary round keeps them sound (StartRound).
LEMMA StartRoundSound ==
  ASSUME CliSound, CastGrows, NEW c \in Clients, NEW i \in 1..Len(Plan), NEW prev \in Chains,
         StartRound(c, rebuild[c], i, prev),
         prevs' \in [Clients -> [1..Len(Plan) -> Chains]],
         attempt' \in [Clients -> 0..MaxRetries],
         UNCHANGED <<seen, missing, rebuild>>
  PROVE  CliSound'
<1> DEFINE b == PlanBody(c, rebuild[c], i, prev)
<1>1. rebuild[c] \in 0..MaxRebuilds
  BY DEF CliSound, CliTypeOK
<1>2. b \in Bodies /\ WellFormed(b)
  BY <1>1, PlanBodySound
<1>3. body' = [body EXCEPT ![c] = b]
  BY DEF StartRound
<1> HIDE DEF b
<1>4. NoError \in Errors /\ "temp" \in PCs
  BY BoundsAssumption DEF NoError, Errors, Codes, PCs
<1>5. CliTypeOK'
  BY <1>2, <1>3, <1>4 DEF CliSound, CliTypeOK, StartRound, ContactsFor
<1>6. CliWellFormed'
  <2>1. \A d \in Clients : WellFormed(body[d]) /\ (\A v \in temp[d] \cup perm[d] : WellFormed(v.body))
    BY DEF CliSound, CliWellFormed
  <2>2. \A d \in Clients : body'[d] \in {body[d], b} /\ temp'[d] \subseteq temp[d] /\ perm'[d] \subseteq perm[d]
    BY <1>3 DEF CliSound, CliTypeOK, StartRound
  <2> QED BY <2>1, <2>2, <1>2 DEF CliWellFormed, WellFormed
<1>7. HeldVotesCast'
  <2>1. \A d \in Clients : \A v \in perm'[d] : v \in perm[d]
    BY DEF CliSound, CliTypeOK, StartRound
  <2> QED BY <2>1, HeldKept
<1> QED BY <1>5, <1>6, <1>7 DEF CliSound

\* Asking for permanent votes keeps them sound (StartPerm).
LEMMA StartPermSound ==
  ASSUME CliSound, CastGrows, NEW c \in Clients, NEW where \in PCs,
         NEW b \in Bodies, WellFormed(b), NEW reps \in SUBSET Reps, StartPerm(c, where, b, reps)
  PROVE  CliSound'
<1>1. CliTypeOK'
  <2>1. NoError \in Errors
    BY DEF NoError, Errors, Codes
  <2> QED BY <2>1 DEF CliSound, CliTypeOK, StartPerm
<1>2. CliWellFormed'
  BY DEF CliSound, CliTypeOK, CliWellFormed, StartPerm, WellFormed
<1>3. HeldVotesCast'
  BY HeldKept DEF StartPerm
<1> QED BY <1>1, <1>2, <1>3 DEF CliSound

\* Publishing the staple keeps them sound (StartPublish).
LEMMA StartPublishSound ==
  ASSUME CliSound, CastGrows, NEW c \in Clients, NEW where \in PCs, StartPublish(c, where)
  PROVE  CliSound'
<1>1. CliTypeOK'
  <2>1. NoError \in Errors
    BY DEF NoError, Errors, Codes
  <2> QED BY <2>1 DEF CliSound, CliTypeOK, StartPublish
<1>2. CliWellFormed'
  BY DEF CliSound, CliTypeOK, CliWellFormed, StartPublish, WellFormed
<1>3. HeldVotesCast'
  BY HeldKept DEF StartPublish
<1> QED BY <1>1, <1>2, <1>3 DEF CliSound

\* Retrying, recovering or giving up keeps them sound (RoundFailed).
LEMMA RoundFailedSound ==
  ASSUME CliSound, CastGrows, NEW c \in Clients, NEW code, RoundFailed(c, code)
  PROVE  CliSound'
<1>1. CASE /\ Retryable(c, code)
           /\ attempt' = [attempt EXCEPT ![c] = @ + 1]
           /\ StartRound(c, rebuild[c], part[c], prevs[c][part[c]])
           /\ UNCHANGED <<prevs, seen, missing, rebuild>>
  <2>1. part[c] \in 1..Len(Plan) /\ prevs[c][part[c]] \in Chains
    BY DEF CliSound, CliTypeOK
  <2>2. attempt' \in [Clients -> 0..MaxRetries] /\ prevs' \in [Clients -> [1..Len(Plan) -> Chains]]
    BY <1>1, BoundsAssumption DEF CliSound, CliTypeOK, Retryable
  <2> QED BY <1>1, <2>1, <2>2, StartRoundSound
<1>2. CASE /\ pc'   = [pc EXCEPT ![c] = "pending"]
           /\ wait' = [wait EXCEPT ![c] = Reps]
           /\ body' = [body EXCEPT ![c] = {}]
           /\ temp' = [temp EXCEPT ![c] = {}]
           /\ perm' = [perm EXCEPT ![c] = {}]
           /\ err'  = [err EXCEPT ![c] = NoError]
           /\ good' = [good EXCEPT ![c] = FALSE]
           /\ UNCHANGED <<part, prevs, seen, missing, attempt, rebuild>>
  <2>1. CliTypeOK'
    <3>1. NoError \in Errors /\ "pending" \in PCs
      BY DEF NoError, Errors, Codes, PCs
    <3> QED BY <1>2, <3>1 DEF CliSound, CliTypeOK, Bodies
  <2>2. CliWellFormed'
    BY <1>2 DEF CliSound, CliTypeOK, CliWellFormed, WellFormed
  <2>3. HeldVotesCast'
    <3>1. \A d \in Clients : \A v \in perm'[d] : v \in perm[d]
      BY <1>2 DEF CliSound, CliTypeOK
    <3> QED BY <3>1, HeldKept
  <2> QED BY <2>1, <2>2, <2>3 DEF CliSound
<1>3. CASE Stop(c, "failed")
  BY <1>3, StopSound DEF PCs
<1> QED BY <1>1, <1>2, <1>3 DEF RoundFailed

-----------------------------------------------------------------------------
(* One lemma per action: it preserves the inductive invariant.             *)

\* A step that leaves the representatives alone keeps them sound.
LEMMA RepStutter ==
  ASSUME RepSound, UNCHANGED repVars
  PROVE  RepSound' /\ CastGrows
<1>1. chain' = chain /\ tvote' = tvote /\ pvote' = pvote /\ cast' = cast
  BY DEF repVars
<1> QED BY <1>1 DEF RepSound, RepTypeOK, RepWellFormed, OneVotePerHeight, VotesBelowHead,
                    EntriesBacked, Backed, CastGrows

\* A request with an outcome keeps the number of faults within its bound.
LEMMA OutcomeBounded ==
  ASSUME faults \in 0..MaxFaults, NEW d, Outcome(d)
  PROVE  faults' \in 0..MaxFaults
  BY BoundsAssumption DEF Outcome

\* The heads the representatives report are chains.
LEMMA HeadsTyped ==
  ASSUME RepSound, NEW r \in Reps, NEW a \in Accounts
  PROVE  chain[r][a] \in Chains
  BY DEF RepSound, RepTypeOK

\* Ending the call on a lost request keeps everything sound.
LEMMA LostSound ==
  ASSUME Sound, UNCHANGED repVars, NEW c \in Clients, NEW where \in {"failed", "crashed"},
         Outcome("request_lost"), Stop(c, where)
  PROVE  Sound'
<1>1. where \in PCs
  BY DEF PCs
<1> QED BY <1>1, RepStutter, StopSound, OutcomeBounded DEF Sound

\* Rendering the blocks (Build).
LEMMA BuildSound ==
  ASSUME Sound, NEW c \in Clients, Build(c)
  PROVE  Sound'
<1>1. RepSound /\ CliSound /\ RepSound' /\ CastGrows
  BY RepStutter DEF Build, Sound
<1>2. CASE Outcome("request_lost") /\ Stop(c, "failed")
  BY <1>2, LostSound DEF Build
<1>3. CASE /\ \E src \in [1..Len(Plan) -> Reps] :
                LET heads == [i \in 1..Len(Plan) |-> chain[src[i]][Plan[i]]]
                IN /\ prevs' = [prevs EXCEPT ![c] = heads]
                   /\ StartRound(c, rebuild[c], 1, heads[1])
           /\ attempt' = [attempt EXCEPT ![c] = 0]
           /\ UNCHANGED <<seen, missing, rebuild, faults>>
  <2> DEFINE Heads(src) == [i \in 1..Len(Plan) |-> chain[src[i]][Plan[i]]]
  <2>1. PICK src \in [1..Len(Plan) -> Reps] :
          prevs' = [prevs EXCEPT ![c] = Heads(src)] /\ StartRound(c, rebuild[c], 1, Heads(src)[1])
    BY <1>3
  <2>2. Heads(src) \in [1..Len(Plan) -> Chains]
    <3>1. \A i \in 1..Len(Plan) : chain[src[i]][Plan[i]] \in Chains
      BY <1>1, HeadsTyped, PlanAssumption
    <3> QED BY <3>1
  <2>3. 1 \in 1..Len(Plan)
    BY PlanAssumption
  <2> HIDE DEF Heads
  <2>4. Heads(src)[1] \in Chains
    BY <2>2, <2>3
  <2>5. prevs' \in [Clients -> [1..Len(Plan) -> Chains]]
    BY <2>1, <2>2, <1>1 DEF CliSound, CliTypeOK
  <2>6. attempt' \in [Clients -> 0..MaxRetries]
    BY <1>1, <1>3, BoundsAssumption DEF CliSound, CliTypeOK
  <2>7. CliSound'
    BY <1>1, <1>3, <2>1, <2>3, <2>4, <2>5, <2>6, StartRoundSound
  <2> QED BY <1>1, <1>3, <2>7 DEF Sound
<1> QED BY <1>2, <1>3 DEF Build

\* A vote on the blocks under way is a vote, and well-formed.
LEMMA VoteTyped ==
  ASSUME CliSound, NEW c \in Clients, NEW r \in Reps
  PROVE  /\ body[c] \in Bodies /\ WellFormed(body[c])
         /\ [by |-> r, body |-> body[c]] \in Votes
  BY DEF CliSound, CliTypeOK, CliWellFormed, Votes

\* Adding a vote to a client's votes.
LEMMA AddVote ==
  ASSUME NEW f \in [Clients -> SUBSET Votes], NEW c \in Clients, NEW v \in Votes
  PROVE  /\ [f EXCEPT ![c] = @ \cup {v}] \in [Clients -> SUBSET Votes]
         /\ \A e \in Clients : [f EXCEPT ![c] = @ \cup {v}][e] \subseteq f[e] \cup {v}
  OBVIOUS

\* The errors the fan-outs keep have their type (HeavierError, LastError).
LEMMA ErrorTyped ==
  ASSUME NEW e \in Errors, NEW r \in Reps, NEW code \in Codes
  PROVE  HeavierError(e, r, code) \in Errors /\ LastError(e, r, code) \in Errors
<1>1. Weight[r] \in Nat
  BY BoundsAssumption
<1> QED BY <1>1 DEF HeavierError, LastError, Errors

\* The verdicts, and what the client is told of them, are codes.
LEMMA ToldTyped ==
  ASSUME NEW d, NEW v \in Codes \cup {"ok"}, Told(d, v) # "ok"
  PROVE  Told(d, v) \in Codes
  BY DEF Told, Codes

\* A temporary vote is answered (TempAnswer).
LEMMA TempAnswerSound ==
  ASSUME Sound, NEW c \in Clients, NEW r \in Reps, TempAnswer(c, r)
  PROVE  Sound'
<1>1. RepSound /\ CliSound /\ faults \in 0..MaxFaults
  BY DEF Sound
<1> DEFINE vote == [by |-> r, body |-> body[c]]
<1>2. body[c] \in Bodies /\ WellFormed(body[c]) /\ vote \in Votes
  BY <1>1, VoteTyped
<1>3. PICK d \in Outcomes, v \in {TempReply(r, body[c])} \cup {"LEDGER_NO_PERM_WITHOUT_SELF_TEMP"} :
        /\ Outcome(d)
        /\ GiveTemp(r, body[c]) \/ UNCHANGED repVars
        /\ IF Told(d, v) = "ok"
             THEN temp' = [temp EXCEPT ![c] = @ \cup {vote}] /\ UNCHANGED err
             ELSE /\ err' = [err EXCEPT ![c] =
                               IF pc[c] = "temp" THEN HeavierError(@, r, Told(d, v)) ELSE @]
                  /\ UNCHANGED temp
  BY DEF TempAnswer
<1>4. RepSound' /\ CastGrows
  BY <1>1, <1>2, <1>3, GiveTempSound, RepStutter
<1>5. v \in Codes \cup {"ok"}
  BY DEF TempReply, Codes
<1>6. err' \in [Clients -> Errors]
  <2>1. Told(d, v) # "ok" => HeavierError(err[c], r, Told(d, v)) \in Errors
    BY <1>1, <1>5, ToldTyped, ErrorTyped DEF CliSound, CliTypeOK
  <2> QED BY <1>1, <1>3, <2>1 DEF CliSound, CliTypeOK
<1>7. vote.body = body[c]
  OBVIOUS
<1> HIDE DEF vote
<1>8. temp' \in [Clients -> SUBSET Votes] /\ \A e \in Clients : temp'[e] \subseteq temp[e] \cup {vote}
  <2>1. temp \in [Clients -> SUBSET Votes]
    BY <1>1 DEF CliSound, CliTypeOK
  <2>2. CASE temp' = [temp EXCEPT ![c] = @ \cup {vote}]
    BY <2>1, <2>2, <1>2, AddVote
  <2>3. CASE temp' = temp
    BY <2>1, <2>3
  <2> QED BY <2>2, <2>3, <1>3
<1>9. /\ UNCHANGED <<pc, part, prevs, body, perm, seen, missing, good, attempt, rebuild>>
      /\ wait' = [wait EXCEPT ![c] = @ \ {r}]
  BY DEF TempAnswer
<1>10. CliTypeOK'
  BY <1>1, <1>6, <1>8, <1>9 DEF CliSound, CliTypeOK
<1>11. CliWellFormed'
  BY <1>1, <1>2, <1>7, <1>8, <1>9 DEF CliSound, CliWellFormed, WellFormed
<1>12. HeldVotesCast'
  BY <1>1, <1>4, <1>9, HeldKept
<1> QED BY <1>1, <1>3, <1>4, <1>10, <1>11, <1>12, OutcomeBounded DEF Sound, CliSound

\* The temporary round ends (TempDone).
LEMMA TempDoneSound ==
  ASSUME Sound, NEW c \in Clients, TempDone(c)
  PROVE  Sound'
<1>1. RepSound /\ CliSound /\ RepSound' /\ CastGrows
  BY RepStutter DEF TempDone, Sound
<1> DEFINE id == BlockId(c, rebuild[c], part[c], 1 + attempt[c])
<1>2. id \in Blocks
  <2>1. /\ rebuild[c] \in 0..MaxRebuilds /\ part[c] \in 0..Len(Plan)
        /\ 1 + attempt[c] \in 0..(MaxRetries + 1)
    BY <1>1, BoundsAssumption, PlanAssumption DEF CliSound, CliTypeOK
  <2> QED BY <2>1, BlocksAssumption
<1>3. body[c] \in Bodies /\ WellFormed(body[c]) /\ ContactsFor(temp[c]) \in SUBSET Reps /\ "perm" \in PCs
  <2>1. temp[c] \in SUBSET Votes
    BY <1>1 DEF CliSound, CliTypeOK
  <2>2. Issuers(temp[c]) \in SUBSET Reps
    BY <2>1 DEF Issuers, Votes
  <2> QED BY <1>1, <2>2 DEF CliSound, CliTypeOK, CliWellFormed, ContactsFor, PCs
<1>4. CASE RoundFailed(c, err[c].code) /\ UNCHANGED faults
  BY <1>1, <1>4, RoundFailedSound DEF Sound
<1>5. CASE StartPerm(c, "perm", body[c], ContactsFor(temp[c])) /\ UNCHANGED faults
  BY <1>1, <1>3, <1>5, StartPermSound DEF Sound
<1> HIDE DEF id
<1>6. CASE /\ \E src \in Reps :
                StartPerm(c, "perm", WithFee(body[c], id, chain[src][Payer]), ContactsFor(temp[c]))
           /\ UNCHANGED faults
  <2>1. PICK src \in Reps :
          StartPerm(c, "perm", WithFee(body[c], id, chain[src][Payer]), ContactsFor(temp[c]))
    BY <1>6
  <2>2. chain[src][Payer] \in Chains
    BY <1>1, HeadsTyped, PlanAssumption
  <2>3. /\ WithFee(body[c], id, chain[src][Payer]) \in Bodies
        /\ WellFormed(WithFee(body[c], id, chain[src][Payer]))
    BY <2>2, <1>2, <1>3, WithFeeSound
  <2>4. CliSound'
    BY <2>1, <2>3, <1>1, <1>3, StartPermSound
  <2> QED BY <2>4, <1>1, <1>6 DEF Sound
<1>7. CASE Outcome("request_lost") /\ Stop(c, "failed")
  BY <1>7, LostSound DEF TempDone
<1> QED BY <1>4, <1>5, <1>6, <1>7 DEF TempDone, id

\* A permanent vote is answered (PermAnswer).
LEMMA PermAnswerSound ==
  ASSUME Sound, NEW c \in Clients, NEW r \in Reps, PermAnswer(c, r)
  PROVE  Sound'
<1>1. RepSound /\ CliSound /\ faults \in 0..MaxFaults
  BY DEF Sound
<1> DEFINE vote  == [by |-> r, body |-> body[c]]
           prior == temp[c] \cup perm[c]
           v     == PermReply(r, body[c], prior)
<1>2. body[c] \in Bodies /\ WellFormed(body[c]) /\ vote \in Votes
  BY <1>1, VoteTyped
<1>3. PICK d \in Outcomes :
        /\ Outcome(d)
        /\ IF v = "ok" /\ d # "request_lost" THEN GivePerm(r, body[c]) ELSE UNCHANGED repVars
        /\ IF Told(d, v) = "ok"
             THEN perm' = [perm EXCEPT ![c] = @ \cup {vote}] /\ UNCHANGED err
             ELSE /\ err' = [err EXCEPT ![c] =
                               IF pc[c] = "perm" THEN HeavierError(@, r, Told(d, v)) ELSE @]
                  /\ UNCHANGED perm
  BY DEF PermAnswer
<1>4. vote.by = r /\ vote.body = body[c]
  OBVIOUS
<1> HIDE DEF vote, prior
<1>5. RepSound' /\ CastGrows
  BY <1>1, <1>2, <1>3, GivePermSound, RepStutter
<1>6. v \in Codes \cup {"ok"}
  BY DEF PermReply, Codes
<1> HIDE DEF v
<1>7. err' \in [Clients -> Errors]
  <2>1. Told(d, v) # "ok" => HeavierError(err[c], r, Told(d, v)) \in Errors
    BY <1>1, <1>6, ToldTyped, ErrorTyped DEF CliSound, CliTypeOK
  <2> QED BY <1>1, <1>3, <2>1 DEF CliSound, CliTypeOK
<1>8. perm \in [Clients -> SUBSET Votes]
  BY <1>1 DEF CliSound, CliTypeOK
<1>9. /\ perm' \in [Clients -> SUBSET Votes]
      /\ \A e \in Clients : perm'[e] \subseteq perm[e] \cup {vote}
  <2>1. CASE perm' = [perm EXCEPT ![c] = @ \cup {vote}]
    BY <2>1, <1>2, <1>8, AddVote
  <2>2. CASE perm' = perm
    BY <2>2, <1>8
  <2> QED BY <2>1, <2>2, <1>3
<1>10. perm' = perm \/ body[c] \in cast'[r]
  <2>1. CASE Told(d, v) = "ok"
    <3>1. v = "ok" /\ d # "request_lost"
      BY <2>1 DEF Told
    <3>2. GivePerm(r, body[c])
      BY <3>1, <1>3
    <3> QED BY <3>2, <1>1 DEF GivePerm, RepSound, RepTypeOK
  <2> QED BY <2>1, <1>3
<1>11. /\ UNCHANGED <<pc, part, prevs, body, temp, seen, missing, good, attempt, rebuild>>
       /\ wait' = [wait EXCEPT ![c] = @ \ {r}]
  BY DEF PermAnswer
<1>12. CliTypeOK'
  BY <1>1, <1>7, <1>9, <1>11 DEF CliSound, CliTypeOK
<1>13. CliWellFormed'
  BY <1>1, <1>2, <1>4, <1>9, <1>11 DEF CliSound, CliWellFormed, WellFormed
<1>14. HeldVotesCast'
  <2>1. \A e \in Clients : \A w \in perm'[e] : w \in perm[e] \/ w.body \in cast'[w.by]
    BY <1>4, <1>9, <1>10
  <2> QED BY <2>1, <1>1, <1>5, HeldKept
<1> QED BY <1>1, <1>3, <1>5, <1>12, <1>13, <1>14, OutcomeBounded DEF Sound, CliSound

\* The permanent round ends (PermDone).
LEMMA PermDoneSound ==
  ASSUME Sound, NEW c \in Clients, PermDone(c)
  PROVE  Sound'
<1>1. RepSound /\ CliSound /\ RepSound' /\ CastGrows /\ UNCHANGED faults
  BY RepStutter DEF PermDone, Sound
<1>2. CliSound'
  <2>1. CASE RoundFailed(c, err[c].code)
    BY <2>1, <1>1, RoundFailedSound
  <2>2. CASE StartPublish(c, "publish")
    BY <2>2, <1>1, StartPublishSound DEF PCs
  <2>3. CASE Stop(c, "failed")
    BY <2>3, <1>1, StopSound DEF PCs
  <2> QED BY <2>1, <2>2, <2>3 DEF PermDone
<1> QED BY <1>1, <1>2 DEF Sound

\* A publish is answered (PublishAnswer).
LEMMA PublishAnswerSound ==
  ASSUME Sound, NEW c \in Clients, NEW r \in Reps, PublishAnswer(c, r)
  PROVE  Sound'
<1>1. RepSound /\ CliSound /\ faults \in 0..MaxFaults
  BY DEF Sound
<1> DEFINE v == PublishReply(r, body[c], perm[c])
<1>2. body[c] \in Bodies /\ WellFormed(body[c])
  BY <1>1, VoteTyped
<1>3. PICK d \in Outcomes :
        /\ Outcome(d)
        /\ IF v = "ok" /\ d # "request_lost" THEN Commit(r, body[c]) ELSE UNCHANGED repVars
        /\ IF Told(d, v) = "ok"
             THEN good' = [good EXCEPT ![c] = TRUE] /\ UNCHANGED err
             ELSE err' = [err EXCEPT ![c] = LastError(@, r, Told(d, v))] /\ UNCHANGED good
  BY DEF PublishAnswer
<1>4. RepSound' /\ CastGrows
  <2>1. perm[c] \in SUBSET Votes /\ \A w \in perm[c] : w.body \in cast[w.by]
    BY <1>1 DEF CliSound, CliTypeOK, HeldVotesCast
  <2> QED BY <2>1, <1>1, <1>2, <1>3, CommitSound, RepStutter
<1>5. v \in Codes \cup {"ok"}
  BY DEF PublishReply, Codes
<1> HIDE DEF v
<1>6. err' \in [Clients -> Errors] /\ good' \in [Clients -> BOOLEAN]
  <2>1. Told(d, v) # "ok" => LastError(err[c], r, Told(d, v)) \in Errors
    BY <1>1, <1>5, ToldTyped, ErrorTyped DEF CliSound, CliTypeOK
  <2> QED BY <1>1, <1>3, <2>1 DEF CliSound, CliTypeOK
<1>7. /\ UNCHANGED <<pc, part, prevs, body, temp, perm, seen, missing, attempt, rebuild>>
      /\ wait' = [wait EXCEPT ![c] = @ \ {r}]
  BY DEF PublishAnswer
<1>8. CliTypeOK'
  BY <1>1, <1>6, <1>7 DEF CliSound, CliTypeOK
<1>9. CliWellFormed'
  BY <1>1, <1>7 DEF CliSound, CliWellFormed, WellFormed
<1>10. HeldVotesCast'
  BY <1>1, <1>4, <1>7, HeldKept
<1> QED BY <1>1, <1>3, <1>4, <1>8, <1>9, <1>10, OutcomeBounded DEF Sound, CliSound

\* The publish fan-out ends (PublishDone).
LEMMA PublishDoneSound ==
  ASSUME Sound, NEW c \in Clients, PublishDone(c)
  PROVE  Sound'
<1>1. RepSound /\ CliSound /\ RepSound' /\ CastGrows /\ UNCHANGED faults
  BY RepStutter DEF PublishDone, Sound
<1>2. CliSound'
  <2>1. CASE RoundFailed(c, err[c].code)
    BY <2>1, <1>1, RoundFailedSound
  <2>2. CASE Stop(c, "done")
    BY <2>2, <1>1, StopSound DEF PCs
  <2>3. CASE /\ part[c] # Len(Plan)
             /\ StartRound(c, rebuild[c], part[c] + 1, prevs[c][part[c] + 1])
             /\ attempt' = [attempt EXCEPT ![c] = 0]
             /\ UNCHANGED <<prevs, seen, missing, rebuild>>
    <3>1. part[c] + 1 \in 1..Len(Plan)
      BY <2>3, <1>1, PlanAssumption DEF CliSound, CliTypeOK
    <3>2. prevs[c][part[c] + 1] \in Chains
      BY <3>1, <1>1 DEF CliSound, CliTypeOK
    <3>3. attempt' \in [Clients -> 0..MaxRetries] /\ prevs' \in [Clients -> [1..Len(Plan) -> Chains]]
      BY <2>3, <1>1, BoundsAssumption DEF CliSound, CliTypeOK
    <3> QED BY <2>3, <3>1, <3>2, <3>3, <1>1, StartRoundSound
  <2> QED BY <2>1, <2>2, <2>3 DEF PublishDone
<1> QED BY <1>1, <1>2 DEF Sound

\* A pending block is reported to recovery (PendingAnswer).
LEMMA PendingAnswerSound ==
  ASSUME Sound, NEW c \in Clients, NEW r \in Reps, PendingAnswer(c, r)
  PROVE  Sound'
<1>1. RepSound /\ CliSound /\ faults \in 0..MaxFaults /\ RepSound' /\ CastGrows
  BY RepStutter DEF PendingAnswer, Sound
<1> DEFINE found == {[by |-> r, id |-> p.ids[1]] :
                       p \in {p \in Pending(r, Operating) : p.acct = Operating}}
<1>2. PICK d : /\ Outcome(d)
               /\ seen' = [seen EXCEPT ![c] = @ \cup IF d = "delivered" THEN found ELSE {}]
  BY DEF PendingAnswer
<1>3. Pending(r, Operating) \in Bodies /\ WellFormed(Pending(r, Operating))
  BY <1>1, PlanAssumption DEF Pending, RepSound, RepTypeOK, RepWellFormed
<1>4. \A p \in Pending(r, Operating) : p.ids[1] \in Blocks
  <2>1. \A p \in Pending(r, Operating) : p.ids \in Seq(Blocks) /\ p.ids # << >>
    BY <1>3 DEF Bodies, Parts, WellFormed
  <2> QED BY <2>1
<1>5. found \subseteq [by : Reps, id : Blocks]
  BY <1>4
<1> HIDE DEF found
<1>6. /\ UNCHANGED <<pc, part, prevs, body, temp, perm, missing, good, err, attempt, rebuild>>
      /\ wait' = [wait EXCEPT ![c] = @ \ {r}]
  BY DEF PendingAnswer
<1>7. CliTypeOK'
  BY <1>1, <1>2, <1>5, <1>6 DEF CliSound, CliTypeOK
<1>8. CliWellFormed'
  BY <1>1, <1>6 DEF CliSound, CliWellFormed, WellFormed
<1>9. HeldVotesCast'
  BY <1>1, <1>6, HeldKept
<1> QED BY <1>1, <1>2, <1>7, <1>8, <1>9, OutcomeBounded DEF Sound, CliSound

\* The most common pending block is chosen (PendingDone).
LEMMA PendingDoneSound ==
  ASSUME Sound, NEW c \in Clients, PendingDone(c)
  PROVE  Sound'
<1>1. RepSound /\ CliSound /\ RepSound' /\ CastGrows /\ UNCHANGED faults
  BY RepStutter DEF PendingDone, Sound
<1>2. CASE Stop(c, "failed")
  BY <1>1, <1>2, StopSound DEF PCs, Sound
<1>3. CASE \E id \in MostCommon(c) :
             /\ pc'   = [pc EXCEPT ![c] = "gather"]
             /\ wait' = [wait EXCEPT ![c] = Reps]
             /\ seen' = [seen EXCEPT ![c] = {o \in @ : o.id = id}]
             /\ UNCHANGED <<part, prevs, body, temp, perm, missing, good, err, attempt, rebuild>>
  <2>1. CliTypeOK'
    BY <1>1, <1>3 DEF CliSound, CliTypeOK, PCs
  <2>2. CliWellFormed'
    BY <1>1, <1>3 DEF CliSound, CliWellFormed, WellFormed
  <2>3. HeldVotesCast'
    BY <1>1, <1>3, HeldKept
  <2> QED BY <1>1, <2>1, <2>2, <2>3 DEF Sound, CliSound
<1> QED BY <1>2, <1>3 DEF PendingDone

\* The own votes a representative shows recovery are well-formed votes, and
\* the permanent ones were cast (OwnPerm, OwnTemp).
LEMMA OwnVotesSound ==
  ASSUME RepSound, NEW r \in Reps, NEW id
  PROVE  /\ \A v \in OwnPerm(r, Operating, id) :
              v \in Votes /\ WellFormed(v.body) /\ v.body \in cast[v.by]
         /\ \A v \in OwnTemp(r, Operating, id) : v \in Votes /\ WellFormed(v.body)
<1>1. \A b \in cast[r] : b \in Bodies /\ WellFormed(b)
  BY DEF RepSound, RepTypeOK, RepWellFormed
<1>2. tvote[r][Operating] \in Bodies /\ WellFormed(tvote[r][Operating])
  BY PlanAssumption DEF RepSound, RepTypeOK, RepWellFormed
<1>3. \A v \in OwnPerm(r, Operating, id) : \E b \in cast[r] : v = [by |-> r, body |-> b]
  BY DEF OwnPerm
<1>4. \A v \in OwnTemp(r, Operating, id) : v = [by |-> r, body |-> tvote[r][Operating]]
  BY DEF OwnTemp
<1> QED BY <1>1, <1>2, <1>3, <1>4 DEF Votes

\* Recovery reads a representative's own vote (GatherVote).
LEMMA GatherVoteSound ==
  ASSUME Sound, NEW c \in Clients, NEW r \in Reps, GatherVote(c, r)
  PROVE  Sound'
<1>1. RepSound /\ CliSound /\ faults \in 0..MaxFaults /\ RepSound' /\ CastGrows /\ cast' = cast
  BY RepStutter DEF GatherVote, Sound, repVars
<1>2. PICK d \in {"delivered", "request_lost"}, o \in seen[c] :
        LET own == IF d # "delivered" THEN {}
                   ELSE IF OwnPerm(r, Operating, o.id) # {} THEN OwnPerm(r, Operating, o.id)
                   ELSE OwnTemp(r, Operating, o.id)
        IN /\ Outcome(d)
           /\ perm' = [perm EXCEPT ![c] = IF own = OwnPerm(r, Operating, o.id)
                                            THEN @ \cup own ELSE @]
           /\ temp' = [temp EXCEPT ![c] = IF own # OwnPerm(r, Operating, o.id)
                                            THEN @ \cup own ELSE @]
           /\ missing' = [missing EXCEPT ![c] = IF own = {} THEN @ \cup {r} ELSE @]
  BY DEF GatherVote
<1> DEFINE own == IF d # "delivered" THEN {}
                  ELSE IF OwnPerm(r, Operating, o.id) # {} THEN OwnPerm(r, Operating, o.id)
                  ELSE OwnTemp(r, Operating, o.id)
           p == IF own = OwnPerm(r, Operating, o.id) THEN own ELSE {}
           t == IF own # OwnPerm(r, Operating, o.id) THEN own ELSE {}
           m == IF own = {} THEN {r} ELSE {}
<1>3. own \subseteq OwnPerm(r, Operating, o.id) \cup OwnTemp(r, Operating, o.id)
  OBVIOUS
<1>4. /\ perm' = [perm EXCEPT ![c] = @ \cup p]
      /\ temp' = [temp EXCEPT ![c] = @ \cup t]
      /\ missing' = [missing EXCEPT ![c] = @ \cup m]
      /\ Outcome(d)
  BY <1>1, <1>2 DEF CliSound, CliTypeOK
<1> HIDE DEF own
<1>5. /\ p \subseteq OwnPerm(r, Operating, o.id)
      /\ t \subseteq OwnPerm(r, Operating, o.id) \cup OwnTemp(r, Operating, o.id)
      /\ m \subseteq Reps
  BY <1>3
<1> HIDE DEF p, t, m
<1>6. /\ \A v \in p \cup t : v \in Votes /\ WellFormed(v.body)
      /\ \A v \in p : v.body \in cast[v.by]
  BY <1>1, <1>5, OwnVotesSound
<1>7. /\ UNCHANGED <<pc, part, prevs, body, seen, good, err, attempt, rebuild>>
      /\ wait' = [wait EXCEPT ![c] = @ \ {r}]
  BY DEF GatherVote
<1>8. CliTypeOK'
  <2>1. p \subseteq Votes /\ t \subseteq Votes
    BY <1>6
  <2> QED BY <1>1, <1>4, <1>5, <1>7, <2>1 DEF CliSound, CliTypeOK
<1>9. \A e \in Clients : perm'[e] \subseteq perm[e] \cup p /\ temp'[e] \subseteq temp[e] \cup t
  BY <1>1, <1>4 DEF CliSound, CliTypeOK
<1>10. CliWellFormed'
  BY <1>1, <1>6, <1>7, <1>9 DEF CliSound, CliWellFormed, WellFormed
<1>11. HeldVotesCast'
  BY <1>1, <1>6, <1>9, HeldKept
<1> QED BY <1>1, <1>4, <1>8, <1>10, <1>11, OutcomeBounded DEF Sound, CliSound

\* The recovered votes name the blocks to recover (GatherDone).
LEMMA GatherDoneSound ==
  ASSUME Sound, NEW c \in Clients, GatherDone(c)
  PROVE  Sound'
<1>1. RepSound /\ CliSound /\ faults \in 0..MaxFaults /\ RepSound' /\ CastGrows /\ UNCHANGED repVars
  BY RepStutter DEF GatherDone, Sound
<1>2. CASE Stop(c, "failed") /\ UNCHANGED faults
  BY <1>1, <1>2, StopSound DEF PCs, Sound
<1>3. CASE Outcome("request_lost") /\ Stop(c, "failed")
  BY <1>1, <1>3, LostSound
<1>4. CASE \E sample \in perm[c] \cup temp[c] :
             /\ Outcome("delivered")
             /\ body' = [body EXCEPT ![c] = sample.body]
             /\ pc'   = [pc EXCEPT ![c] = "topup"]
             /\ wait' = [wait EXCEPT ![c] = missing[c]]
             /\ seen' = [seen EXCEPT ![c] = {}]
             /\ missing' = [missing EXCEPT ![c] = {}]
             /\ UNCHANGED <<part, prevs, temp, perm, good, err, attempt, rebuild>>
  <2>1. PICK sample \in perm[c] \cup temp[c] : body' = [body EXCEPT ![c] = sample.body]
    BY <1>4
  <2>2. sample.body \in Bodies /\ WellFormed(sample.body)
    BY <1>1 DEF CliSound, CliTypeOK, CliWellFormed, Votes
  <2>3. CliTypeOK'
    BY <1>1, <1>4, <2>1, <2>2 DEF CliSound, CliTypeOK, PCs
  <2>4. CliWellFormed'
    <3>1. \A e \in Clients : body'[e] \in {body[e], sample.body}
      BY <2>1, <1>1 DEF CliSound, CliTypeOK
    <3> QED BY <1>1, <1>4, <2>2, <3>1 DEF CliSound, CliWellFormed, WellFormed
  <2>5. HeldVotesCast'
    BY <1>1, <1>4, HeldKept
  <2>6. faults' \in 0..MaxFaults
    BY <1>1, <1>4, OutcomeBounded
  <2> QED BY <1>1, <2>3, <2>4, <2>5, <2>6 DEF Sound, CliSound
<1> QED BY <1>2, <1>3, <1>4 DEF GatherDone

\* The missing temporary votes were requested (TopUpDone).
LEMMA TopUpDoneSound ==
  ASSUME Sound, NEW c \in Clients, TopUpDone(c)
  PROVE  Sound'
<1>1. RepSound /\ CliSound /\ RepSound' /\ CastGrows
  BY RepStutter DEF TopUpDone, Sound
<1> DEFINE id == BlockId(c, rebuild[c], 0, 1)
           lacking == Reps \ Issuers(perm[c])
<1>2. id \in Blocks
  <2>1. rebuild[c] \in 0..MaxRebuilds /\ 0 \in 0..Len(Plan) /\ 1 \in 0..(MaxRetries + 1)
    BY <1>1, BoundsAssumption, PlanAssumption DEF CliSound, CliTypeOK
  <2> QED BY <2>1, BlocksAssumption
<1>3. body[c] \in Bodies /\ WellFormed(body[c]) /\ lacking \in SUBSET Reps /\ "rperm" \in PCs
  BY <1>1 DEF CliSound, CliTypeOK, CliWellFormed, PCs
<1> HIDE DEF id, lacking
<1>4. CASE StartPerm(c, "rperm", body[c], lacking) /\ UNCHANGED faults
  BY <1>1, <1>3, <1>4, StartPermSound DEF Sound
<1>5. CASE /\ \E src \in Reps :
                StartPerm(c, "rperm", WithFee(body[c], id, chain[src][Payer]), lacking)
           /\ UNCHANGED faults
  <2>1. PICK src \in Reps : StartPerm(c, "rperm", WithFee(body[c], id, chain[src][Payer]), lacking)
    BY <1>5
  <2>2. chain[src][Payer] \in Chains
    BY <1>1, HeadsTyped, PlanAssumption
  <2>3. /\ WithFee(body[c], id, chain[src][Payer]) \in Bodies
        /\ WellFormed(WithFee(body[c], id, chain[src][Payer]))
    BY <2>2, <1>2, <1>3, WithFeeSound
  <2>4. CliSound'
    BY <2>1, <2>3, <1>1, <1>3, StartPermSound
  <2> QED BY <2>4, <1>1, <1>5 DEF Sound
<1>6. CASE Outcome("request_lost") /\ Stop(c, "failed")
  BY <1>6, LostSound DEF TopUpDone
<1> QED BY <1>4, <1>5, <1>6 DEF TopUpDone, id, lacking

\* The recovered staple is assembled (RecoverAssemble).
LEMMA RecoverAssembleSound ==
  ASSUME Sound, NEW c \in Clients, RecoverAssemble(c)
  PROVE  Sound'
<1>1. RepSound /\ CliSound /\ RepSound' /\ CastGrows /\ UNCHANGED faults
  BY RepStutter DEF RecoverAssemble, Sound
<1>2. CliSound'
  <2>1. CASE StartPublish(c, "rpublish")
    BY <2>1, <1>1, StartPublishSound DEF PCs
  <2>2. CASE Stop(c, "failed")
    BY <2>2, <1>1, StopSound DEF PCs
  <2> QED BY <2>1, <2>2 DEF RecoverAssemble
<1> QED BY <1>1, <1>2 DEF Sound

\* The recovery ends (RecoverDone).  A recovery is entered only with a
\* rebuild left, so this step needs the bound that RecoverBudget adds.
LEMMA RecoverDoneSound ==
  ASSUME Sound, NEW c \in Clients, RecoverDone(c), rebuild[c] < MaxRebuilds
  PROVE  Sound'
<1>1. RepSound /\ CliSound /\ RepSound' /\ CastGrows /\ UNCHANGED faults
  BY RepStutter DEF RecoverDone, Sound
<1>2. CliSound'
  <2>1. CASE /\ pc' = [pc EXCEPT ![c] = "build"]
             /\ rebuild' = [rebuild EXCEPT ![c] = @ + 1]
             /\ body' = [body EXCEPT ![c] = {}]
             /\ perm' = [perm EXCEPT ![c] = {}]
             /\ err'  = [err EXCEPT ![c] = NoError]
             /\ good' = [good EXCEPT ![c] = FALSE]
             /\ UNCHANGED <<part, prevs, wait, temp, seen, missing, attempt>>
    <3>1. CliTypeOK'
      <4>1. NoError \in Errors /\ "build" \in PCs
        BY DEF NoError, Errors, Codes, PCs
      <4> QED BY <2>1, <4>1, <1>1, BoundsAssumption DEF CliSound, CliTypeOK, Bodies
    <3>2. CliWellFormed'
      BY <2>1, <1>1 DEF CliSound, CliTypeOK, CliWellFormed, WellFormed
    <3>3. HeldVotesCast'
      <4>1. \A d \in Clients : \A v \in perm'[d] : v \in perm[d]
        BY <2>1, <1>1 DEF CliSound, CliTypeOK
      <4> QED BY <4>1, <1>1, HeldKept
    <3> QED BY <3>1, <3>2, <3>3 DEF CliSound
  <2>2. CASE Stop(c, "failed")
    BY <2>2, <1>1, StopSound DEF PCs
  <2> QED BY <2>1, <2>2 DEF RecoverDone
<1> QED BY <1>1, <1>2 DEF Sound

\* A client crashes (Crash).
LEMMA CrashSound ==
  ASSUME Sound, NEW c \in Clients, Crash(c)
  PROVE  Sound'
  BY LostSound DEF Crash

\* A temporary vote expires (VoteExpires).
LEMMA VoteExpiresSound ==
  ASSUME Sound, NEW r \in Reps, NEW a \in Accounts, VoteExpires(r, a)
  PROVE  Sound'
<1>1. RepSound /\ CliSound /\ RepSound' /\ CastGrows
  BY ExpireTempSound DEF VoteExpires, Sound
<1>2. UNCHANGED cliVars
  BY DEF VoteExpires
<1>3. CliTypeOK' /\ CliWellFormed'
  BY <1>1, <1>2 DEF CliSound, CliTypeOK, CliWellFormed, cliVars, WellFormed
<1>4. HeldVotesCast'
  BY <1>1, <1>2, HeldKept DEF cliVars
<1>5. faults' \in 0..MaxFaults
  BY OutcomeBounded DEF VoteExpires, Sound
<1> QED BY <1>1, <1>3, <1>4, <1>5 DEF Sound, CliSound

\* A step that changes nothing.
LEMMA StutterSound ==
  ASSUME Sound, UNCHANGED vars
  PROVE  Sound'
<1>1. UNCHANGED repVars /\ UNCHANGED cliVars /\ UNCHANGED faults
  BY DEF vars
<1>2. RepSound' /\ CastGrows
  BY <1>1, RepStutter DEF Sound
<1> QED BY <1>1, <1>2 DEF Sound, CliSound, CliTypeOK, CliWellFormed, HeldVotesCast, cliVars, WellFormed, repVars

\* A recovery is entered, and stays, with a rebuild left: every action keeps
\* RecoverBudget.
LEMMA BudgetKept ==
  ASSUME CliTypeOK, RecoverBudget, [Next]_vars
  PROVE  RecoverBudget'
<1> USE DEF RecoverBudget, Recovering, CliTypeOK
<1>1. ASSUME NEW c \in Clients, NEW r \in Reps,
             TempAnswer(c, r) \/ PermAnswer(c, r) \/ PublishAnswer(c, r)
               \/ PendingAnswer(c, r) \/ GatherVote(c, r)
      PROVE  RecoverBudget'
  BY <1>1 DEF TempAnswer, PermAnswer, PublishAnswer, PendingAnswer, GatherVote
<1>2. ASSUME NEW c \in Clients, NEW where \in {"done", "failed", "crashed"}, Stop(c, where)
      PROVE  RecoverBudget'
  BY <1>2 DEF Stop
<1>3. ASSUME NEW c \in Clients, NEW n, NEW i, NEW prev, StartRound(c, n, i, prev), UNCHANGED rebuild
      PROVE  RecoverBudget'
  BY <1>3 DEF StartRound
<1>4. ASSUME NEW c \in Clients, NEW code, RoundFailed(c, code)
      PROVE  RecoverBudget'
  <2>1. CASE Stop(c, "failed") BY <2>1, <1>2
  <2>2. CASE StartRound(c, rebuild[c], part[c], prevs[c][part[c]]) /\ UNCHANGED rebuild
    BY <2>2, <1>3
  <2>3. CASE Recoverable(c, code) /\ pc' = [pc EXCEPT ![c] = "pending"] /\ UNCHANGED rebuild
    BY <2>3 DEF Recoverable
  <2> QED BY <1>4, <2>1, <2>2, <2>3 DEF RoundFailed
<1>5. ASSUME NEW c \in Clients, Build(c) PROVE RecoverBudget'
  BY <1>5, <1>2, <1>3 DEF Build
<1>6. ASSUME NEW c \in Clients, TempDone(c) PROVE RecoverBudget'
  <2>1. CASE \E b, reps : StartPerm(c, "perm", b, reps)
    BY <2>1 DEF StartPerm
  <2> QED BY <1>6, <2>1, <1>2, <1>4 DEF TempDone
<1>7. ASSUME NEW c \in Clients, PermDone(c) \/ PublishDone(c) PROVE RecoverBudget'
  <2>1. CASE StartPublish(c, "publish")
    BY <2>1 DEF StartPublish
  <2> QED BY <1>7, <2>1, <1>2, <1>3, <1>4 DEF PermDone, PublishDone
<1>8. ASSUME NEW c \in Clients, PendingDone(c) PROVE RecoverBudget'
  BY <1>8, <1>2 DEF PendingDone
<1>9. ASSUME NEW c \in Clients, GatherDone(c) PROVE RecoverBudget'
  BY <1>9, <1>2 DEF GatherDone
<1>10. ASSUME NEW c \in Clients, TopUpDone(c) PROVE RecoverBudget'
  <2>1. CASE \E b, reps : StartPerm(c, "rperm", b, reps)
    BY <2>1, <1>10 DEF StartPerm, TopUpDone
  <2> QED BY <1>10, <2>1, <1>2 DEF TopUpDone
<1>11. ASSUME NEW c \in Clients, RecoverAssemble(c) PROVE RecoverBudget'
  BY <1>11, <1>2 DEF RecoverAssemble, StartPublish
<1>12. ASSUME NEW c \in Clients, RecoverDone(c) PROVE RecoverBudget'
  <2>1. CASE pc' = [pc EXCEPT ![c] = "build"] /\ rebuild' = [rebuild EXCEPT ![c] = @ + 1]
    <3>1. pc'[c] = "build" /\ \A d \in Clients \ {c} : pc'[d] = pc[d] /\ rebuild'[d] = rebuild[d]
      BY <2>1
    <3> QED BY <3>1
  <2> QED BY <1>12, <2>1, <1>2 DEF RecoverDone
<1>13. ASSUME NEW c \in Clients, Crash(c) PROVE RecoverBudget'
  BY <1>13, <1>2 DEF Crash
<1>14. CASE (\E r \in Reps, a \in Accounts : VoteExpires(r, a)) \/ UNCHANGED vars
  BY <1>14 DEF VoteExpires, cliVars, vars
<1> QED BY <1>1, <1>5, <1>6, <1>7, <1>8, <1>9, <1>10, <1>11, <1>12, <1>13, <1>14 DEF Next, ClientStep

-----------------------------------------------------------------------------
\* The inductive invariant holds initially ...
LEMMA InitSound == Init => IInv
<1> SUFFICES ASSUME Init PROVE IInv
  OBVIOUS
<1>1. RepTypeOK
  BY DEF Init, RepInit, RepTypeOK, Chains, Bodies
<1>2. CliTypeOK
  <2>1. NoError \in Errors /\ << >> \in Chains /\ 0 \in 0..MaxRetries /\ 0 \in 0..MaxRebuilds /\ 1 \in 1..Len(Plan)
    BY BoundsAssumption, PlanAssumption DEF NoError, Errors, Codes, Chains
  <2> QED BY <2>1 DEF Init, CliTypeOK, PCs, Bodies
<1>3. TypeOK
  BY <1>1, <1>2, BoundsAssumption DEF TypeOK, Init
<1>4. BodiesWellFormed /\ OneVotePerHeight /\ VotesBelowHead /\ HeldVotesCast /\ RecoverBudget
  BY DEF Init, RepInit, BodiesWellFormed, WellFormed, OneVotePerHeight, VotesBelowHead,
         HeldVotesCast, RecoverBudget, Recovering
<1>5. EntriesBacked
  BY DEF Init, RepInit, EntriesBacked
<1> QED BY <1>3, <1>4, <1>5 DEF IInv

\* ... and every step preserves it.
LEMMA StepSound == IInv /\ [Next]_vars => IInv'
<1> SUFFICES ASSUME IInv, [Next]_vars PROVE Sound' /\ RecoverBudget'
  <2>1. Sound' /\ RecoverBudget' => IInv'
    BY DEF IInv, Sound, RepSound, CliSound, TypeOK, BodiesWellFormed, RepWellFormed, CliWellFormed
  <2> QED BY <2>1
<1>1. Sound /\ RecoverBudget
  BY IInvSplit
<1>2. RecoverBudget'
  BY <1>1, BudgetKept DEF Sound, CliSound
<1>3. ASSUME NEW c \in Clients, ClientStep(c) PROVE Sound'
  <2>1. RecoverDone(c) => rebuild[c] < MaxRebuilds
    BY <1>1 DEF RecoverDone, RecoverBudget, Recovering
  <2>2. ASSUME NEW r \in Reps,
               TempAnswer(c, r) \/ PermAnswer(c, r) \/ PublishAnswer(c, r)
                 \/ PendingAnswer(c, r) \/ GatherVote(c, r)
        PROVE  Sound'
    BY <2>2, <1>1, TempAnswerSound, PermAnswerSound, PublishAnswerSound,
       PendingAnswerSound, GatherVoteSound
  <2> QED BY <1>1, <1>3, <2>1, <2>2, BuildSound, TempDoneSound, PermDoneSound, PublishDoneSound,
             PendingDoneSound, GatherDoneSound, TopUpDoneSound, RecoverAssembleSound, RecoverDoneSound
          DEF ClientStep
<1>4. ASSUME NEW c \in Clients, Crash(c) PROVE Sound'
  BY <1>1, <1>4, CrashSound
<1>5. ASSUME NEW r \in Reps, NEW a \in Accounts, VoteExpires(r, a) PROVE Sound'
  BY <1>1, <1>5, VoteExpiresSound
<1>6. CASE UNCHANGED vars
  BY <1>1, <1>2, <1>6, StutterSound
<1>7. Sound'
  BY <1>3, <1>4, <1>5, <1>6 DEF Next
<1> QED BY <1>2, <1>7

\* Every reachable state satisfies the inductive invariant.
THEOREM InductiveInvariant == Spec => []IInv
<1> QED BY InitSound, StepSound, PTL DEF Spec

\* Type correctness of the write path and of the ledgers it talks to.
THEOREM TypeCorrect == Spec => []TypeOK
<1>1. IInv => TypeOK
  BY DEF IInv
<1> QED BY <1>1, InductiveInvariant, PTL

\* The inductive invariant implies agreement: both entries are backed by a
\* quorum, the quorums share a representative, and that one cast a single
\* permanent vote for the height.
LEMMA AgreementInv == IInv => Agreement
<1> SUFFICES ASSUME IInv, NEW r1 \in Reps, NEW r2 \in Reps, NEW a \in Accounts,
                    NEW n \in 1..Len(chain[r1][a]), n <= Len(chain[r2][a])
             PROVE  chain[r1][a][n] = chain[r2][a][n]
  BY DEF Agreement
<1>1. n \in 1..Len(chain[r2][a])
  <2>1. Len(chain[r2][a]) \in Nat
    BY DEF IInv, TypeOK, RepTypeOK, Chains
  <2> QED BY <2>1
<1>2. Backed(r1, a, n) /\ Backed(r2, a, n)
  BY <1>1 DEF IInv, EntriesBacked
<1>3. PICK Q1 \in Quorums : \A v \in Q1 : \E b \in cast[v] : \E p \in b :
        p.acct = a /\ Len(p.prev) + 1 = n /\ p.ids = chain[r1][a][n]
  BY <1>2 DEF Backed
<1>4. PICK Q2 \in Quorums : \A v \in Q2 : \E b \in cast[v] : \E p \in b :
        p.acct = a /\ Len(p.prev) + 1 = n /\ p.ids = chain[r2][a][n]
  BY <1>2 DEF Backed
<1>5. PICK v \in Q1 \cap Q2 : v \in Reps
  BY QuorumAssumption
<1>6. PICK b1 \in cast[v] : \E p \in b1 :
        p.acct = a /\ Len(p.prev) + 1 = n /\ p.ids = chain[r1][a][n]
  BY <1>3, <1>5
<1>7. PICK p1 \in b1 : p1.acct = a /\ Len(p1.prev) + 1 = n /\ p1.ids = chain[r1][a][n]
  BY <1>6
<1>8. PICK b2 \in cast[v] : \E p \in b2 :
        p.acct = a /\ Len(p.prev) + 1 = n /\ p.ids = chain[r2][a][n]
  BY <1>4, <1>5
<1>9. PICK p2 \in b2 : p2.acct = a /\ Len(p2.prev) + 1 = n /\ p2.ids = chain[r2][a][n]
  BY <1>8
<1>10. Len(p1.prev) \in Nat /\ Len(p2.prev) \in Nat
  <2>1. p1 \in Parts /\ p2 \in Parts
    BY <1>5, <1>6, <1>8 DEF IInv, TypeOK, RepTypeOK, Bodies
  <2> QED BY <2>1 DEF Parts, Chains
<1>11. p1 = p2
  BY <1>5, <1>7, <1>9, <1>10 DEF IInv, OneVotePerHeight
<1> QED BY <1>7, <1>9, <1>11

\* No two representatives commit different blocks at one height of an account:
\* a consequence of the nodes' rules alone, which SyncAccount assumes.
LEMMA AgreementHolds == Spec => []Agreement
<1> QED BY AgreementInv, InductiveInvariant, PTL

-----------------------------------------------------------------------------
(***************************************************************************)
(* The write path: SelfTempHeld, AcceptedIsCommitted, PartsInOrder, the    *)
(* recovery's RecoversOneBlock and RerendersAfterRecovery and the          *)
(* refinement ImplementsWriteCalls, for every value of the constants.      *)
(*                                                                         *)
(* The idea is to follow the place of every block.  A place says in which  *)
(* account, after which chain and at which position a block stands in some *)
(* vote or round.  Ledgers hold only what votes back (EntriesBacked), so a *)
(* block with one place is committed at one height, and what holds of the  *)
(* blocks that have a place holds of the committed ones.  RoundInv is what *)
(* a call knows of its own round, PlaceInv what holds of all places.       *)
(***************************************************************************)

EndedPCs == {"done", "failed", "crashed"}
InRound  == {"temp", "perm", "publish"}

\* Every set of blocks some vote covers or some client works on.
RepKnown == {tvote[r][a] : r \in Reps, a \in Accounts}
            \cup {pvote[r][a] : r \in Reps, a \in Accounts}
            \cup UNION {cast[r] : r \in Reps}
CliKnown == {body[c] : c \in Clients}
            \cup UNION {{v.body : v \in temp[c] \cup perm[c]} : c \in Clients}
Known == RepKnown \cup CliKnown

Place(id, a, prev, k) == [id |-> id, acct |-> a, prev |-> prev, at |-> k]
PlacesOf(b) == UNION {{Place(p.ids[k], p.acct, p.prev, k) : k \in 1..Len(p.ids)} : p \in b}
Places == UNION {PlacesOf(b) : b \in Known}

-----------------------------------------------------------------------------
(* What a call knows of its own round.                                     *)

\* In the temporary round every vote is for the body; in the permanent one the
\* body covers every temporary vote, and only their issuers are contacted.
TempFits(c) ==
  /\ pc[c] = "temp" => \A v \in temp[c] : v.body = body[c]
  /\ pc[c] = "perm" => /\ \A v \in temp[c] : Covers(body[c], v.body)
                       /\ wait[c] \subseteq Issuers(temp[c])

\* `b' holds block i of rendering n of the call of c, first in its account.
Carries(b, c, n, i) ==
  \E p \in b : p.acct = Plan[i] /\ p.ids # << >> /\ p.ids[1] = BlockId(c, n, i, 0)
BodyMine(c) == pc[c] \in InRound => Carries(body[c], c, rebuild[c], part[c])

Landed(c, n, i) == \E r \in Reps : Holds(r, c, n, i)

\* The blocks before the current one are committed, and the current one too
\* once some answer to its publish was a success.
Progress(c) ==
  /\ pc[c] \in InRound => \A j \in 1..(part[c] - 1) : Landed(c, rebuild[c], j)
  /\ pc[c] = "publish" /\ good[c] => Landed(c, rebuild[c], part[c])
  /\ pc[c] = "done" => \A j \in 1..Len(Plan) : Landed(c, rebuild[c], j)

RoundInv == \A c \in Clients : TempFits(c) /\ BodyMine(c) /\ Progress(c)

-----------------------------------------------------------------------------
\* The call of c may have rendered block (n, i, f) already.
Minted(c, n, i, f) ==
  \/ n < rebuild[c]
  \/ /\ n = rebuild[c] /\ pc[c] # "build"
     /\ \/ i = 0 /\ pc[c] \in {"rperm", "rpublish"}
        \/ i > 0 /\ f = 0
        \/ i > 0 /\ pc[c] \in Recovering
        \/ i > 0 /\ i < part[c]
        \/ i > 0 /\ i = part[c] /\ f < attempt[c] + 1
        \/ i > 0 /\ i = part[c] /\ f = attempt[c] + 1 /\ pc[c] # "temp"
        \/ pc[c] \in EndedPCs

\* No block is anywhere before its writer rendered it.
OnlyMinted ==
  \A x \in Places, c \in Clients, n \in 0..MaxRebuilds, i \in 0..Len(Plan), f \in 0..(MaxRetries + 1) :
    x.id = BlockId(c, n, i, f) => Minted(c, n, i, f)

\* A block of the current rendering stands where its call would put it again.
PlanPlaced ==
  \A x \in Places, c \in Clients, i \in 1..Len(Plan) :
    (x.id = BlockId(c, rebuild[c], i, 0) /\ pc[c] \notin EndedPCs) =>
       x = Place(x.id, Plan[i], prevs[c][i], 1)

\* A block has one place.
OnePlace == \A x, y \in Places : x.id = y.id => x = y

\* A block of the plan appears only when the ones before it are committed.
Released ==
  \A x \in Places, c \in Clients, n \in 0..MaxRebuilds, i \in 1..Len(Plan) :
    x.id = BlockId(c, n, i, 0) => \A j \in 1..(i - 1) : Landed(c, n, j)

PlaceInv == OnlyMinted /\ PlanPlaced /\ OnePlace /\ Released

-----------------------------------------------------------------------------
(* Places.                                                                 *)

\* A place is that of a block of a known body.
LEMMA PlaceIn ==
  /\ \A b, x : x \in PlacesOf(b) <=>
       \E p \in b : \E k \in 1..Len(p.ids) : x = Place(p.ids[k], p.acct, p.prev, k)
  /\ \A x : x \in Places <=> \E b \in Known : x \in PlacesOf(b)
  BY DEF PlacesOf, Places

\* Places of a step's bodies that were known, are empty, or are `b'.
LEMMA PlacesStep ==
  ASSUME NEW b, Known' \subseteq Known \cup {{}, b}
  PROVE  Places' \subseteq Places \cup PlacesOf(b)
<1>1. PlacesOf({}) = {}
  BY DEF PlacesOf
<1>2. Places' = UNION {PlacesOf(e) : e \in Known'}
  BY DEF Places, PlacesOf, Place
<1> QED BY <1>1, <1>2 DEF Places

\* A rendered block of the plan has the place its call gives it (PlanBody).
LEMMA PlanBodyPlaces ==
  ASSUME NEW c, NEW n, NEW i, NEW prev
  PROVE  PlacesOf(PlanBody(c, n, i, prev)) = {Place(BlockId(c, n, i, 0), Plan[i], prev, 1)}
<1> DEFINE p == [acct |-> Plan[i], prev |-> prev, ids |-> <<BlockId(c, n, i, 0)>>]
<1>1. PlanBody(c, n, i, prev) = {p}
  BY DEF PlanBody
<1>2. p.acct = Plan[i] /\ p.prev = prev /\ 1..Len(p.ids) = {1} /\ p.ids[1] = BlockId(c, n, i, 0)
  OBVIOUS
<1> HIDE DEF p
<1> QED BY <1>1, <1>2, PlaceIn

\* A fee block adds one place to those of the body it joins (WithFee).
LEMMA WithFeePlaces ==
  ASSUME NEW b \in Bodies, WellFormed(b), NEW id, NEW head
  PROVE  \E prev, k : PlacesOf(WithFee(b, id, head)) \subseteq PlacesOf(b) \cup {Place(id, Payer, prev, k)}
<1>1. \A p \in b : p \in [acct : Accounts, prev : Chains, ids : Seq(Blocks)]
  BY DEF Bodies, Parts
<1>2. CASE Payer \in AcctsOf(b)
  <2> DEFINE Paid(p) == IF p.acct = Payer THEN [p EXCEPT !.ids = Append(@, id)] ELSE p
  <2>1. WithFee(b, id, head) = {Paid(p) : p \in b}
    BY <1>2 DEF WithFee
  <2>2. PICK p0 \in b : p0.acct = Payer
    BY <1>2 DEF AcctsOf
  <2>3. \A p \in b : p.acct = Payer => p = p0
    BY <2>2 DEF WellFormed
  <2> DEFINE y == Place(id, Payer, p0.prev, Len(p0.ids) + 1)
  <2>4. ASSUME NEW x \in PlacesOf(WithFee(b, id, head)) PROVE x \in PlacesOf(b) \cup {y}
    <3>0. PICK e \in WithFee(b, id, head) : \E k \in 1..Len(e.ids) :
             x = Place(e.ids[k], e.acct, e.prev, k)
      BY <2>4, PlaceIn
    <3> PICK p \in b : e = Paid(p)
      BY <2>1
    <3>1. PICK k \in 1..Len(Paid(p).ids) :
             x = Place(Paid(p).ids[k], Paid(p).acct, Paid(p).prev, k)
      BY <3>0
    <3>2. CASE p.acct # Payer
      BY <3>1, <3>2, PlaceIn
    <3>3. CASE p.acct = Payer
      <4>1. p = p0
        BY <2>3, <3>3
      <4>2. /\ Paid(p).acct = Payer /\ Paid(p).prev = p0.prev
            /\ Paid(p).ids = Append(p0.ids, id) /\ p0.ids \in Seq(Blocks)
        BY <3>3, <4>1, <1>1
      <4>3. k \in 1..(Len(p0.ids) + 1) /\ Append(p0.ids, id)[k] = IF k = Len(p0.ids) + 1 THEN id ELSE p0.ids[k]
        BY <3>1, <4>2
      <4>4. CASE k = Len(p0.ids) + 1
        BY <3>1, <4>2, <4>3, <4>4
      <4>5. CASE k # Len(p0.ids) + 1
        <5>1. k \in 1..Len(p0.ids)
          BY <4>2, <4>3, <4>5
        <5>2. x = Place(p0.ids[k], p0.acct, p0.prev, k)
          BY <3>1, <4>2, <4>3, <4>5, <2>2
        <5> QED BY <5>1, <5>2, PlaceIn
      <4> QED BY <4>4, <4>5
    <3> QED BY <3>2, <3>3
  <2> QED BY <2>4
<1>3. CASE Payer \notin AcctsOf(b)
  <2> DEFINE fee == [acct |-> Payer, prev |-> head, ids |-> <<id>>]
  <2>1. WithFee(b, id, head) = b \cup {fee}
    BY <1>3 DEF WithFee
  <2>2. fee.acct = Payer /\ fee.prev = head /\ 1..Len(fee.ids) = {1} /\ fee.ids[1] = id
    OBVIOUS
  <2> HIDE DEF fee
  <2>3. PlacesOf(WithFee(b, id, head)) \subseteq PlacesOf(b) \cup {Place(id, Payer, head, 1)}
    BY <2>1, <2>2, PlaceIn
  <2> QED BY <2>3
<1> QED BY <1>2, <1>3

-----------------------------------------------------------------------------
(* Ledgers only grow.                                                      *)

ChainGrows ==
  \A r \in Reps, a \in Accounts :
    /\ Len(chain[r][a]) <= Len(chain'[r][a])
    /\ \A n \in 1..Len(chain[r][a]) : chain'[r][a][n] = chain[r][a][n]

\* What a representative's ledgers become when it commits `b' (Commit).
LEMMA CommitChain ==
  ASSUME RepTypeOK, NEW r \in Reps, NEW b \in Bodies, WellFormed(b), Commit(r, b)
  PROVE  /\ \A v \in Reps, a \in Accounts :
               ~(v = r /\ a \in AcctsOf(b)) => chain'[v][a] = chain[v][a]
         /\ \A p \in b : /\ p.acct \in Accounts /\ p.ids \in Seq(Blocks)
                         /\ chain'[r][p.acct] = Append(chain[r][p.acct], p.ids)
<1>1. /\ chain \in [Reps -> [Accounts -> Chains]]
      /\ chain' = [chain EXCEPT ![r] =
                     [a \in Accounts |->
                        IF a \in AcctsOf(b)
                          THEN Append(@[a], (CHOOSE p \in b : p.acct = a).ids)
                          ELSE @[a]]]
  BY DEF RepTypeOK, Commit
<1>2. ASSUME NEW p \in b PROVE p.acct \in Accounts /\ p.ids \in Seq(Blocks)
  BY <1>2 DEF Bodies, Parts
<1>3. \A v \in Reps, a \in Accounts :
        ~(v = r /\ a \in AcctsOf(b)) => chain'[v][a] = chain[v][a]
  BY <1>1
<1>4. ASSUME NEW p \in b PROVE chain'[r][p.acct] = Append(chain[r][p.acct], p.ids)
  <2>1. p.acct \in Accounts /\ p.acct \in AcctsOf(b)
    BY <1>2 DEF AcctsOf
  <2>2. (CHOOSE q \in b : q.acct = p.acct) = p
    BY DEF WellFormed
  <2>3. chain'[r][p.acct] = Append(chain[r][p.acct], (CHOOSE q \in b : q.acct = p.acct).ids)
    BY <1>1, <2>1
  <2> QED BY <2>2, <2>3
<1> QED BY <1>2, <1>3, <1>4

\* Committing a staple only adds to the ledgers.
LEMMA CommitGrows ==
  ASSUME RepTypeOK, NEW r \in Reps, NEW b \in Bodies, WellFormed(b), Commit(r, b)
  PROVE  ChainGrows
<1> SUFFICES ASSUME NEW v \in Reps, NEW a \in Accounts
             PROVE  /\ Len(chain[v][a]) <= Len(chain'[v][a])
                    /\ \A n \in 1..Len(chain[v][a]) : chain'[v][a][n] = chain[v][a][n]
  BY DEF ChainGrows
<1>1. chain[v][a] \in Seq(Seq(Blocks)) /\ Len(chain[v][a]) \in Nat
  BY DEF RepTypeOK, Chains
<1>2. CASE v = r /\ a \in AcctsOf(b)
  <2>1. PICK p \in b : p.acct = a
    BY <1>2 DEF AcctsOf
  <2>2. chain'[v][a] = Append(chain[v][a], p.ids) /\ p.ids \in Seq(Blocks)
    BY <1>2, <2>1, CommitChain
  <2> QED BY <1>1, <2>2, AppendFacts
<1>3. CASE ~(v = r /\ a \in AcctsOf(b))
  BY <1>1, <1>3, CommitChain
<1> QED BY <1>2, <1>3

\* Ledgers change only where a publish succeeds: on a representative whose heads
\* the staple extends (PublishAnswer).
LEMMA CommitOnly ==
  ASSUME Sound, [Next]_vars, chain' # chain
  PROVE  \E c \in Clients : \E r \in Reps :
           /\ body[c] \in Bodies /\ WellFormed(body[c])
           /\ Commit(r, body[c]) /\ Successor(r, body[c]) /\ UNCHANGED <<pc, rebuild>>
<1>1. ASSUME NEW c \in Clients, NEW r \in Reps, PublishAnswer(c, r)
      PROVE  /\ body[c] \in Bodies /\ WellFormed(body[c])
             /\ Commit(r, body[c]) /\ Successor(r, body[c]) /\ UNCHANGED <<pc, rebuild>>
  <2>1. PublishReply(r, body[c], perm[c]) = "ok" /\ Commit(r, body[c]) /\ UNCHANGED <<pc, rebuild>>
    BY <1>1 DEF PublishAnswer, repVars
  <2>2. body[c] \in Bodies /\ WellFormed(body[c])
    BY VoteTyped DEF Sound
  <2> QED BY <2>1, <2>2 DEF PublishReply
<1>2. ASSUME NEW c \in Clients, NEW r \in Reps,
             TempAnswer(c, r) \/ PermAnswer(c, r) \/ PendingAnswer(c, r) \/ GatherVote(c, r)
      PROVE  chain' = chain
  BY <1>2 DEF TempAnswer, PermAnswer, PendingAnswer, GatherVote, GiveTemp, GivePerm, repVars
<1>3. ASSUME NEW c \in Clients,
             Build(c) \/ TempDone(c) \/ PermDone(c) \/ PublishDone(c) \/ PendingDone(c)
               \/ GatherDone(c) \/ TopUpDone(c) \/ RecoverAssemble(c) \/ RecoverDone(c) \/ Crash(c)
      PROVE  chain' = chain
  BY <1>3 DEF Build, TempDone, PermDone, PublishDone, PendingDone, GatherDone, TopUpDone,
              RecoverAssemble, RecoverDone, Crash, repVars
<1>4. ASSUME (\E r \in Reps, a \in Accounts : VoteExpires(r, a)) \/ UNCHANGED vars
      PROVE  chain' = chain
  BY <1>4 DEF VoteExpires, ExpireTemp, vars, repVars
<1> QED BY <1>1, <1>2, <1>3, <1>4 DEF Next, ClientStep

\* Every step only adds to the ledgers.
LEMMA ChainStep ==
  ASSUME Sound, [Next]_vars
  PROVE  ChainGrows
<1>1. CASE chain' = chain
  BY <1>1 DEF ChainGrows, Sound, RepSound, RepTypeOK, Chains
<1>2. CASE chain' # chain
  BY <1>2, CommitOnly, CommitGrows DEF Sound, RepSound
<1> QED BY <1>1, <1>2

\* A committed block stays committed.
LEMMA LandedStays ==
  ASSUME RepTypeOK, RepTypeOK', ChainGrows, NEW c, NEW n, NEW i \in 1..Len(Plan), Landed(c, n, i)
  PROVE  Landed(c, n, i)'
<1>1. Plan[i] \in Accounts
  BY PlanAssumption
<1>2. PICK r \in Reps : \E m \in 1..Len(chain[r][Plan[i]]) :
        \E k \in 1..Len(chain[r][Plan[i]][m]) : chain[r][Plan[i]][m][k] = BlockId(c, n, i, 0)
  BY DEF Landed, Holds, OnMain
<1>3. PICK m \in 1..Len(chain[r][Plan[i]]) :
        \E k \in 1..Len(chain[r][Plan[i]][m]) : chain[r][Plan[i]][m][k] = BlockId(c, n, i, 0)
  BY <1>2
<1>4. Len(chain[r][Plan[i]]) \in Nat /\ Len(chain'[r][Plan[i]]) \in Nat
  BY <1>1 DEF RepTypeOK, Chains
<1>5. chain'[r][Plan[i]][m] = chain[r][Plan[i]][m] /\ m \in 1..Len(chain'[r][Plan[i]])
  BY <1>1, <1>3, <1>4 DEF ChainGrows
<1> QED BY <1>3, <1>5 DEF Landed, Holds, OnMain

-----------------------------------------------------------------------------
(* The round of a call.                                                    *)

\* A body covers itself, and with a fee block it covers the body without it
\* and still carries what that carried (WithFee).
LEMMA FeeCovers ==
  ASSUME NEW b \in Bodies, NEW id \in Blocks, NEW head
  PROVE  /\ Covers(b, b) /\ Covers(WithFee(b, id, head), b)
         /\ \A c, n, i : Carries(b, c, n, i) => Carries(WithFee(b, id, head), c, n, i)
<1>1. \A p \in b : p \in [acct : Accounts, prev : Chains, ids : Seq(Blocks)] /\ Len(p.ids) \in Nat
  BY DEF Bodies, Parts
<1>2. Covers(b, b)
  BY <1>1 DEF Covers
<1>3. \A p \in b : \E q \in WithFee(b, id, head) :
        /\ q.acct = p.acct /\ q.prev = p.prev /\ Len(p.ids) <= Len(q.ids)
        /\ \A k \in 1..Len(p.ids) : q.ids[k] = p.ids[k]
        /\ p.ids # << >> => q.ids # << >>
  <2> SUFFICES ASSUME NEW p \in b
               PROVE  \E q \in WithFee(b, id, head) :
                        /\ q.acct = p.acct /\ q.prev = p.prev /\ Len(p.ids) <= Len(q.ids)
                        /\ \A k \in 1..Len(p.ids) : q.ids[k] = p.ids[k]
                        /\ p.ids # << >> => q.ids # << >>
    OBVIOUS
  <2>1. CASE p \in WithFee(b, id, head)
    BY <1>1, <2>1
  <2>2. CASE p \notin WithFee(b, id, head)
    <3> DEFINE q == [p EXCEPT !.ids = Append(@, id)]
    <3>1. q \in WithFee(b, id, head)
      BY <2>2 DEF WithFee
    <3>2. q.acct = p.acct /\ q.prev = p.prev /\ q.ids = Append(p.ids, id) /\ p.ids \in Seq(Blocks)
      BY <1>1
    <3> HIDE DEF q
    <3>3. Len(p.ids) <= Len(q.ids) /\ (\A k \in 1..Len(p.ids) : q.ids[k] = p.ids[k]) /\ q.ids # << >>
      <4>1. \A t \in Seq(Blocks) : /\ Len(Append(t, id)) = Len(t) + 1 /\ Len(t) \in Nat
                                   /\ \A k \in 1..Len(t) : Append(t, id)[k] = t[k]
        OBVIOUS
      <4>2. \A t \in Seq(Blocks) : Append(t, id) # << >>
        <5>1. Len(<< >>) = 0
          OBVIOUS
        <5> QED BY <4>1, <5>1
      <4> QED BY <3>2, <4>1, <4>2
    <3> QED BY <3>1, <3>2, <3>3
  <2> QED BY <2>1, <2>2
<1>4. Covers(WithFee(b, id, head), b)
  BY <1>3 DEF Covers
<1>5. \A p \in b : p.ids # << >> => 1 \in 1..Len(p.ids)
  BY <1>1
<1>6. \A c, n, i : Carries(b, c, n, i) => Carries(WithFee(b, id, head), c, n, i)
  BY <1>3, <1>5 DEF Carries
<1> QED BY <1>2, <1>4, <1>6

\* A call whose step is another's keeps what it knows: ledgers only grow.
LEMMA RoundFrame ==
  ASSUME RepTypeOK, RepTypeOK', CliTypeOK, ChainGrows, NEW d \in Clients,
         TempFits(d), BodyMine(d), Progress(d),
         pc'[d] = pc[d], part'[d] = part[d], body'[d] = body[d], temp'[d] = temp[d],
         wait'[d] \subseteq wait[d], good'[d] = good[d], rebuild'[d] = rebuild[d]
  PROVE  TempFits(d)' /\ BodyMine(d)' /\ Progress(d)'
<1>1. TempFits(d)'
  BY DEF TempFits, Covers, Issuers
<1>2. BodyMine(d)'
  BY DEF BodyMine, Carries, BlockId
<1>3. part[d] \in 1..Len(Plan) /\ Len(Plan) \in Nat
  BY PlanAssumption DEF CliTypeOK
<1>4. \A n, j : j \in 1..Len(Plan) /\ Landed(d, n, j) => Landed(d, n, j)'
  BY LandedStays
<1>5. \A j \in 1..(part[d] - 1) : j \in 1..Len(Plan)
  BY <1>3
<1>6. /\ pc'[d] \in InRound => \A j \in 1..(part'[d] - 1) : Landed(d, rebuild[d], j)'
      /\ pc'[d] = "publish" /\ good'[d] => Landed(d, rebuild[d], part[d])'
      /\ pc'[d] = "done" => \A j \in 1..Len(Plan) : Landed(d, rebuild[d], j)'
  BY <1>3, <1>4, <1>5 DEF Progress
<1>7. \A j : Landed(d, rebuild[d], j)' <=> \E r \in Reps : \E n \in 1..Len(chain'[r][Plan[j]]) :
         \E k \in 1..Len(chain'[r][Plan[j]][n]) : chain'[r][Plan[j]][n][k] = BlockId(d, rebuild'[d], j, 0)
  BY DEF Landed, Holds, OnMain, BlockId
<1>8. Progress(d)'
  BY <1>6, <1>7 DEF Progress, Landed, Holds, OnMain
<1> QED BY <1>1, <1>2, <1>8

\* Entering a round for block i of the plan, with those before it committed.
LEMMA StartRoundKnows ==
  ASSUME CliTypeOK, NEW c \in Clients, NEW i \in 1..Len(Plan), NEW prev,
         StartRound(c, rebuild[c], i, prev), rebuild' = rebuild,
         \A j \in 1..(i - 1) : \E r \in Reps : OnMain(r, Plan[j], BlockId(c, rebuild[c], j, 0))'
  PROVE  TempFits(c)' /\ BodyMine(c)' /\ Progress(c)'
<1>1. /\ pc'[c] = "temp" /\ part'[c] = i /\ temp'[c] = {} /\ good'[c] = FALSE
      /\ body'[c] = PlanBody(c, rebuild[c], i, prev) /\ rebuild'[c] = rebuild[c]
  BY DEF StartRound, CliTypeOK
<1>2. TempFits(c)'
  BY <1>1 DEF TempFits
<1>3. BodyMine(c)'
  <2> DEFINE p == [acct |-> Plan[i], prev |-> prev, ids |-> <<BlockId(c, rebuild[c], i, 0)>>]
  <2>1. body'[c] = {p} /\ p.acct = Plan[i] /\ p.ids # << >> /\ p.ids[1] = BlockId(c, rebuild[c], i, 0)
    BY <1>1 DEF PlanBody
  <2> HIDE DEF p
  <2> QED BY <1>1, <2>1 DEF BodyMine, Carries, BlockId
<1>4. Progress(c)'
  BY <1>1 DEF Progress, Landed, Holds, BlockId
<1> QED BY <1>2, <1>3, <1>4

\* Outside of a round there is nothing to know.
LEMMA IdleKnows ==
  ASSUME NEW c \in Clients, pc'[c] \notin InRound \cup {"done"}
  PROVE  TempFits(c)' /\ BodyMine(c)' /\ Progress(c)'
  BY DEF TempFits, BodyMine, Progress, InRound

\* The client variables a step of c leaves alone for the others.
Others(c) ==
  \A d \in Clients \ {c} :
    /\ pc'[d] = pc[d] /\ part'[d] = part[d] /\ prevs'[d] = prevs[d] /\ body'[d] = body[d]
    /\ wait'[d] = wait[d] /\ temp'[d] = temp[d] /\ perm'[d] = perm[d]
    /\ good'[d] = good[d] /\ attempt'[d] = attempt[d] /\ rebuild'[d] = rebuild[d]
    /\ seen'[d] = seen[d]

\* A call changes its own locals only.
LEMMA OwnLocals ==
  ASSUME CliTypeOK, NEW c \in Clients, ClientStep(c) \/ Crash(c)
  PROVE  Others(c)
<1> USE DEF CliTypeOK, Others
<1>1. ASSUME NEW where, Stop(c, where) PROVE Others(c)
  BY <1>1 DEF Stop
<1>2. ASSUME NEW n, NEW i, NEW prev, StartRound(c, n, i, prev),
             \A d \in Clients \ {c} : prevs'[d] = prevs[d] /\ attempt'[d] = attempt[d],
             UNCHANGED <<seen, rebuild>>
      PROVE  Others(c)
  BY <1>2 DEF StartRound
<1>3. ASSUME NEW where, NEW b, NEW reps, StartPerm(c, where, b, reps) PROVE Others(c)
  BY <1>3 DEF StartPerm
<1>4. ASSUME NEW where, StartPublish(c, where) PROVE Others(c)
  BY <1>4 DEF StartPublish
<1>5. ASSUME NEW code, RoundFailed(c, code) PROVE Others(c)
  <2>1. CASE Stop(c, "failed") BY <2>1, <1>1
  <2>2. CASE /\ attempt' = [attempt EXCEPT ![c] = @ + 1]
             /\ StartRound(c, rebuild[c], part[c], prevs[c][part[c]])
             /\ UNCHANGED <<prevs, seen, missing, rebuild>>
    <3>1. \A d \in Clients \ {c} : prevs'[d] = prevs[d] /\ attempt'[d] = attempt[d]
      BY <2>2
    <3> QED BY <2>2, <3>1 DEF StartRound
  <2>3. CASE ~Retryable(c, code) /\ Recoverable(c, code)
    BY <1>5, <2>3 DEF RoundFailed
  <2> QED BY <1>5, <2>1, <2>2, <2>3 DEF RoundFailed
<1>6. ASSUME NEW r \in Reps,
             TempAnswer(c, r) \/ PermAnswer(c, r) \/ PublishAnswer(c, r)
               \/ PendingAnswer(c, r) \/ GatherVote(c, r)
      PROVE  Others(c)
  <2>1. CASE TempAnswer(c, r)
    BY <2>1 DEF TempAnswer
  <2>2. CASE PermAnswer(c, r)
    BY <2>2 DEF PermAnswer
  <2>3. CASE PublishAnswer(c, r)
    BY <2>3 DEF PublishAnswer
  <2>4. CASE PendingAnswer(c, r)
    BY <2>4 DEF PendingAnswer
  <2>5. CASE GatherVote(c, r)
    BY <2>5 DEF GatherVote
  <2> QED BY <1>6, <2>1, <2>2, <2>3, <2>4, <2>5
<1>7. CASE Build(c)
  <2>1. CASE Stop(c, "failed") BY <2>1, <1>1
  <2>2. CASE ~Stop(c, "failed")
    BY <1>7, <2>2 DEF Build, StartRound
  <2> QED BY <2>1, <2>2
<1>8. CASE TempDone(c)
  BY <1>8, <1>1, <1>3, <1>5 DEF TempDone
<1>9. CASE PermDone(c)
  BY <1>9, <1>1, <1>4, <1>5 DEF PermDone
<1>10. CASE PublishDone(c)
  <2>1. CASE /\ StartRound(c, rebuild[c], part[c] + 1, prevs[c][part[c] + 1])
             /\ attempt' = [attempt EXCEPT ![c] = 0]
             /\ UNCHANGED <<prevs, seen, missing, rebuild>>
    BY <2>1 DEF StartRound
  <2> QED BY <1>10, <2>1, <1>1, <1>5 DEF PublishDone
<1>11. CASE PendingDone(c)
  BY <1>11, <1>1 DEF PendingDone
<1>12. CASE GatherDone(c)
  BY <1>12, <1>1 DEF GatherDone
<1>13. CASE TopUpDone(c)
  BY <1>13, <1>1, <1>3 DEF TopUpDone
<1>14. CASE RecoverAssemble(c)
  BY <1>14, <1>1, <1>4 DEF RecoverAssemble
<1>15. CASE RecoverDone(c)
  BY <1>15, <1>1 DEF RecoverDone
<1>16. CASE Crash(c)
  BY <1>16, <1>1 DEF Crash
<1> QED BY <1>6, <1>7, <1>8, <1>9, <1>10, <1>11, <1>12, <1>13, <1>14, <1>15, <1>16 DEF ClientStep

\* The blocks committed before a step are committed after it.
LEMMA BeforeStay ==
  ASSUME RepTypeOK, RepTypeOK', ChainGrows, NEW c, NEW n, NEW i \in 1..(Len(Plan) + 1),
         \A j \in 1..(i - 1) : Landed(c, n, j)
  PROVE  \A j \in 1..(i - 1) : \E r \in Reps : OnMain(r, Plan[j], BlockId(c, n, j, 0))'
<1>1. \A j \in 1..(i - 1) : j \in 1..Len(Plan)
  BY PlanAssumption
<1>2. \A j \in 1..(i - 1) : Landed(c, n, j)'
  BY <1>1, LandedStays
<1> QED BY <1>2 DEF Landed, Holds

\* Failing a round keeps what the call knows (RoundFailed).
LEMMA RoundFailedKnows ==
  ASSUME RepTypeOK, RepTypeOK', CliTypeOK, ChainGrows, NEW c \in Clients, Progress(c),
         pc[c] \in InRound, NEW code, RoundFailed(c, code)
  PROVE  TempFits(c)' /\ BodyMine(c)' /\ Progress(c)'
<1>1. CASE Stop(c, "failed")
  <2>1. pc'[c] = "failed"
    BY <1>1 DEF Stop, CliTypeOK
  <2> QED BY <2>1, IdleKnows DEF InRound
<1>2. CASE pc' = [pc EXCEPT ![c] = "pending"]
  <2>1. pc'[c] = "pending"
    BY <1>2 DEF CliTypeOK
  <2> QED BY <2>1, IdleKnows DEF InRound
<1>3. CASE StartRound(c, rebuild[c], part[c], prevs[c][part[c]]) /\ rebuild' = rebuild
  <2>1. part[c] \in 1..Len(Plan) /\ part[c] \in 1..(Len(Plan) + 1)
    BY PlanAssumption DEF CliTypeOK
  <2>2. PICK n, i : n = rebuild[c] /\ i = part[c]
    OBVIOUS
  <2>3. \A j \in 1..(i - 1) : Landed(c, n, j)
    BY <2>2 DEF Progress
  <2>4. \A j \in 1..(i - 1) : \E r \in Reps : OnMain(r, Plan[j], BlockId(c, n, j, 0))'
    BY <2>1, <2>2, <2>3, BeforeStay
  <2>5. \A j \in 1..(part[c] - 1) : \E r \in Reps : OnMain(r, Plan[j], BlockId(c, rebuild[c], j, 0))'
    BY <2>2, <2>4, <1>3 DEF OnMain, BlockId
  <2> QED BY <1>3, <2>1, <2>5, StartRoundKnows
<1> QED BY <1>1, <1>2, <1>3 DEF RoundFailed

\* A success is answered only after a commit that puts the block on the ledger
\* of the representative (PublishAnswer).
LEMMA CommitLands ==
  ASSUME RepTypeOK, NEW r \in Reps, NEW b \in Bodies, WellFormed(b), Commit(r, b),
         NEW c, NEW n, NEW i \in 1..Len(Plan), Carries(b, c, n, i)
  PROVE  OnMain(r, Plan[i], BlockId(c, n, i, 0))'
<1>1. PICK p \in b : p.acct = Plan[i] /\ p.ids # << >> /\ p.ids[1] = BlockId(c, n, i, 0)
  BY DEF Carries
<1>2. /\ Plan[i] \in Accounts /\ p.ids \in Seq(Blocks)
      /\ chain'[r][Plan[i]] = Append(chain[r][Plan[i]], p.ids)
  BY <1>1, CommitChain
<1>3. chain[r][Plan[i]] \in Seq(Seq(Blocks))
  BY <1>2 DEF RepTypeOK, Chains
<1>4. /\ Len(chain'[r][Plan[i]]) = Len(chain[r][Plan[i]]) + 1
      /\ chain'[r][Plan[i]][Len(chain[r][Plan[i]]) + 1] = p.ids
      /\ Len(chain[r][Plan[i]]) \in Nat
  BY <1>2, <1>3, AppendFacts
<1>5. 1 \in 1..Len(p.ids)
  BY <1>1, <1>2
<1>6. Len(chain[r][Plan[i]]) + 1 \in 1..Len(chain'[r][Plan[i]])
  BY <1>4
<1> QED BY <1>1, <1>4, <1>5, <1>6 DEF OnMain

\* Each action of a call keeps what the call knows of its round.
LEMMA ActorKnows ==
  ASSUME Sound, Sound', ChainGrows, NEW c \in Clients,
         TempFits(c), BodyMine(c), Progress(c), ClientStep(c) \/ Crash(c)
  PROVE  TempFits(c)' /\ BodyMine(c)' /\ Progress(c)'
<1>1. RepTypeOK /\ RepTypeOK' /\ CliTypeOK /\ CliTypeOK' /\ body[c] \in Bodies /\ WellFormed(body[c])
  BY DEF Sound, RepSound, CliSound, CliTypeOK, CliWellFormed
<1>2. part[c] \in 1..Len(Plan) /\ Len(Plan) \in Nat
  BY <1>1, PlanAssumption DEF CliTypeOK
<1>3. ASSUME NEW where \in {"failed", "crashed"}, Stop(c, where)
      PROVE  TempFits(c)' /\ BodyMine(c)' /\ Progress(c)'
  <2>1. pc'[c] = where
    BY <1>1, <1>3 DEF Stop, CliTypeOK
  <2> QED BY <2>1, IdleKnows DEF InRound
<1>4. CASE Build(c)
  <2>1. CASE Stop(c, "failed")
    BY <2>1, <1>3
  <2>2. CASE ~Stop(c, "failed")
    <3>1. PICK prev : StartRound(c, rebuild[c], 1, prev) /\ rebuild' = rebuild
      BY <1>4, <2>2 DEF Build
    <3>2. 1 \in 1..Len(Plan) /\ 1..(1 - 1) = {}
      BY PlanAssumption
    <3> QED BY <1>1, <3>1, <3>2, StartRoundKnows
  <2> QED BY <2>1, <2>2
<1>5. ASSUME NEW r \in Reps, TempAnswer(c, r)
      PROVE  TempFits(c)' /\ BodyMine(c)' /\ Progress(c)'
  <2>1. CASE pc[c] = "topup"
    <3>1. pc'[c] = "topup"
      BY <1>5, <2>1 DEF TempAnswer
    <3> QED BY <3>1, IdleKnows DEF InRound
  <2>2. CASE pc[c] = "temp"
    <3>1. /\ pc'[c] = "temp" /\ part'[c] = part[c] /\ body'[c] = body[c]
          /\ good'[c] = good[c] /\ rebuild'[c] = rebuild[c]
          /\ \A v \in temp'[c] : v \in temp[c] \/ v.body = body[c]
      <4>1. temp' = temp \/ temp' = [temp EXCEPT ![c] = @ \cup {[by |-> r, body |-> body[c]]}]
        BY <1>5 DEF TempAnswer
      <4>2. \A v \in temp'[c] : v \in temp[c] \/ v.body = body[c]
        BY <4>1, <1>1 DEF CliTypeOK
      <4> QED BY <4>2, <2>2, <1>5 DEF TempAnswer
    <3>2. TempFits(c)'
      BY <2>2, <3>1 DEF TempFits
    <3>3. BodyMine(c)'
      BY <2>2, <3>1 DEF BodyMine, Carries, BlockId
    <3>4. PICK n, i : n = rebuild[c] /\ i = part[c]
      OBVIOUS
    <3>5. \A j \in 1..(i - 1) : Landed(c, n, j)
      BY <2>2, <3>4 DEF Progress, InRound
    <3>6. \A j \in 1..(i - 1) : \E q \in Reps : OnMain(q, Plan[j], BlockId(c, n, j, 0))'
      <4>1. i \in 1..(Len(Plan) + 1)
        BY <1>2, <3>4
      <4> QED BY <4>1, <1>1, <1>2, <3>4, <3>5, BeforeStay
    <3>7. Progress(c)'
      BY <3>1, <3>4, <3>6 DEF Progress, Landed, Holds
    <3> QED BY <3>2, <3>3, <3>7
  <2> QED BY <1>5, <2>1, <2>2 DEF TempAnswer
<1>6. CASE TempDone(c)
  <2>1. CASE RoundFailed(c, err[c].code)
    BY <1>1, <1>6, <2>1, RoundFailedKnows DEF TempDone, InRound
  <2>2. CASE Stop(c, "failed")
    BY <2>2, <1>3
  <2>3. ASSUME NEW b, StartPerm(c, "perm", b, ContactsFor(temp[c])), temp[c] # {},
               Covers(b, body[c]), Carries(b, c, rebuild[c], part[c])
        PROVE  TempFits(c)' /\ BodyMine(c)' /\ Progress(c)'
    <3>1. /\ pc'[c] = "perm" /\ part'[c] = part[c] /\ body'[c] = b /\ temp'[c] = temp[c]
          /\ wait'[c] = ContactsFor(temp[c]) /\ good'[c] = good[c] /\ rebuild'[c] = rebuild[c]
      BY <2>3, <1>1 DEF StartPerm, CliTypeOK
    <3>2. pc[c] = "temp"
      BY <1>6 DEF TempDone
    <3>3. TempFits(c)'
      <4>1. \A v \in temp[c] : Covers(b, v.body)
        BY <2>3, <3>2 DEF TempFits
      <4>2. wait'[c] = Issuers(temp[c])
        BY <2>3, <3>1 DEF ContactsFor
      <4> QED BY <4>1, <4>2, <3>1 DEF TempFits, Covers, Issuers
    <3>4. BodyMine(c)'
      BY <2>3, <3>1 DEF BodyMine, Carries, BlockId
    <3>5. PICK n, i : n = rebuild[c] /\ i = part[c]
      OBVIOUS
    <3>6. \A j \in 1..(i - 1) : Landed(c, n, j)
      BY <3>2, <3>5 DEF Progress, InRound
    <3>7. \A j \in 1..(i - 1) : \E q \in Reps : OnMain(q, Plan[j], BlockId(c, n, j, 0))'
      <4>1. i \in 1..(Len(Plan) + 1)
        BY <1>2, <3>5
      <4> QED BY <4>1, <1>1, <1>2, <3>5, <3>6, BeforeStay
    <3>8. Progress(c)'
      BY <3>1, <3>5, <3>7 DEF Progress, Landed, Holds
    <3> QED BY <3>3, <3>4, <3>8
  <2>4. Carries(body[c], c, rebuild[c], part[c])
    BY <1>6 DEF TempDone, BodyMine, InRound
  <2>5. BlockId(c, rebuild[c], part[c], 1 + attempt[c]) \in Blocks
    <3>1. /\ rebuild[c] \in 0..MaxRebuilds /\ part[c] \in 0..Len(Plan)
          /\ 1 + attempt[c] \in 0..(MaxRetries + 1)
      BY <1>1, BoundsAssumption, PlanAssumption DEF CliTypeOK
    <3> QED BY <3>1, BlocksAssumption
  <2>6. CASE StartPerm(c, "perm", body[c], ContactsFor(temp[c])) /\ temp[c] # {}
    BY <2>3, <2>4, <2>5, <2>6, <1>1, FeeCovers
  <2>7. CASE /\ temp[c] # {}
             /\ \E src \in Reps :
                  StartPerm(c, "perm", WithFee(body[c], BlockId(c, rebuild[c], part[c], 1 + attempt[c]),
                                               chain[src][Payer]), ContactsFor(temp[c]))
    BY <2>3, <2>4, <2>5, <2>7, <1>1, FeeCovers
  <2> QED BY <1>6, <2>1, <2>2, <2>6, <2>7 DEF TempDone
<1>7. ASSUME NEW r \in Reps, PermAnswer(c, r)
      PROVE  TempFits(c)' /\ BodyMine(c)' /\ Progress(c)'
  <2>1. /\ pc'[c] = pc[c] /\ part'[c] = part[c] /\ body'[c] = body[c] /\ temp'[c] = temp[c]
        /\ wait'[c] \subseteq wait[c] /\ good'[c] = good[c] /\ rebuild'[c] = rebuild[c]
    BY <1>7, <1>1 DEF PermAnswer, CliTypeOK
  <2> QED BY <1>1, <2>1, RoundFrame
<1>8. CASE PermDone(c)
  <2>1. CASE RoundFailed(c, err[c].code)
    BY <1>1, <1>8, <2>1, RoundFailedKnows DEF PermDone, InRound
  <2>2. CASE Stop(c, "failed")
    BY <2>2, <1>3
  <2>3. CASE StartPublish(c, "publish")
    <3>1. /\ pc'[c] = "publish" /\ part'[c] = part[c] /\ body'[c] = body[c]
          /\ good'[c] = FALSE /\ rebuild'[c] = rebuild[c] /\ pc[c] = "perm"
      BY <2>3, <1>1, <1>8 DEF StartPublish, CliTypeOK, PermDone
    <3>2. TempFits(c)'
      BY <3>1 DEF TempFits
    <3>3. BodyMine(c)'
      BY <3>1 DEF BodyMine, Carries, BlockId, InRound
    <3>4. PICK n, i : n = rebuild[c] /\ i = part[c]
      OBVIOUS
    <3>5. \A j \in 1..(i - 1) : Landed(c, n, j)
      BY <3>1, <3>4 DEF Progress, InRound
    <3>6. \A j \in 1..(i - 1) : \E q \in Reps : OnMain(q, Plan[j], BlockId(c, n, j, 0))'
      <4>1. i \in 1..(Len(Plan) + 1)
        BY <1>2, <3>4
      <4> QED BY <4>1, <1>1, <1>2, <3>4, <3>5, BeforeStay
    <3>7. Progress(c)'
      BY <3>1, <3>4, <3>6 DEF Progress, Landed, Holds
    <3> QED BY <3>2, <3>3, <3>7
  <2> QED BY <1>8, <2>1, <2>2, <2>3 DEF PermDone
<1>9. ASSUME NEW r \in Reps, PublishAnswer(c, r)
      PROVE  TempFits(c)' /\ BodyMine(c)' /\ Progress(c)'
  <2>1. /\ pc'[c] = pc[c] /\ part'[c] = part[c] /\ body'[c] = body[c] /\ temp'[c] = temp[c]
        /\ wait'[c] \subseteq wait[c] /\ rebuild'[c] = rebuild[c]
    BY <1>9, <1>1 DEF PublishAnswer, CliTypeOK
  <2>2. CASE good'[c] = good[c]
    BY <1>1, <2>1, <2>2, RoundFrame
  <2>3. CASE pc[c] # "publish"
    <3>1. pc'[c] = "rpublish"
      BY <1>9, <2>1, <2>3 DEF PublishAnswer
    <3> QED BY <3>1, IdleKnows DEF InRound
  <2>4. CASE good'[c] # good[c] /\ pc[c] = "publish"
    <3>1. Commit(r, body[c])
      <4>1. PICK d \in Outcomes :
              /\ IF PublishReply(r, body[c], perm[c]) = "ok" /\ d # "request_lost"
                   THEN Commit(r, body[c]) ELSE UNCHANGED repVars
              /\ IF Told(d, PublishReply(r, body[c], perm[c])) = "ok"
                   THEN good' = [good EXCEPT ![c] = TRUE] /\ UNCHANGED err
                   ELSE UNCHANGED good
        BY <1>9 DEF PublishAnswer
      <4>2. Told(d, PublishReply(r, body[c], perm[c])) = "ok"
        BY <4>1, <2>4
      <4> QED BY <4>1, <4>2 DEF Told
    <3>2. PICK n, i, b : n = rebuild[c] /\ i = part[c] /\ b = body[c]
      OBVIOUS
    <3>3. Carries(b, c, n, i)
      BY <2>4, <3>2 DEF BodyMine, InRound
    <3>4. OnMain(r, Plan[i], BlockId(c, n, i, 0))'
      BY <1>1, <1>2, <3>1, <3>2, <3>3, CommitLands
    <3>5. \A j \in 1..(i - 1) : Landed(c, n, j)
      BY <2>4, <3>2 DEF Progress, InRound
    <3>6. \A j \in 1..(i - 1) : \E q \in Reps : OnMain(q, Plan[j], BlockId(c, n, j, 0))'
      <4>1. i \in 1..(Len(Plan) + 1)
        BY <1>2, <3>2
      <4> QED BY <4>1, <1>1, <1>2, <3>2, <3>5, BeforeStay
    <3>7. Progress(c)'
      BY <2>1, <2>4, <3>2, <3>4, <3>6 DEF Progress, Landed, Holds
    <3>8. TempFits(c)' /\ BodyMine(c)'
      BY <2>1, <2>4 DEF TempFits, BodyMine, Carries, BlockId
    <3> QED BY <3>7, <3>8
  <2> QED BY <2>2, <2>3, <2>4
<1>10. CASE PublishDone(c)
  <2>1. pc[c] = "publish"
    BY <1>10 DEF PublishDone
  <2>2. CASE RoundFailed(c, err[c].code)
    BY <1>1, <2>1, <2>2, RoundFailedKnows DEF InRound
  <2>3. CASE good[c] /\ rebuild' = rebuild
    <3>1. PICK n, i : n = rebuild[c] /\ i = part[c] + 1
      OBVIOUS
    <3>2. \A j \in 1..(i - 1) : Landed(c, n, j)
      <4>1. \A j \in 1..(i - 1) : j \in 1..(part[c] - 1) \/ j = part[c]
        BY <1>2, <3>1
      <4> QED BY <4>1, <2>1, <2>3, <3>1 DEF Progress, InRound
    <3>3. \A j \in 1..(i - 1) : \E q \in Reps : OnMain(q, Plan[j], BlockId(c, n, j, 0))'
      <4>1. i \in 1..(Len(Plan) + 1)
        BY <1>2, <3>1
      <4> QED BY <4>1, <1>1, <1>2, <3>1, <3>2, BeforeStay
    <3>4. CASE Stop(c, "done") /\ part[c] = Len(Plan)
      <4>1. pc'[c] = "done" /\ rebuild'[c] = rebuild[c]
        BY <3>4, <1>1 DEF Stop, CliTypeOK
      <4>2. \A j \in 1..Len(Plan) : \E q \in Reps : OnMain(q, Plan[j], BlockId(c, n, j, 0))'
        BY <3>1, <3>3, <3>4, <1>2
      <4>3. Progress(c)'
        BY <4>1, <4>2, <3>1 DEF Progress, Landed, Holds, InRound
      <4> QED BY <4>1, <4>3 DEF TempFits, BodyMine, InRound
    <3>5. CASE StartRound(c, rebuild[c], part[c] + 1, prevs[c][part[c] + 1]) /\ part[c] # Len(Plan)
      <4>1. part[c] + 1 \in 1..Len(Plan)
        BY <3>5, <1>2
      <4>2. \A j \in 1..((part[c] + 1) - 1) : \E q \in Reps : OnMain(q, Plan[j], BlockId(c, rebuild[c], j, 0))'
        BY <3>1, <3>3, <2>3 DEF OnMain, BlockId
      <4> QED BY <1>1, <2>3, <3>5, <4>1, <4>2, StartRoundKnows
    <3> QED BY <1>10, <2>3, <3>4, <3>5 DEF PublishDone, Accepted
  <2> QED BY <1>10, <2>2, <2>3 DEF PublishDone, Accepted, Stop
<1>11. ASSUME pc'[c] \in {"pending", "gather", "topup", "rperm", "rpublish", "build", "failed", "crashed"}
       PROVE  TempFits(c)' /\ BodyMine(c)' /\ Progress(c)'
  BY <1>11, IdleKnows DEF InRound
<1>12. ASSUME \/ \E r \in Reps : PendingAnswer(c, r) \/ GatherVote(c, r)
              \/ PendingDone(c) \/ GatherDone(c) \/ TopUpDone(c) \/ RecoverAssemble(c)
              \/ RecoverDone(c) \/ Crash(c)
       PROVE  pc'[c] \in {"pending", "gather", "topup", "rperm", "rpublish", "build", "failed", "crashed"}
  BY <1>12, <1>1 DEF PendingAnswer, GatherVote, PendingDone, GatherDone, TopUpDone, RecoverAssemble,
                     RecoverDone, Crash, Stop, StartPerm, StartPublish, CliTypeOK
<1> QED BY <1>4, <1>5, <1>6, <1>7, <1>8, <1>9, <1>10, <1>11, <1>12 DEF ClientStep

\* Nothing is known of a round before the first one.
LEMMA RoundInit == Init => RoundInv
  BY DEF Init, RoundInv, TempFits, BodyMine, Progress, InRound

\* Every step keeps what the calls know of their rounds.
LEMMA RoundStep == IInv /\ RoundInv /\ [Next]_vars => RoundInv'
<1> SUFFICES ASSUME IInv, RoundInv, [Next]_vars, NEW d \in Clients
             PROVE  TempFits(d)' /\ BodyMine(d)' /\ Progress(d)'
  BY DEF RoundInv
<1>1. Sound /\ Sound' /\ ChainGrows
  <2>1. Sound
    BY IInvSplit
  <2>2. Sound'
    BY StepSound, IInvSplit, PTL
  <2> QED BY <2>1, <2>2, ChainStep
<1>2. RepTypeOK /\ RepTypeOK' /\ CliTypeOK
  BY <1>1 DEF Sound, RepSound, CliSound
<1>3. TempFits(d) /\ BodyMine(d) /\ Progress(d)
  BY DEF RoundInv
<1>4. ASSUME NEW c \in Clients, ClientStep(c) \/ Crash(c)
      PROVE  TempFits(d)' /\ BodyMine(d)' /\ Progress(d)'
  <2>1. CASE d = c
    BY <1>1, <1>3, <1>4, <2>1, ActorKnows
  <2>2. CASE d # c
    BY <1>1, <1>2, <1>3, <1>4, <2>2, OwnLocals, RoundFrame DEF Others
  <2> QED BY <2>1, <2>2
<1>5. CASE UNCHANGED cliVars
  BY <1>1, <1>2, <1>3, <1>5, RoundFrame DEF cliVars
<1> QED BY <1>4, <1>5 DEF Next, VoteExpires, vars

\* Every reachable state satisfies RoundInv.
THEOREM RoundInvariant == Spec => []RoundInv
<1> QED BY RoundInit, RoundStep, InductiveInvariant, PTL DEF Spec

\* The permanent round contacts no representative that must refuse for want of
\* a temporary vote of its own (contacts_for): a fee block added after the
\* temporary round leaves the body covering every vote of that round.
THEOREM SelfTempHolds == Spec => []SelfTempHeld
<1>1. RoundInv => SelfTempHeld
  <2> SUFFICES ASSUME RoundInv, NEW c \in Clients, pc[c] = "perm", NEW r \in wait[c]
               PROVE  PermReply(r, body[c], temp[c] \cup perm[c]) # "LEDGER_NO_PERM_WITHOUT_SELF_TEMP"
    BY DEF SelfTempHeld
  <2> DEFINE backing == {v \in temp[c] \cup perm[c] : Covers(body[c], v.body)}
  <2>1. r \in Issuers(temp[c]) /\ temp[c] \subseteq backing
    BY DEF RoundInv, TempFits
  <2>2. r \in Issuers(backing)
    BY <2>1 DEF Issuers
  <2> QED BY <2>2 DEF PermReply
<1> QED BY <1>1, RoundInvariant, PTL

\* A write that returned success has every block of its last rendering on some
\* representative's main ledger (originate, build_and_publish): a publish
\* counts as accepted only after a representative committed it.
THEOREM AcceptedHolds == Spec => []AcceptedIsCommitted
<1>1. RoundInv => AcceptedIsCommitted
  BY DEF RoundInv, Progress, AcceptedIsCommitted, Landed
<1> QED BY <1>1, RoundInvariant, PTL

-----------------------------------------------------------------------------
(* The places of a step.                                                   *)

NewPlace(x) == Places' \subseteq Places \cup {x}

\* Bodies that a step takes from known ones, or are `b' or empty.
KnownFrom(b) ==
  /\ RepKnown' \subseteq Known \cup {{}, b}
  /\ \A d \in Clients : body'[d] \in Known \cup {{}, b}
  /\ \A d \in Clients : \A v \in temp'[d] \cup perm'[d] : v.body \in Known \cup {{}, b}

\* They are the known ones after the step.
LEMMA KnownStep ==
  ASSUME NEW b, KnownFrom(b)
  PROVE  Known' \subseteq Known \cup {{}, b} /\ Places' \subseteq Places \cup PlacesOf(b)
<1>1. CliKnown' \subseteq Known \cup {{}, b}
  BY DEF CliKnown, KnownFrom
<1>2. Known' = RepKnown' \cup CliKnown'
  BY DEF Known
<1>3. Known' \subseteq Known \cup {{}, b}
  BY <1>1, <1>2 DEF KnownFrom
<1> QED BY <1>3, PlacesStep

\* The bodies and votes of the clients are known.
LEMMA CliKnownIn ==
  /\ \A d \in Clients : body[d] \in Known
  /\ \A d \in Clients : \A v \in temp[d] \cup perm[d] : v.body \in Known
  /\ RepKnown \subseteq Known
  BY DEF Known, CliKnown

\* The operations of a representative add at most the body they are about.
LEMMA RepKnownStep ==
  ASSUME RepTypeOK, NEW r \in Reps, NEW b,
         GiveTemp(r, b) \/ GivePerm(r, b) \/ Commit(r, b)
  PROVE  RepKnown' \subseteq RepKnown \cup {{}, b}
<1>1. \A v \in Reps, a \in Accounts : /\ tvote'[v][a] \in {tvote[v][a], {}, b}
                                       /\ pvote'[v][a] \in {pvote[v][a], {}, b}
  BY DEF RepTypeOK, GiveTemp, GivePerm, Commit
<1>2. \A v \in Reps : cast'[v] \subseteq cast[v] \cup {b}
  BY DEF RepTypeOK, GiveTemp, GivePerm, Commit
<1>3. /\ \A v \in Reps, a \in Accounts : tvote[v][a] \in RepKnown /\ pvote[v][a] \in RepKnown
      /\ \A v \in Reps : cast[v] \subseteq RepKnown
  BY DEF RepKnown
<1>4. \A e \in RepKnown' : \/ \E v \in Reps, a \in Accounts : e = tvote'[v][a] \/ e = pvote'[v][a]
                           \/ \E v \in Reps : e \in cast'[v]
  BY DEF RepKnown
<1> QED BY <1>1, <1>2, <1>3, <1>4

\* Ending a call brings no new body (Stop).
LEMMA StopKnown ==
  ASSUME CliTypeOK, UNCHANGED repVars, NEW c \in Clients, NEW where, Stop(c, where)
  PROVE  Places' \subseteq Places
<1>1. RepKnown' = RepKnown
  BY DEF repVars, RepKnown
<1>2. \A d \in Clients : /\ body'[d] \in {body[d], {}}
                         /\ temp'[d] \subseteq temp[d] /\ perm'[d] \subseteq perm[d]
  BY DEF CliTypeOK, Stop
<1>3. KnownFrom({})
  BY <1>1, <1>2, CliKnownIn DEF KnownFrom
<1> QED BY <1>3, KnownStep, PlaceIn

\* Entering a round brings the block of the plan (StartRound).
LEMMA StartRoundKnown ==
  ASSUME CliTypeOK, UNCHANGED repVars, NEW c \in Clients, NEW n, NEW i, NEW prev,
         StartRound(c, n, i, prev)
  PROVE  NewPlace(Place(BlockId(c, n, i, 0), Plan[i], prev, 1))
<1> DEFINE b == PlanBody(c, n, i, prev)
<1>1. RepKnown' = RepKnown
  BY DEF repVars, RepKnown
<1>2. \A d \in Clients : /\ body'[d] \in {body[d], b}
                         /\ temp'[d] \subseteq temp[d] /\ perm'[d] \subseteq perm[d]
  BY DEF CliTypeOK, StartRound
<1> HIDE DEF b
<1>3. KnownFrom(b)
  BY <1>1, <1>2, CliKnownIn DEF KnownFrom
<1>4. Places' \subseteq Places \cup PlacesOf(b)
  BY <1>3, KnownStep
<1> QED BY <1>4, PlanBodyPlaces DEF NewPlace, b

\* Asking for permanent votes brings the body asked about (StartPerm).
LEMMA StartPermKnown ==
  ASSUME CliTypeOK, UNCHANGED repVars, NEW c \in Clients, NEW where, NEW b, NEW reps,
         StartPerm(c, where, b, reps)
  PROVE  Places' \subseteq Places \cup PlacesOf(b)
<1>1. RepKnown' = RepKnown
  BY DEF repVars, RepKnown
<1>2. /\ \A d \in Clients : body'[d] \in {body[d], b}
      /\ temp' = temp /\ perm' = perm
  BY DEF CliTypeOK, StartPerm
<1>3. KnownFrom(b)
  BY <1>1, <1>2, CliKnownIn DEF KnownFrom
<1> QED BY <1>3, KnownStep

\* Publishing brings no new body (StartPublish).
LEMMA StartPublishKnown ==
  ASSUME CliTypeOK, UNCHANGED repVars, NEW c \in Clients, NEW where, StartPublish(c, where)
  PROVE  Places' \subseteq Places
<1>1. RepKnown' = RepKnown
  BY DEF repVars, RepKnown
<1>2. \A d \in Clients : body'[d] = body[d] /\ temp'[d] \subseteq temp[d] /\ perm'[d] = perm[d]
  BY DEF CliTypeOK, StartPublish
<1>3. KnownFrom({})
  BY <1>1, <1>2, CliKnownIn DEF KnownFrom
<1> QED BY <1>3, KnownStep, PlaceIn

\* The answers of a representative bring no new body.
LEMMA AnswerKnown ==
  ASSUME RepTypeOK, CliTypeOK, NEW c \in Clients, NEW r \in Reps,
         TempAnswer(c, r) \/ PermAnswer(c, r) \/ PublishAnswer(c, r)
  PROVE  Places' \subseteq Places
<1>1. body[c] \in Known
  BY CliKnownIn
<1>2. RepKnown' \subseteq RepKnown \cup {{}, body[c]}
  <2>1. CASE UNCHANGED repVars
    BY <2>1 DEF repVars, RepKnown
  <2>2. CASE GiveTemp(r, body[c]) \/ GivePerm(r, body[c]) \/ Commit(r, body[c])
    BY <2>2, RepKnownStep
  <2> QED BY <2>1, <2>2 DEF TempAnswer, PermAnswer, PublishAnswer
<1>3. /\ body' = body
      /\ \A d \in Clients : \A v \in temp'[d] \cup perm'[d] :
            v \in temp[d] \cup perm[d] \/ v.body = body[c]
  <2> DEFINE vote == [by |-> r, body |-> body[c]]
  <2>1. /\ temp' = temp \/ temp' = [temp EXCEPT ![c] = @ \cup {vote}]
        /\ perm' = perm \/ perm' = [perm EXCEPT ![c] = @ \cup {vote}]
    BY DEF TempAnswer, PermAnswer, PublishAnswer
  <2>2. vote.body = body[c]
    OBVIOUS
  <2> HIDE DEF vote
  <2>3. \A d \in Clients : temp'[d] \subseteq temp[d] \cup {vote} /\ perm'[d] \subseteq perm[d] \cup {vote}
    BY <2>1 DEF CliTypeOK
  <2>4. body' = body
    BY DEF TempAnswer, PermAnswer, PublishAnswer
  <2> QED BY <2>2, <2>3, <2>4
<1>4. KnownFrom({})
  BY <1>1, <1>2, <1>3, CliKnownIn DEF KnownFrom
<1> QED BY <1>4, KnownStep, PlaceIn

\* The reads of a recovery bring no new body: what they return was voted on.
LEMMA ReadKnown ==
  ASSUME RepTypeOK, CliTypeOK, NEW c \in Clients, NEW r \in Reps,
         PendingAnswer(c, r) \/ GatherVote(c, r)
  PROVE  Places' \subseteq Places
<1>1. RepKnown' = RepKnown /\ body' = body
  BY DEF repVars, RepKnown, PendingAnswer, GatherVote
<1>2. \A d \in Clients : \A v \in temp'[d] \cup perm'[d] : v.body \in Known
  <2>1. CASE temp' = temp /\ perm' = perm
    BY <2>1, CliKnownIn
  <2>2. CASE GatherVote(c, r)
    <3> DEFINE Own(d, o) == IF d # "delivered" THEN {}
                            ELSE IF OwnPerm(r, Operating, o.id) # {} THEN OwnPerm(r, Operating, o.id)
                            ELSE OwnTemp(r, Operating, o.id)
    <3>0. PICK d \in {"delivered", "request_lost"}, o \in seen[c] :
            /\ perm' = [perm EXCEPT ![c] = IF Own(d, o) = OwnPerm(r, Operating, o.id)
                                             THEN @ \cup Own(d, o) ELSE @]
            /\ temp' = [temp EXCEPT ![c] = IF Own(d, o) # OwnPerm(r, Operating, o.id)
                                             THEN @ \cup Own(d, o) ELSE @]
      BY <2>2 DEF GatherVote
    <3> DEFINE own == Own(d, o)
    <3>1. own \subseteq OwnPerm(r, Operating, o.id) \cup OwnTemp(r, Operating, o.id)
      OBVIOUS
    <3> HIDE DEF Own
    <3>2. \A v \in own : v.body \in RepKnown
      <4>1. Operating \in Accounts
        BY PlanAssumption
      <4> QED BY <3>1, <4>1 DEF OwnPerm, OwnTemp, RepKnown
    <3>3. \A e \in Clients : temp'[e] \subseteq temp[e] \cup own /\ perm'[e] \subseteq perm[e] \cup own
      BY <3>0 DEF CliTypeOK
    <3> HIDE DEF own
    <3> QED BY <3>2, <3>3, CliKnownIn
  <2> QED BY <2>1, <2>2 DEF PendingAnswer
<1>3. KnownFrom({})
  BY <1>1, <1>2, CliKnownIn DEF KnownFrom
<1> QED BY <1>3, KnownStep, PlaceIn

\* The other steps that only move known bodies about.
LEMMA MoveKnown ==
  ASSUME CliTypeOK, NEW c \in Clients, UNCHANGED repVars,
         \A d \in Clients : /\ body'[d] \in Known \cup {{}}
                            /\ temp'[d] \subseteq temp[d] /\ perm'[d] \subseteq perm[d]
  PROVE  Places' \subseteq Places
<1>1. RepKnown' = RepKnown
  BY DEF repVars, RepKnown
<1>2. KnownFrom({})
  BY <1>1, CliKnownIn DEF KnownFrom
<1> QED BY <1>2, KnownStep, PlaceIn

\* An expired vote brings no new body (VoteExpires).
LEMMA ExpireKnown ==
  ASSUME RepTypeOK, CliTypeOK, NEW r \in Reps, NEW a \in Accounts, VoteExpires(r, a)
  PROVE  Places' \subseteq Places
<1>1. \A v \in Reps, e \in Accounts : tvote'[v][e] \in {tvote[v][e], {}} /\ pvote' = pvote /\ cast' = cast
  BY DEF RepTypeOK, VoteExpires, ExpireTemp
<1>2. RepKnown' \subseteq RepKnown \cup {{}}
  BY <1>1 DEF RepKnown
<1>3. KnownFrom({})
  BY <1>2, CliKnownIn DEF KnownFrom, VoteExpires, cliVars
<1> QED BY <1>3, KnownStep, PlaceIn

-----------------------------------------------------------------------------
(* The kinds of step, as far as places go.                                 *)

\* c starts a round for block i of the plan: after rendering, again after a
\* round that failed, or after the publish of the block before it.
Starts(c, i) ==
  /\ pc'[c] = "temp" /\ part'[c] = i /\ rebuild'[c] = rebuild[c]
  /\ NewPlace(Place(BlockId(c, rebuild[c], i, 0), Plan[i], prevs'[c][i], 1))
  /\ \/ pc[c] = "build" /\ i = 1
     \/ pc[c] \in InRound /\ i = part[c] /\ prevs'[c] = prevs[c]
     \/ pc[c] = "publish" /\ good[c] /\ i = part[c] + 1 /\ prevs'[c] = prevs[c]

\* c adds the fee block `id' to its body.
Pays(c, id) == \E prev, k : NewPlace(Place(id, Payer, prev, k))
PaysRound(c) ==
  /\ pc[c] = "temp" /\ pc'[c] = "perm" /\ part'[c] = part[c]
  /\ attempt'[c] = attempt[c] /\ rebuild'[c] = rebuild[c]
  /\ Pays(c, BlockId(c, rebuild[c], part[c], 1 + attempt[c]))
PaysRecovery(c) ==
  /\ pc[c] = "topup" /\ pc'[c] = "rperm" /\ rebuild'[c] = rebuild[c]
  /\ Pays(c, BlockId(c, rebuild[c], 0, 1))

\* A round that fails starts again or brings no new block (RoundFailed).
LEMMA RoundFailedKind ==
  ASSUME CliTypeOK, NEW c \in Clients, pc[c] \in InRound, NEW code, RoundFailed(c, code),
         UNCHANGED repVars
  PROVE  Places' \subseteq Places \/ Starts(c, part[c])
<1>1. CASE Stop(c, "failed")
  BY <1>1, StopKnown
<1>2. CASE StartRound(c, rebuild[c], part[c], prevs[c][part[c]]) /\ UNCHANGED <<prevs, rebuild>>
  <2>1. NewPlace(Place(BlockId(c, rebuild[c], part[c], 0), Plan[part[c]], prevs[c][part[c]], 1))
    BY <1>2, StartRoundKnown
  <2>2. pc'[c] = "temp" /\ part'[c] = part[c]
    BY <1>2 DEF StartRound, CliTypeOK
  <2> QED BY <1>2, <2>1, <2>2 DEF Starts
<1>3. CASE /\ body' = [body EXCEPT ![c] = {}]
           /\ temp' = [temp EXCEPT ![c] = {}]
           /\ perm' = [perm EXCEPT ![c] = {}]
  <2>1. \A d \in Clients : /\ body'[d] \in Known \cup {{}}
                           /\ temp'[d] \subseteq temp[d] /\ perm'[d] \subseteq perm[d]
    BY <1>3, CliKnownIn DEF CliTypeOK
  <2> QED BY <2>1, MoveKnown
<1> QED BY <1>1, <1>2, <1>3 DEF RoundFailed

\* Every step of a call brings no new block, starts a round or pays a fee.
LEMMA StepKind ==
  ASSUME Sound, NEW c \in Clients, ClientStep(c) \/ Crash(c)
  PROVE  \/ Places' \subseteq Places
         \/ \E i \in 1..Len(Plan) : Starts(c, i)
         \/ PaysRound(c) \/ PaysRecovery(c)
<1>1. RepTypeOK /\ CliTypeOK /\ body[c] \in Bodies /\ WellFormed(body[c]) /\ part[c] \in 1..Len(Plan)
  BY DEF Sound, RepSound, CliSound, CliTypeOK, CliWellFormed
<1>2. CASE Build(c)
  <2>1. CASE Stop(c, "failed")
    BY <1>1, <1>2, <2>1, StopKnown DEF Build
  <2>2. CASE ~Stop(c, "failed")
    <3> DEFINE Heads(src) == [i \in 1..Len(Plan) |-> chain[src[i]][Plan[i]]]
    <3>1. PICK src \in [1..Len(Plan) -> Reps] :
            /\ prevs' = [prevs EXCEPT ![c] = Heads(src)]
            /\ StartRound(c, rebuild[c], 1, Heads(src)[1]) /\ rebuild' = rebuild
      BY <1>2, <2>2 DEF Build
    <3> HIDE DEF Heads
    <3>2. prevs'[c] = Heads(src) /\ pc'[c] = "temp" /\ part'[c] = 1 /\ pc[c] = "build" /\ UNCHANGED repVars
      BY <3>1, <1>1, <1>2 DEF StartRound, CliTypeOK, Build
    <3>3. NewPlace(Place(BlockId(c, rebuild[c], 1, 0), Plan[1], Heads(src)[1], 1))
      BY <1>1, <3>1, <3>2, StartRoundKnown
    <3>4. 1 \in 1..Len(Plan)
      BY PlanAssumption
    <3>5. Starts(c, 1)
      BY <3>1, <3>2, <3>3 DEF Starts
    <3> QED BY <3>4, <3>5
  <2> QED BY <2>1, <2>2
<1>3. ASSUME NEW r \in Reps,
             TempAnswer(c, r) \/ PermAnswer(c, r) \/ PublishAnswer(c, r)
               \/ PendingAnswer(c, r) \/ GatherVote(c, r)
      PROVE  Places' \subseteq Places
  BY <1>1, <1>3, AnswerKnown, ReadKnown
<1>4. CASE TempDone(c)
  <2>1. pc[c] = "temp" /\ UNCHANGED repVars
    BY <1>4 DEF TempDone
  <2>2. CASE RoundFailed(c, err[c].code)
    BY <1>1, <2>1, <2>2, RoundFailedKind DEF InRound
  <2>3. CASE StartPerm(c, "perm", body[c], ContactsFor(temp[c]))
    BY <1>1, <2>1, <2>3, StartPermKnown, CliKnownIn, PlaceIn
  <2>4. CASE \E src \in Reps :
               StartPerm(c, "perm", WithFee(body[c], BlockId(c, rebuild[c], part[c], 1 + attempt[c]),
                                            chain[src][Payer]), ContactsFor(temp[c]))
    <3>1. PICK b, src :
            /\ StartPerm(c, "perm", b, ContactsFor(temp[c]))
            /\ b = WithFee(body[c], BlockId(c, rebuild[c], part[c], 1 + attempt[c]), chain[src][Payer])
      BY <2>4
    <3>2. Places' \subseteq Places \cup PlacesOf(b)
      BY <1>1, <2>1, <3>1, StartPermKnown
    <3>3. PICK prev, k : PlacesOf(b) \subseteq PlacesOf(body[c])
              \cup {Place(BlockId(c, rebuild[c], part[c], 1 + attempt[c]), Payer, prev, k)}
      BY <1>1, <3>1, WithFeePlaces
    <3>4. PlacesOf(body[c]) \subseteq Places
      BY CliKnownIn, PlaceIn
    <3>5. Pays(c, BlockId(c, rebuild[c], part[c], 1 + attempt[c]))
      BY <3>2, <3>3, <3>4 DEF Pays, NewPlace
    <3>6. /\ pc'[c] = "perm" /\ part'[c] = part[c]
          /\ attempt'[c] = attempt[c] /\ rebuild'[c] = rebuild[c]
      BY <3>1, <1>1 DEF StartPerm, CliTypeOK
    <3> QED BY <2>1, <3>5, <3>6 DEF PaysRound
  <2>5. CASE Stop(c, "failed")
    BY <1>1, <2>1, <2>5, StopKnown
  <2> QED BY <1>4, <2>2, <2>3, <2>4, <2>5 DEF TempDone
<1>5. CASE PermDone(c)
  <2>1. pc[c] = "perm" /\ UNCHANGED repVars
    BY <1>5 DEF PermDone
  <2>2. CASE RoundFailed(c, err[c].code)
    BY <1>1, <2>1, <2>2, RoundFailedKind DEF InRound
  <2> QED BY <1>1, <1>5, <2>1, <2>2, StartPublishKnown, StopKnown DEF PermDone
<1>6. CASE PublishDone(c)
  <2>1. pc[c] = "publish" /\ UNCHANGED repVars
    BY <1>6 DEF PublishDone
  <2>2. CASE RoundFailed(c, err[c].code)
    BY <1>1, <2>1, <2>2, RoundFailedKind DEF InRound
  <2>3. CASE /\ good[c] /\ part[c] # Len(Plan)
             /\ StartRound(c, rebuild[c], part[c] + 1, prevs[c][part[c] + 1])
             /\ UNCHANGED <<prevs, seen, missing, rebuild>>
    <3>1. NewPlace(Place(BlockId(c, rebuild[c], part[c] + 1, 0), Plan[part[c] + 1], prevs[c][part[c] + 1], 1))
      BY <1>1, <2>1, <2>3, StartRoundKnown
    <3>2. pc'[c] = "temp" /\ part'[c] = part[c] + 1
      BY <1>1, <2>3 DEF StartRound, CliTypeOK
    <3>3. part[c] + 1 \in 1..Len(Plan)
      BY <1>1, <2>3, PlanAssumption
    <3>4. Starts(c, part[c] + 1)
      BY <2>1, <2>3, <3>1, <3>2 DEF Starts
    <3> QED BY <3>3, <3>4
  <2> QED BY <1>1, <1>6, <2>1, <2>2, <2>3, StopKnown DEF PublishDone, Accepted
<1>7. CASE PendingDone(c)
  <2>1. CASE Stop(c, "failed")
    BY <1>1, <1>7, <2>1, StopKnown DEF PendingDone
  <2>2. CASE UNCHANGED <<body, temp, perm>>
    BY <1>1, <1>7, <2>2, MoveKnown, CliKnownIn DEF PendingDone
  <2> QED BY <1>7, <2>1, <2>2 DEF PendingDone
<1>8. CASE GatherDone(c)
  <2>1. CASE Stop(c, "failed")
    BY <1>1, <1>8, <2>1, StopKnown DEF GatherDone
  <2>2. CASE \E sample \in perm[c] \cup temp[c] :
               body' = [body EXCEPT ![c] = sample.body] /\ UNCHANGED <<temp, perm>>
    <3>1. \A d \in Clients : body'[d] \in Known \cup {{}}
      BY <1>1, <2>2, CliKnownIn DEF CliTypeOK
    <3> QED BY <1>1, <1>8, <2>2, <3>1, MoveKnown DEF GatherDone
  <2> QED BY <1>8, <2>1, <2>2 DEF GatherDone
<1>9. CASE TopUpDone(c)
  <2>1. pc[c] = "topup" /\ UNCHANGED repVars
    BY <1>9 DEF TopUpDone
  <2>2. CASE \E reps : StartPerm(c, "rperm", body[c], reps)
    BY <1>1, <2>1, <2>2, StartPermKnown, CliKnownIn, PlaceIn
  <2>3. CASE \E src \in Reps : \E reps :
               StartPerm(c, "rperm", WithFee(body[c], BlockId(c, rebuild[c], 0, 1), chain[src][Payer]), reps)
    <3>1. PICK b, src, reps :
            /\ StartPerm(c, "rperm", b, reps)
            /\ b = WithFee(body[c], BlockId(c, rebuild[c], 0, 1), chain[src][Payer])
      BY <2>3
    <3>2. Places' \subseteq Places \cup PlacesOf(b)
      BY <1>1, <2>1, <3>1, StartPermKnown
    <3>3. PICK prev, k : PlacesOf(b) \subseteq PlacesOf(body[c])
              \cup {Place(BlockId(c, rebuild[c], 0, 1), Payer, prev, k)}
      BY <1>1, <3>1, WithFeePlaces
    <3>4. PlacesOf(body[c]) \subseteq Places
      BY CliKnownIn, PlaceIn
    <3>5. Pays(c, BlockId(c, rebuild[c], 0, 1))
      BY <3>2, <3>3, <3>4 DEF Pays, NewPlace
    <3>6. pc'[c] = "rperm" /\ rebuild'[c] = rebuild[c]
      BY <3>1, <1>1 DEF StartPerm, CliTypeOK
    <3> QED BY <2>1, <3>5, <3>6 DEF PaysRecovery
  <2>4. CASE Stop(c, "failed")
    BY <1>1, <2>1, <2>4, StopKnown
  <2> QED BY <1>9, <2>2, <2>3, <2>4 DEF TopUpDone
<1>10. CASE RecoverAssemble(c)
  BY <1>1, <1>10, StartPublishKnown, StopKnown DEF RecoverAssemble
<1>11. CASE RecoverDone(c)
  <2>1. CASE Stop(c, "failed")
    BY <1>1, <1>11, <2>1, StopKnown DEF RecoverDone
  <2>2. CASE /\ body' = [body EXCEPT ![c] = {}]
             /\ perm' = [perm EXCEPT ![c] = {}]
             /\ temp' = temp
    <3>1. \A d \in Clients : body'[d] \in Known \cup {{}} /\ perm'[d] \subseteq perm[d]
      BY <1>1, <2>2, CliKnownIn DEF CliTypeOK
    <3> QED BY <1>1, <1>11, <2>2, <3>1, MoveKnown DEF RecoverDone
  <2> QED BY <1>11, <2>1, <2>2 DEF RecoverDone
<1>12. CASE Crash(c)
  BY <1>1, <1>12, StopKnown DEF Crash
<1> QED BY <1>2, <1>3, <1>4, <1>5, <1>6, <1>7, <1>8, <1>9, <1>10, <1>11, <1>12 DEF ClientStep

-----------------------------------------------------------------------------
(* What a call may have rendered.                                          *)

\* How the position of a call in its work moves on.
Moves(c) ==
  \/ /\ pc'[c] \in EndedPCs /\ rebuild'[c] = rebuild[c]
  \/ /\ pc'[c] = pc[c] /\ part'[c] = part[c] /\ prevs'[c] = prevs[c]
     /\ attempt'[c] = attempt[c] /\ rebuild'[c] = rebuild[c]
  \/ /\ pc[c] = "build" /\ pc'[c] = "temp" /\ rebuild'[c] = rebuild[c]
  \/ /\ pc[c] \in InRound /\ pc'[c] = "temp" /\ prevs'[c] = prevs[c] /\ rebuild'[c] = rebuild[c]
     /\ \/ part'[c] = part[c] /\ attempt'[c] = attempt[c] + 1
        \/ part'[c] = part[c] + 1
  \/ /\ pc[c] \in InRound /\ pc'[c] \in {"perm", "publish"} /\ part'[c] = part[c]
     /\ prevs'[c] = prevs[c] /\ attempt'[c] = attempt[c] /\ rebuild'[c] = rebuild[c]
  \/ /\ pc[c] \in InRound /\ pc'[c] = "pending" /\ prevs'[c] = prevs[c] /\ rebuild'[c] = rebuild[c]
  \/ /\ pc[c] \in Recovering \ {"rperm", "rpublish"} /\ pc'[c] \in Recovering
     /\ prevs'[c] = prevs[c] /\ rebuild'[c] = rebuild[c]
  \/ /\ pc[c] = "rperm" /\ pc'[c] = "rpublish" /\ prevs'[c] = prevs[c] /\ rebuild'[c] = rebuild[c]
  \/ /\ pc[c] = "rpublish" /\ pc'[c] = "build" /\ rebuild'[c] = rebuild[c] + 1

\* A round that fails starts again, recovers or ends the call (RoundFailed).
LEMMA RoundFailedMoves ==
  ASSUME CliTypeOK, NEW c \in Clients, pc[c] \in InRound, NEW code, RoundFailed(c, code)
  PROVE  Moves(c) /\ pc'[c] # "publish"
<1>1. CASE Stop(c, "failed")
  BY <1>1 DEF Stop, CliTypeOK, Moves, EndedPCs
<1>2. CASE /\ attempt' = [attempt EXCEPT ![c] = @ + 1]
           /\ StartRound(c, rebuild[c], part[c], prevs[c][part[c]])
           /\ UNCHANGED <<prevs, seen, missing, rebuild>>
  <2>1. pc'[c] = "temp" /\ part'[c] = part[c] /\ attempt'[c] = attempt[c] + 1
    BY <1>2 DEF StartRound, CliTypeOK
  <2> QED BY <1>2, <2>1 DEF Moves
<1>3. CASE pc' = [pc EXCEPT ![c] = "pending"] /\ UNCHANGED <<part, prevs, seen, missing, attempt, rebuild>>
  <2>1. pc'[c] = "pending"
    BY <1>3 DEF CliTypeOK
  <2> QED BY <1>3, <2>1 DEF Moves
<1> QED BY <1>1, <1>2, <1>3 DEF RoundFailed

\* Every step of a call moves it on in one of these ways.
LEMMA StepMoves ==
  ASSUME CliTypeOK, NEW c \in Clients, ClientStep(c) \/ Crash(c)
  PROVE  Moves(c) /\ pc[c] \notin EndedPCs
<1>1. ASSUME NEW where \in EndedPCs, Stop(c, where) PROVE Moves(c)
  BY <1>1 DEF Stop, CliTypeOK, Moves
<1>2. "failed" \in EndedPCs /\ "done" \in EndedPCs /\ "crashed" \in EndedPCs
  BY DEF EndedPCs
<1>3. CASE Build(c)
  <2>1. CASE Stop(c, "failed")
    BY <1>1, <1>2, <1>3, <2>1 DEF Build, EndedPCs
  <2>2. CASE ~Stop(c, "failed")
    <3>1. pc[c] = "build" /\ pc'[c] = "temp" /\ rebuild'[c] = rebuild[c]
      BY <1>3, <2>2 DEF Build, StartRound, CliTypeOK
    <3> QED BY <3>1 DEF Moves, EndedPCs
  <2> QED BY <2>1, <2>2
<1>4. ASSUME NEW r \in Reps,
             TempAnswer(c, r) \/ PermAnswer(c, r) \/ PublishAnswer(c, r)
               \/ PendingAnswer(c, r) \/ GatherVote(c, r)
      PROVE  Moves(c) /\ pc[c] \notin EndedPCs
  BY <1>4 DEF TempAnswer, PermAnswer, PublishAnswer, PendingAnswer, GatherVote, Moves, EndedPCs
<1>5. ASSUME NEW where \in {"perm", "rperm"}, NEW b, NEW reps, StartPerm(c, where, b, reps)
      PROVE  /\ pc'[c] = where /\ part'[c] = part[c] /\ prevs'[c] = prevs[c]
             /\ attempt'[c] = attempt[c] /\ rebuild'[c] = rebuild[c]
  BY <1>5 DEF StartPerm, CliTypeOK
<1>6. ASSUME NEW where \in {"publish", "rpublish"}, StartPublish(c, where)
      PROVE  /\ pc'[c] = where /\ part'[c] = part[c] /\ prevs'[c] = prevs[c]
             /\ attempt'[c] = attempt[c] /\ rebuild'[c] = rebuild[c]
  BY <1>6 DEF StartPublish, CliTypeOK
<1>7. CASE TempDone(c)
  <2>1. pc[c] = "temp" /\ pc[c] \in InRound /\ pc[c] \notin EndedPCs
    BY <1>7 DEF TempDone, InRound, EndedPCs
  <2>2. CASE RoundFailed(c, err[c].code)
    BY <2>1, <2>2, RoundFailedMoves
  <2>3. CASE Stop(c, "failed")
    BY <1>1, <1>2, <2>1, <2>3
  <2>4. CASE \E b, reps : StartPerm(c, "perm", b, reps)
    BY <1>5, <2>1, <2>4 DEF Moves
  <2> QED BY <1>7, <2>2, <2>3, <2>4 DEF TempDone
<1>8. CASE PermDone(c)
  <2>1. pc[c] = "perm" /\ pc[c] \in InRound /\ pc[c] \notin EndedPCs
    BY <1>8 DEF PermDone, InRound, EndedPCs
  <2>2. CASE RoundFailed(c, err[c].code)
    BY <2>1, <2>2, RoundFailedMoves
  <2>3. CASE StartPublish(c, "publish")
    BY <1>6, <2>1, <2>3 DEF Moves
  <2> QED BY <1>1, <1>2, <1>8, <2>1, <2>2, <2>3 DEF PermDone
<1>9. CASE PublishDone(c)
  <2>1. pc[c] = "publish" /\ pc[c] \in InRound /\ pc[c] \notin EndedPCs
    BY <1>9 DEF PublishDone, InRound, EndedPCs
  <2>2. CASE RoundFailed(c, err[c].code)
    BY <2>1, <2>2, RoundFailedMoves
  <2>3. CASE /\ StartRound(c, rebuild[c], part[c] + 1, prevs[c][part[c] + 1])
             /\ UNCHANGED <<prevs, seen, missing, rebuild>>
    <3>1. pc'[c] = "temp" /\ part'[c] = part[c] + 1
      BY <2>3 DEF StartRound, CliTypeOK
    <3> QED BY <2>1, <2>3, <3>1 DEF Moves
  <2> QED BY <1>1, <1>2, <1>9, <2>1, <2>2, <2>3 DEF PublishDone
<1>10. CASE PendingDone(c)
  <2>1. pc[c] = "pending" /\ pc[c] \notin EndedPCs
    BY <1>10 DEF PendingDone, EndedPCs
  <2>2. CASE ~Stop(c, "failed")
    <3>1. pc'[c] = "gather" /\ prevs' = prevs /\ rebuild' = rebuild
      BY <1>10, <2>2 DEF PendingDone, CliTypeOK
    <3> QED BY <2>1, <3>1 DEF Moves, Recovering
  <2> QED BY <1>1, <1>2, <2>1, <2>2
<1>11. CASE GatherDone(c)
  <2>1. pc[c] = "gather" /\ pc[c] \notin EndedPCs
    BY <1>11 DEF GatherDone, EndedPCs
  <2>2. CASE ~Stop(c, "failed")
    <3>1. pc'[c] = "topup" /\ prevs' = prevs /\ rebuild' = rebuild
      BY <1>11, <2>2 DEF GatherDone, CliTypeOK
    <3> QED BY <2>1, <3>1 DEF Moves, Recovering
  <2> QED BY <1>1, <1>2, <2>1, <2>2
<1>12. CASE TopUpDone(c)
  <2>1. pc[c] = "topup" /\ pc[c] \notin EndedPCs
    BY <1>12 DEF TopUpDone, EndedPCs
  <2>2. CASE \E b, reps : StartPerm(c, "rperm", b, reps)
    BY <1>5, <2>1, <2>2 DEF Moves, Recovering
  <2> QED BY <1>1, <1>2, <1>12, <2>1, <2>2 DEF TopUpDone
<1>13. CASE RecoverAssemble(c)
  <2>1. pc[c] = "rperm" /\ pc[c] \notin EndedPCs
    BY <1>13 DEF RecoverAssemble, EndedPCs
  <2>2. CASE StartPublish(c, "rpublish")
    BY <1>6, <2>1, <2>2 DEF Moves
  <2> QED BY <1>1, <1>2, <1>13, <2>1, <2>2 DEF RecoverAssemble
<1>14. CASE RecoverDone(c)
  <2>1. pc[c] = "rpublish" /\ pc[c] \notin EndedPCs
    BY <1>14 DEF RecoverDone, EndedPCs
  <2>2. CASE pc' = [pc EXCEPT ![c] = "build"] /\ rebuild' = [rebuild EXCEPT ![c] = @ + 1]
    BY <2>1, <2>2 DEF Moves, CliTypeOK
  <2> QED BY <1>1, <1>2, <1>14, <2>1, <2>2 DEF RecoverDone
<1>15. CASE Crash(c)
  BY <1>1, <1>2, <1>15 DEF Crash, EndedPCs
<1> QED BY <1>3, <1>4, <1>7, <1>8, <1>9, <1>10, <1>11, <1>12, <1>13, <1>14, <1>15 DEF ClientStep

\* What was rendered stays rendered.
LEMMA MintedGrows ==
  ASSUME CliTypeOK, NEW c \in Clients, Moves(c), pc[c] \notin EndedPCs,
         NEW n \in Nat, NEW i \in Nat, NEW f \in Nat, Minted(c, n, i, f)
  PROVE  Minted(c, n, i, f)'
<1>1. rebuild[c] \in Nat /\ part[c] \in Nat /\ attempt[c] \in Nat
  BY BoundsAssumption, PlanAssumption DEF CliTypeOK
<1> QED BY <1>1 DEF Minted, Moves, EndedPCs, InRound, Recovering

\* Every step keeps what was rendered, and the plan of a call under way.
LEMMA StepKeeps ==
  ASSUME CliTypeOK, [Next]_vars, NEW d \in Clients
  PROVE  /\ \A n, i, f \in Nat : Minted(d, n, i, f) => Minted(d, n, i, f)'
         /\ pc'[d] \notin EndedPCs \cup {"build"} =>
              /\ rebuild'[d] = rebuild[d] /\ pc[d] \notin EndedPCs
              /\ prevs'[d] = prevs[d] \/ pc[d] = "build"
<1>1. CASE Moves(d) /\ pc[d] \notin EndedPCs
  <2>1. \A n, i, f \in Nat : Minted(d, n, i, f) => Minted(d, n, i, f)'
    BY <1>1, MintedGrows
  <2> QED BY <1>1, <2>1 DEF Moves, EndedPCs
<1>2. CASE /\ pc'[d] = pc[d] /\ part'[d] = part[d] /\ prevs'[d] = prevs[d]
           /\ attempt'[d] = attempt[d] /\ rebuild'[d] = rebuild[d]
  BY <1>2 DEF Minted
<1>3. ASSUME NEW c \in Clients, ClientStep(c) \/ Crash(c)
      PROVE  \/ Moves(d) /\ pc[d] \notin EndedPCs
             \/ /\ pc'[d] = pc[d] /\ part'[d] = part[d] /\ prevs'[d] = prevs[d]
                /\ attempt'[d] = attempt[d] /\ rebuild'[d] = rebuild[d]
  <2>1. CASE d = c
    BY <1>3, <2>1, StepMoves
  <2>2. CASE d # c
    BY <1>3, <2>2, OwnLocals DEF Others
  <2> QED BY <2>1, <2>2
<1>4. CASE UNCHANGED cliVars
  BY <1>2, <1>4 DEF cliVars
<1> QED BY <1>1, <1>2, <1>3, <1>4 DEF Next, VoteExpires, vars

\* The numbers of a block identity.
LEMMA IdNumbers ==
  /\ 0..MaxRebuilds \subseteq Nat /\ 0..Len(Plan) \subseteq Nat /\ 0..(MaxRetries + 1) \subseteq Nat
  /\ 0 \in 0..(MaxRetries + 1) /\ 1 \in 0..(MaxRetries + 1) /\ 0 \in 0..Len(Plan)
  /\ 1..Len(Plan) \subseteq 0..Len(Plan)
  BY BoundsAssumption, PlanAssumption

\* A block not yet rendered when its call is about to render.
LEMMA UnmintedAtBuild ==
  ASSUME NEW d, rebuild[d] \in Nat, pc[d] = "build", NEW i, NEW f
  PROVE  ~Minted(d, rebuild[d], i, f)
  BY DEF Minted

\* A step that adds the places Y keeps PlaceInv when each of them is new or
\* known, its block was rendered, is where its call puts it, and comes after
\* the committed blocks before it.
LEMMA AddPlaces ==
  ASSUME Sound, Sound', ChainGrows, PlaceInv, [Next]_vars, NEW Y,
         Places' \subseteq Places \cup Y,
         \A y \in Y : \A x \in Places \cup Y : x.id = y.id => x = y,
         \A y \in Y : \A d \in Clients, n \in 0..MaxRebuilds, i \in 0..Len(Plan), f \in 0..(MaxRetries + 1) :
            y.id = BlockId(d, n, i, f) => Minted(d, n, i, f)',
         \A y \in Y : \A d \in Clients, i \in 1..Len(Plan) :
            (y.id = BlockId(d, rebuild'[d], i, 0) /\ pc'[d] \notin EndedPCs) =>
               y = Place(y.id, Plan[i], prevs'[d][i], 1),
         \A y \in Y : \A d \in Clients, n \in 0..MaxRebuilds, i \in 1..Len(Plan) :
            y.id = BlockId(d, n, i, 0) => \A j \in 1..(i - 1) : Landed(d, n, j)'
  PROVE  PlaceInv'
<1>1. RepTypeOK /\ RepTypeOK' /\ CliTypeOK /\ CliTypeOK'
  BY DEF Sound, RepSound, CliSound
<1>2. OnlyMinted'
  <2> SUFFICES ASSUME NEW x \in Places', NEW d \in Clients, NEW n \in 0..MaxRebuilds,
                      NEW i \in 0..Len(Plan), NEW f \in 0..(MaxRetries + 1), x.id = BlockId(d, n, i, f)
               PROVE  Minted(d, n, i, f)'
    BY DEF OnlyMinted, BlockId
  <2>1. CASE x \in Places
    <3>1. Minted(d, n, i, f)
      BY <2>1 DEF PlaceInv, OnlyMinted
    <3> QED BY <3>1, <1>1, StepKeeps, IdNumbers
  <2> QED BY <2>1
<1>3. OnePlace'
  BY DEF PlaceInv, OnePlace
<1>4. PlanPlaced'
  <2> SUFFICES ASSUME NEW x \in Places', NEW d \in Clients, NEW i \in 1..Len(Plan),
                      x.id = BlockId(d, rebuild'[d], i, 0), pc'[d] \notin EndedPCs
               PROVE  x = Place(x.id, Plan[i], prevs'[d][i], 1)
    BY DEF PlanPlaced, BlockId, Place
  <2>1. CASE x \in Places
    <3>1. rebuild[d] \in 0..MaxRebuilds /\ rebuild'[d] \in 0..MaxRebuilds /\ i \in 0..Len(Plan)
      BY <1>1, IdNumbers DEF CliTypeOK
    <3>2. pc'[d] # "build"
      <4> SUFFICES ASSUME pc'[d] = "build" PROVE FALSE
        OBVIOUS
      <4>1. PICK n : n = rebuild'[d]
        OBVIOUS
      <4>2. Minted(d, n, i, 0)'
        BY <1>2, <3>1, <4>1, IdNumbers DEF OnlyMinted, BlockId
      <4>3. n \in Nat
        BY <3>1, <4>1, IdNumbers
      <4> QED BY <4>1, <4>2, <4>3 DEF Minted
    <3>3. rebuild'[d] = rebuild[d] /\ pc[d] \notin EndedPCs /\ (prevs'[d] = prevs[d] \/ pc[d] = "build")
      BY <1>1, <3>2, StepKeeps
    <3>4. pc[d] # "build"
      <4> SUFFICES ASSUME pc[d] = "build" PROVE FALSE
        OBVIOUS
      <4>1. Minted(d, rebuild[d], i, 0)
        BY <2>1, <3>1, <3>3, IdNumbers DEF PlaceInv, OnlyMinted
      <4> QED BY <3>1, <4>1, UnmintedAtBuild, IdNumbers
    <3> QED BY <2>1, <3>3, <3>4 DEF PlaceInv, PlanPlaced
  <2> QED BY <2>1
<1>5. Released'
  <2> SUFFICES ASSUME NEW x \in Places', NEW d \in Clients, NEW n \in 0..MaxRebuilds,
                      NEW i \in 1..Len(Plan), x.id = BlockId(d, n, i, 0), NEW j \in 1..(i - 1)
               PROVE  Landed(d, n, j)'
    BY DEF Released, BlockId
  <2>1. CASE x \in Places
    <3>1. Landed(d, n, j)
      BY <2>1 DEF PlaceInv, Released
    <3>2. j \in 1..Len(Plan)
      BY PlanAssumption
    <3> QED BY <1>1, <3>1, <3>2, LandedStays
  <2> QED BY <2>1
<1> QED BY <1>2, <1>3, <1>4, <1>5 DEF PlaceInv

\* Starting a round keeps PlaceInv.
LEMMA StartsPlaces ==
  ASSUME Sound, Sound', ChainGrows, RoundInv, PlaceInv, [Next]_vars,
         NEW c \in Clients, NEW i \in 1..Len(Plan), Starts(c, i)
  PROVE  PlaceInv'
<1>1. /\ RepTypeOK /\ RepTypeOK' /\ CliTypeOK /\ rebuild[c] \in 0..MaxRebuilds /\ i \in 0..Len(Plan)
      /\ part[c] \in 1..Len(Plan)
  BY IdNumbers DEF Sound, RepSound, CliSound, CliTypeOK
<1>2. PICK n, y : n = rebuild[c] /\ y = Place(BlockId(c, n, i, 0), Plan[i], prevs'[c][i], 1)
  OBVIOUS
<1>3. y.id = BlockId(c, n, i, 0) /\ y = Place(y.id, Plan[i], prevs'[c][i], 1)
  BY <1>2 DEF Place
<1>4. Places' \subseteq Places \cup {y}
  BY <1>2 DEF Starts, NewPlace
<1>5. ASSUME NEW x \in Places, x.id = y.id PROVE x = y
  <2>1. CASE pc[c] = "build"
    <3>1. Minted(c, rebuild[c], i, 0)
      BY <1>1, <1>2, <1>3, <1>5, IdNumbers DEF PlaceInv, OnlyMinted
    <3> QED BY <1>1, <2>1, <3>1, UnmintedAtBuild, IdNumbers
  <2>2. CASE pc[c] \in InRound /\ prevs'[c] = prevs[c]
    <3>1. x = Place(x.id, Plan[i], prevs[c][i], 1)
      BY <1>2, <1>3, <1>5, <2>2 DEF PlaceInv, PlanPlaced, EndedPCs, InRound
    <3> QED BY <1>3, <1>5, <2>2, <3>1
  <2> QED BY <2>1, <2>2 DEF Starts, InRound
<1>6. ASSUME NEW d \in Clients, NEW m, NEW k, NEW f, y.id = BlockId(d, m, k, f)
      PROVE  d = c /\ m = n /\ k = i /\ f = 0
  BY <1>3, <1>6 DEF BlockId
<1>7. Minted(c, n, i, 0)'
  BY <1>2 DEF Starts, Minted
<1>8. \A j \in 1..(i - 1) : Landed(c, n, j)'
  <2>1. \A j \in 1..(i - 1) : Landed(c, n, j)
    <3>1. CASE pc[c] = "build" /\ i = 1
      BY <3>1
    <3>2. CASE pc[c] \in InRound /\ i = part[c]
      BY <1>2, <3>2 DEF RoundInv, Progress
    <3>3. CASE pc[c] = "publish" /\ good[c] /\ i = part[c] + 1
      <4>1. \A j \in 1..(i - 1) : j \in 1..(part[c] - 1) \/ j = part[c]
        BY <1>1, <3>3
      <4> QED BY <1>2, <3>3, <4>1 DEF RoundInv, Progress, InRound
    <3> QED BY <3>1, <3>2, <3>3 DEF Starts
  <2>2. \A j \in 1..(i - 1) : j \in 1..Len(Plan)
    BY PlanAssumption
  <2> QED BY <1>1, <2>1, <2>2, LandedStays
<1>9. rebuild'[c] = n
  BY <1>2 DEF Starts
<1> DEFINE Y == {y}
<1>10. \A z \in Y : \A x \in Places \cup Y : x.id = z.id => x = z
  BY <1>5
<1>11. \A z \in Y : \A d \in Clients, m \in 0..MaxRebuilds, k \in 0..Len(Plan), f \in 0..(MaxRetries + 1) :
         z.id = BlockId(d, m, k, f) => Minted(d, m, k, f)'
  BY <1>6, <1>7
<1>12. \A z \in Y : \A d \in Clients, k \in 1..Len(Plan) :
         (z.id = BlockId(d, rebuild'[d], k, 0) /\ pc'[d] \notin EndedPCs) =>
            z = Place(z.id, Plan[k], prevs'[d][k], 1)
  <2> SUFFICES ASSUME NEW d \in Clients, NEW k \in 1..Len(Plan), y.id = BlockId(d, rebuild'[d], k, 0)
               PROVE  y = Place(y.id, Plan[k], prevs'[d][k], 1)
    OBVIOUS
  <2>1. d = c /\ k = i
    BY <1>3 DEF BlockId
  <2> QED BY <1>3, <2>1
<1>13. \A z \in Y : \A d \in Clients, m \in 0..MaxRebuilds, k \in 1..Len(Plan) :
         z.id = BlockId(d, m, k, 0) => \A j \in 1..(k - 1) : Landed(d, m, j)'
  BY <1>6, <1>8
<1> HIDE DEF Y
<1> QED BY <1>4, <1>10, <1>11, <1>12, <1>13, AddPlaces DEF Y

\* A fee block that was not rendered before keeps PlaceInv.
LEMMA PaysPlaces ==
  ASSUME Sound, Sound', ChainGrows, PlaceInv, [Next]_vars,
         NEW c \in Clients, NEW n \in 0..MaxRebuilds, NEW i \in 0..Len(Plan), NEW f \in 1..(MaxRetries + 1),
         Pays(c, BlockId(c, n, i, f)), ~Minted(c, n, i, f), Minted(c, n, i, f)'
  PROVE  PlaceInv'
<1>1. PICK prev, k : Places' \subseteq Places \cup {Place(BlockId(c, n, i, f), Payer, prev, k)}
  BY DEF Pays, NewPlace
<1> DEFINE y == Place(BlockId(c, n, i, f), Payer, prev, k)
           Y == {y}
<1>2. f \in 0..(MaxRetries + 1) /\ f # 0
  BY BoundsAssumption
<1>3. y.id = BlockId(c, n, i, f)
  BY DEF Place
<1> HIDE DEF y
<1>4. \A x \in Places : x.id # y.id
  BY <1>2, <1>3 DEF PlaceInv, OnlyMinted
<1>5. \A d, m, l, g : y.id = BlockId(d, m, l, g) => d = c /\ m = n /\ l = i /\ g = f
  BY <1>3 DEF BlockId
<1>6. \A z \in Y : \A x \in Places \cup Y : x.id = z.id => x = z
  BY <1>4
<1>7. \A z \in Y : \A d \in Clients, m \in 0..MaxRebuilds, l \in 0..Len(Plan), g \in 0..(MaxRetries + 1) :
         z.id = BlockId(d, m, l, g) => Minted(d, m, l, g)'
  BY <1>5
<1>8. \A z \in Y : \A d \in Clients, l \in 1..Len(Plan) :
         (z.id = BlockId(d, rebuild'[d], l, 0) /\ pc'[d] \notin EndedPCs) =>
            z = Place(z.id, Plan[l], prevs'[d][l], 1)
  BY <1>2, <1>3 DEF BlockId
<1>9. \A z \in Y : \A d \in Clients, m \in 0..MaxRebuilds, l \in 1..Len(Plan) :
         z.id = BlockId(d, m, l, 0) => \A j \in 1..(l - 1) : Landed(d, m, j)'
  BY <1>2, <1>5
<1>10. Places' \subseteq Places \cup Y
  BY <1>1 DEF y
<1> HIDE DEF Y
<1> QED BY <1>6, <1>7, <1>8, <1>9, <1>10, AddPlaces

\* Before the first step nothing has a place.
LEMMA PlaceInit == Init => PlaceInv
<1> SUFFICES ASSUME Init PROVE Places = {}
  BY DEF PlaceInv, OnlyMinted, PlanPlaced, OnePlace, Released
<1>1. \A b \in Known : b = {}
  BY DEF Init, RepInit, Known, RepKnown, CliKnown
<1>2. PlacesOf({}) = {}
  BY PlaceIn
<1> QED BY <1>1, <1>2, PlaceIn

\* c adds a fee block it has not rendered before.
PaysAnew(c) ==
  \E n \in 0..MaxRebuilds, i \in 0..Len(Plan), f \in 1..(MaxRetries + 1) :
     Pays(c, BlockId(c, n, i, f)) /\ ~Minted(c, n, i, f) /\ Minted(c, n, i, f)'

\* The places a step may add.
LEMMA StepPlaces ==
  ASSUME Sound, [Next]_vars
  PROVE  \/ Places' \subseteq Places
         \/ \E c \in Clients : (\E i \in 1..Len(Plan) : Starts(c, i)) \/ PaysAnew(c)
<1>1. ASSUME NEW c \in Clients, PaysRound(c) PROVE PaysAnew(c)
  <2>1. /\ rebuild[c] \in 0..MaxRebuilds /\ part[c] \in 0..Len(Plan) /\ part[c] > 0
        /\ attempt[c] \in Nat /\ 1 + attempt[c] \in 1..(MaxRetries + 1) /\ rebuild[c] \in Nat /\ part[c] \in Nat
    BY PlanAssumption, BoundsAssumption DEF Sound, CliSound, CliTypeOK
  <2>2. PICK n, i, f : n = rebuild[c] /\ i = part[c] /\ f = 1 + attempt[c]
    OBVIOUS
  <2>3. ~Minted(c, n, i, f)
    BY <1>1, <2>1, <2>2 DEF PaysRound, Minted, Recovering, EndedPCs
  <2>4. Minted(c, n, i, f)'
    BY <1>1, <2>1, <2>2 DEF PaysRound, Minted
  <2>5. Pays(c, BlockId(c, n, i, f))
    BY <1>1, <2>2 DEF PaysRound
  <2> QED BY <2>1, <2>2, <2>3, <2>4, <2>5 DEF PaysAnew
<1>2. ASSUME NEW c \in Clients, PaysRecovery(c) PROVE PaysAnew(c)
  <2>1. rebuild[c] \in 0..MaxRebuilds /\ rebuild[c] \in Nat /\ 0 \in 0..Len(Plan) /\ 1 \in 1..(MaxRetries + 1)
    BY PlanAssumption, BoundsAssumption DEF Sound, CliSound, CliTypeOK
  <2>2. PICK n : n = rebuild[c]
    OBVIOUS
  <2>3. ~Minted(c, n, 0, 1)
    BY <1>2, <2>1, <2>2 DEF PaysRecovery, Minted, Recovering, EndedPCs
  <2>4. Minted(c, n, 0, 1)'
    BY <1>2, <2>1, <2>2 DEF PaysRecovery, Minted
  <2>5. Pays(c, BlockId(c, n, 0, 1))
    BY <1>2, <2>2 DEF PaysRecovery
  <2> QED BY <2>1, <2>2, <2>3, <2>4, <2>5 DEF PaysAnew
<1>3. ASSUME NEW c \in Clients, ClientStep(c) \/ Crash(c)
      PROVE  Places' \subseteq Places \/ (\E i \in 1..Len(Plan) : Starts(c, i)) \/ PaysAnew(c)
  BY <1>1, <1>2, <1>3, StepKind
<1>4. ASSUME NEW r \in Reps, NEW a \in Accounts, VoteExpires(r, a) PROVE Places' \subseteq Places
  BY <1>4, ExpireKnown DEF Sound, RepSound, CliSound
<1>5. ASSUME UNCHANGED vars PROVE Places' \subseteq Places
  BY <1>5 DEF vars, repVars, cliVars, Places, Known, RepKnown, CliKnown
<1> QED BY <1>3, <1>4, <1>5 DEF Next

\* Every step keeps PlaceInv.
LEMMA PlaceStep == IInv /\ RoundInv /\ PlaceInv /\ [Next]_vars => PlaceInv'
<1> SUFFICES ASSUME IInv, RoundInv, PlaceInv, [Next]_vars PROVE PlaceInv'
  OBVIOUS
<1>1. Sound /\ Sound' /\ ChainGrows
  <2>1. Sound
    BY IInvSplit
  <2>2. Sound'
    BY StepSound, IInvSplit, PTL
  <2> QED BY <2>1, <2>2, ChainStep
<1>2. CASE Places' \subseteq Places
  <2>1. PICK Y : Y = {}
    OBVIOUS
  <2>2. Places' \subseteq Places \cup Y
    BY <1>2
  <2>3. \A y \in Y : \A x \in Places \cup Y : x.id = y.id => x = y
    BY <2>1
  <2>4. \A y \in Y : \A d \in Clients, n \in 0..MaxRebuilds, i \in 0..Len(Plan), f \in 0..(MaxRetries + 1) :
          y.id = BlockId(d, n, i, f) => Minted(d, n, i, f)'
    BY <2>1
  <2>5. \A y \in Y : \A d \in Clients, i \in 1..Len(Plan) :
          (y.id = BlockId(d, rebuild'[d], i, 0) /\ pc'[d] \notin EndedPCs) =>
             y = Place(y.id, Plan[i], prevs'[d][i], 1)
    BY <2>1
  <2>6. \A y \in Y : \A d \in Clients, n \in 0..MaxRebuilds, i \in 1..Len(Plan) :
          y.id = BlockId(d, n, i, 0) => \A j \in 1..(i - 1) : Landed(d, n, j)'
    BY <2>1
  <2> QED BY <1>1, <2>2, <2>3, <2>4, <2>5, <2>6, AddPlaces
<1>3. ASSUME NEW c \in Clients, PaysAnew(c) PROVE PlaceInv'
  BY <1>1, <1>3, PaysPlaces DEF PaysAnew
<1> QED BY <1>1, <1>2, <1>3, StepPlaces, StartsPlaces

\* Every reachable state satisfies PlaceInv.
THEOREM PlaceInvariant == Spec => []PlaceInv
<1> QED BY PlaceInit, PlaceStep, RoundInvariant, InductiveInvariant, PTL DEF Spec

\* A block built on `prev' is at height n.
AtHeight(prev, n) == Len(prev) + 1 = n

\* Each block of an entry of a ledger has a place in that account, on a chain
\* as long as the entries before it: a quorum voted for it there.
LEMMA EntryPlaced ==
  ASSUME IInv, NEW r \in Reps, NEW a \in Accounts, NEW n \in 1..Len(chain[r][a]),
         NEW k \in 1..Len(chain[r][a][n])
  PROVE  \E prev \in Chains : /\ Place(chain[r][a][n][k], a, prev, k) \in Places
                             /\ AtHeight(prev, n)
<1>1. PICK Q \in Quorums : \A v \in Q : \E b \in cast[v] : \E p \in b :
        p.acct = a /\ Len(p.prev) + 1 = n /\ p.ids = chain[r][a][n]
  BY DEF IInv, EntriesBacked, Backed
<1>2. PICK v \in Q : v \in Reps
  BY QuorumAssumption
<1>3. PICK b \in cast[v] : \E p \in b :
        p.acct = a /\ Len(p.prev) + 1 = n /\ p.ids = chain[r][a][n]
  BY <1>1, <1>2
<1>4. PICK p \in b : p.acct = a /\ Len(p.prev) + 1 = n /\ p.ids = chain[r][a][n]
  BY <1>3
<1>5. b \in Known /\ p.prev \in Chains
  BY <1>2, <1>3 DEF Known, RepKnown, IInv, TypeOK, RepTypeOK, Bodies, Parts
<1>6. Place(p.ids[k], p.acct, p.prev, k) \in Places
  BY <1>4, <1>5, PlaceIn
<1> QED BY <1>4, <1>5, <1>6 DEF AtHeight

\* originate publishes in order: a block of the plan is committed only when the
\* blocks before it in the same rendering are.
THEOREM PartsInOrderHolds == Spec => []PartsInOrder
<1>1. IInv /\ PlaceInv => PartsInOrder
  <2> SUFFICES ASSUME IInv, PlaceInv, NEW c \in Clients, NEW n \in 0..MaxRebuilds,
                      NEW i \in 1..Len(Plan), NEW j \in 1..Len(Plan), NEW r \in Reps,
                      j < i, Holds(r, c, n, i)
               PROVE  Landed(c, n, j)
    BY DEF PartsInOrder, Landed
  <2>1. PICK m \in 1..Len(chain[r][Plan[i]]) :
          \E k \in 1..Len(chain[r][Plan[i]][m]) : chain[r][Plan[i]][m][k] = BlockId(c, n, i, 0)
    BY DEF Holds, OnMain
  <2>2. PICK k \in 1..Len(chain[r][Plan[i]][m]) : chain[r][Plan[i]][m][k] = BlockId(c, n, i, 0)
    BY <2>1
  <2>3. Plan[i] \in Accounts
    BY PlanAssumption
  <2>4. PICK prev \in Chains : Place(BlockId(c, n, i, 0), Plan[i], prev, k) \in Places
    <3>1. \E prev \in Chains : Place(chain[r][Plan[i]][m][k], Plan[i], prev, k) \in Places
      BY <2>3, EntryPlaced
    <3> QED BY <2>2, <3>1
  <2>5. Place(BlockId(c, n, i, 0), Plan[i], prev, k).id = BlockId(c, n, i, 0)
    BY DEF Place
  <2>6. j \in 1..(i - 1)
    BY PlanAssumption
  <2> QED BY <2>4, <2>5, <2>6 DEF PlaceInv, Released
<1> QED BY <1>1, InductiveInvariant, PlaceInvariant, PTL

-----------------------------------------------------------------------------
(***************************************************************************)
(* The write path implements WriteCalls.  A commit is a step Apply: the    *)
(* blocks it adds stand in the publisher's body, so OnlyMinted and         *)
(* Released speak of them.  A step of a call that ends it is Return or     *)
(* GiveUp, one that leaves a recovery with success is Render, and no other *)
(* step shows.                                                             *)
(***************************************************************************)

\* What took effect stays, and changes with the ledgers only.
LEMMA EffectStays ==
  ASSUME Sound, Sound', [Next]_vars
  PROVE  TookEffect \subseteq TookEffect' /\ (chain' = chain => TookEffect' = TookEffect)
<1>1. ChainGrows /\ RepTypeOK /\ RepTypeOK'
  BY ChainStep DEF Sound, RepSound
<1>2. ASSUME NEW c \in Clients, NEW n \in 0..MaxRebuilds, NEW i \in 1..Len(Plan), Landed(c, n, i)
      PROVE  \E r \in Reps : Holds(r, c, n, i)'
  <2>1. Landed(c, n, i)'
    BY <1>1, <1>2, LandedStays
  <2> QED BY <2>1 DEF Landed
<1>3. TookEffect \subseteq TookEffect'
  <2> SUFFICES ASSUME NEW x \in TookEffect PROVE x \in TookEffect'
    OBVIOUS
  <2>1. /\ x[1] \in Clients /\ x[2] \in 0..MaxRebuilds /\ x[3] \in 1..Len(Plan)
        /\ Landed(x[1], x[2], x[3]) /\ x \in Clients \X (0..MaxRebuilds) \X (1..Len(Plan))
    BY DEF TookEffect, Landed
  <2> QED BY <1>2, <2>1 DEF TookEffect
<1>4. chain' = chain => TookEffect' = TookEffect
  BY DEF TookEffect, Holds, OnMain
<1> QED BY <1>3, <1>4

\* A block that takes effect was rendered, and the blocks before it in its
\* rendering have taken effect.
LEMMA EffectNew ==
  ASSUME IInv, PlaceInv, [Next]_vars, NEW c \in Clients, NEW n \in 0..MaxRebuilds,
         NEW i \in 1..Len(Plan), Landed(c, n, i)', ~Landed(c, n, i)
  PROVE  n <= rebuild[c] /\ \A j \in 1..(i - 1) : Landed(c, n, j)
<1> DEFINE a == Plan[i]
           id == BlockId(c, n, i, 0)
<1>1. Sound /\ RepTypeOK /\ CliTypeOK /\ a \in Accounts
  BY IInvSplit, PlanAssumption DEF IInv, TypeOK
<1>2. PICK v \in Reps : \E m \in 1..Len(chain'[v][a]) :
        \E k \in 1..Len(chain'[v][a][m]) : chain'[v][a][m][k] = id
  BY DEF Landed, Holds, OnMain
<1>3. PICK m \in 1..Len(chain'[v][a]) :
        \E k \in 1..Len(chain'[v][a][m]) : chain'[v][a][m][k] = id
  BY <1>2
<1>4. PICK k \in 1..Len(chain'[v][a][m]) : chain'[v][a][m][k] = id
  BY <1>3
<1>5. chain'[v][a] # chain[v][a]
  BY <1>3, <1>4 DEF Landed, Holds, OnMain
<1>6. PICK d \in Clients : \E r \in Reps :
        body[d] \in Bodies /\ WellFormed(body[d]) /\ Commit(r, body[d])
  BY <1>1, <1>5, CommitOnly
<1>7. PICK r \in Reps : body[d] \in Bodies /\ WellFormed(body[d]) /\ Commit(r, body[d])
  BY <1>6
<1>8. v = r /\ a \in AcctsOf(body[d])
  BY <1>1, <1>5, <1>7, CommitChain
<1>9. PICK p \in body[d] : p.acct = a
  BY <1>8 DEF AcctsOf
<1>10. chain'[v][a] = Append(chain[v][a], p.ids) /\ p.ids \in Seq(Blocks)
  <2>1. chain'[r][p.acct] = Append(chain[r][p.acct], p.ids) /\ p.ids \in Seq(Blocks)
    BY <1>1, <1>7, CommitChain
  <2> QED BY <1>8, <1>9, <2>1
<1>11. /\ chain[v][a] \in Seq(Seq(Blocks)) /\ Len(chain[v][a]) \in Nat
       /\ Len(chain'[v][a]) = Len(chain[v][a]) + 1
       /\ \A l \in 1..Len(chain[v][a]) : chain'[v][a][l] = chain[v][a][l]
       /\ chain'[v][a][Len(chain[v][a]) + 1] = p.ids
  <2>1. chain[v][a] \in Seq(Seq(Blocks)) /\ Len(chain[v][a]) \in Nat
    BY <1>1 DEF RepTypeOK, Chains
  <2> QED BY <1>10, <2>1, AppendFacts
<1>12. m = Len(chain[v][a]) + 1
  <2> SUFFICES ASSUME m \in 1..Len(chain[v][a]) PROVE FALSE
    BY <1>3, <1>11
  <2>1. chain[v][a][m] = chain'[v][a][m]
    BY <1>11
  <2>2. OnMain(v, a, id)
    BY <1>4, <2>1 DEF OnMain
  <2> QED BY <2>2 DEF Landed, Holds
<1>13. p.ids[k] = id /\ k \in 1..Len(p.ids)
  BY <1>4, <1>11, <1>12
<1>14. Place(p.ids[k], p.acct, p.prev, k) \in Places /\ Place(p.ids[k], p.acct, p.prev, k).id = id
  <2>1. body[d] \in Known
    BY CliKnownIn
  <2> QED BY <1>13, <2>1, PlaceIn DEF Place
<1>15. Minted(c, n, i, 0)
  BY <1>14, IdNumbers DEF PlaceInv, OnlyMinted
<1>16. n <= rebuild[c]
  BY <1>1, <1>15, BoundsAssumption DEF Minted, CliTypeOK
<1> QED BY <1>14, <1>16 DEF PlaceInv, Released

\* A commit is a step Apply of WriteCalls.
LEMMA CommitApplies ==
  ASSUME IInv, IInv', PlaceInv, [Next]_vars, chain' # chain
  PROVE  Calls!Apply
<1>1. Sound /\ Sound'
  BY IInvSplit, PTL
<1>2. UNCHANGED <<pc, rebuild>>
  BY <1>1, CommitOnly
<1>3. [c \in Clients |-> Status(c)]' = [c \in Clients |-> Status(c)]
  BY <1>2 DEF Status, Ended
<1>4. ASSUME NEW x \in TookEffect' \ TookEffect
      PROVE  /\ x[2] <= rebuild[x[1]]
             /\ \A j \in 1..(x[3] - 1) : <<x[1], x[2], j>> \in TookEffect
  <2>1. PICK c \in Clients, n \in 0..MaxRebuilds, i \in 1..Len(Plan) : x = <<c, n, i>>
    BY DEF TookEffect
  <2>2. x[1] = c /\ x[2] = n /\ x[3] = i /\ x \in Clients \X (0..MaxRebuilds) \X (1..Len(Plan))
    BY <2>1
  <2>3. ~Landed(c, n, i)
    BY <2>2 DEF TookEffect, Landed
  <2>4. Landed(c, n, i)'
    BY <2>2 DEF TookEffect, Landed, Holds, OnMain, BlockId
  <2>5. n <= rebuild[c] /\ \A j \in 1..(i - 1) : Landed(c, n, j)
    BY <2>3, <2>4, EffectNew
  <2>6. ASSUME NEW j \in 1..(i - 1) PROVE <<c, n, j>> \in TookEffect
    <3>1. j \in 1..Len(Plan)
      BY PlanAssumption
    <3>2. <<c, n, j>> \in Clients \X (0..MaxRebuilds) \X (1..Len(Plan))
      BY <3>1
    <3>3. \E r \in Reps : Holds(r, c, n, j)
      BY <2>5 DEF Landed
    <3> QED BY <3>2, <3>3 DEF TookEffect
  <2> QED BY <2>2, <2>5, <2>6
<1> QED BY <1>1, <1>2, <1>3, <1>4, EffectStays DEF Calls!Apply

\* Any other step of a call ends it, renders anew or does not show.
LEMMA CallShows ==
  ASSUME IInv, IInv', RoundInv', NEW c \in Clients, ClientStep(c) \/ Crash(c), chain' = chain,
         TookEffect' = TookEffect
  PROVE  \/ Calls!Render(c) \/ Calls!Return(c) \/ Calls!GiveUp(c)
         \/ [d \in Clients |-> Status(d)]' = [d \in Clients |-> Status(d)] /\ rebuild' = rebuild
<1> DEFINE st == [d \in Clients |-> Status(d)]
<1>1. CliTypeOK /\ CliTypeOK' /\ Others(c) /\ Moves(c) /\ pc[c] \notin EndedPCs
  BY OwnLocals, StepMoves DEF IInv, TypeOK
<1>2. \A d \in Clients \ {c} : Status(d)' = Status(d) /\ rebuild'[d] = rebuild[d]
  BY <1>1 DEF Others, Status, Ended
<1>3. Status(c) = "running"
  BY <1>1 DEF Status, Ended, EndedPCs
<1>4. rebuild \in [Clients -> 0..MaxRebuilds] /\ rebuild' \in [Clients -> 0..MaxRebuilds]
  BY <1>1 DEF CliTypeOK
<1>5. ASSUME rebuild'[c] = rebuild[c] PROVE rebuild' = rebuild
  <2>1. \A d \in Clients : rebuild'[d] = rebuild[d]
    BY <1>2, <1>5
  <2> QED BY <1>4, <2>1
<1>6. CASE pc'[c] = "done"
  <2>1. rebuild'[c] = rebuild[c]
    BY <1>1, <1>6 DEF Moves, EndedPCs, Recovering
  <2>2. Status(c)' = "returned"
    BY <1>6 DEF Status
  <2>3. st' = [st EXCEPT ![c] = "returned"]
    BY <1>2, <2>2
  <2>4. ASSUME NEW i \in 1..Len(Plan) PROVE <<c, rebuild[c], i>> \in TookEffect
    <3>1. <<c, rebuild[c], i>> \in Clients \X (0..MaxRebuilds) \X (1..Len(Plan))
      BY <1>4
    <3>2. \E r \in Reps : \E m \in 1..Len(chain'[r][Plan[i]]) :
            \E k \in 1..Len(chain'[r][Plan[i]][m]) :
               chain'[r][Plan[i]][m][k] = BlockId(c, rebuild'[c], i, 0)
      <4>1. Progress(c)'
        BY DEF RoundInv
      <4> QED BY <1>6, <4>1 DEF Progress, Landed, Holds, OnMain
    <3>3. \E r \in Reps : Holds(r, c, rebuild[c], i)
      BY <2>1, <3>2 DEF Holds, OnMain
    <3> QED BY <3>1, <3>3 DEF TookEffect
  <2> HIDE DEF st
  <2>5. st[c] = "running"
    BY <1>3 DEF st
  <2> QED BY <1>5, <2>1, <2>3, <2>4, <2>5 DEF Calls!Return, st
<1>7. CASE pc'[c] \in {"failed", "crashed"}
  <2>1. rebuild'[c] = rebuild[c]
    BY <1>1, <1>7 DEF Moves, EndedPCs, Recovering
  <2>2. Status(c)' = "gave_up"
    BY <1>7 DEF Status, Ended
  <2>3. st' = [st EXCEPT ![c] = "gave_up"]
    BY <1>2, <2>2
  <2> HIDE DEF st
  <2>4. st[c] = "running"
    BY <1>3 DEF st
  <2> QED BY <1>5, <2>1, <2>3, <2>4 DEF Calls!GiveUp, st
<1>8. CASE pc'[c] \notin EndedPCs
  <2>1. Status(c)' = "running"
    BY <1>8 DEF Status, Ended, EndedPCs
  <2>2. st' = st
    BY <1>2, <1>3, <2>1
  <2>3. CASE rebuild'[c] = rebuild[c]
    BY <1>5, <2>2, <2>3
  <2>4. CASE rebuild'[c] # rebuild[c]
    <3>1. rebuild'[c] = rebuild[c] + 1
      BY <1>1, <1>8, <2>4 DEF Moves
    <3>2. rebuild' = [rebuild EXCEPT ![c] = @ + 1]
      BY <1>2, <1>4, <3>1
    <3>3. rebuild[c] < MaxRebuilds
      BY <1>4, <3>1, BoundsAssumption
    <3> HIDE DEF st
    <3>4. st[c] = "running"
      BY <1>3 DEF st
    <3> QED BY <2>2, <3>2, <3>3, <3>4 DEF Calls!Render, st
  <2> QED BY <2>3, <2>4
<1> QED BY <1>6, <1>7, <1>8 DEF EndedPCs

\* The write path implements what its callers rely on.
THEOREM ImplementsWriteCallsHolds == Spec => ImplementsWriteCalls
<1>1. Init => Calls!Init
  <2> SUFFICES ASSUME Init PROVE Calls!Init
    OBVIOUS
  <2>1. [c \in Clients |-> Status(c)] = [c \in Clients |-> "running"]
    BY DEF Init, Status, Ended
  <2>2. TookEffect = {}
    <3>1. \A r \in Reps, i \in 1..Len(Plan) : Len(chain[r][Plan[i]]) = 0
      BY PlanAssumption DEF Init, RepInit
    <3> QED BY <3>1 DEF TookEffect, Holds, OnMain
  <2> QED BY <2>1, <2>2 DEF Init, Calls!Init
<1>2. IInv /\ IInv' /\ RoundInv' /\ PlaceInv /\ [Next]_vars
        => [Calls!Next]_(<<[c \in Clients |-> Status(c)], rebuild, TookEffect>>)
  <2> SUFFICES ASSUME IInv, IInv', RoundInv', PlaceInv, [Next]_vars
               PROVE  \/ Calls!Next
                      \/ /\ [c \in Clients |-> Status(c)]' = [c \in Clients |-> Status(c)]
                         /\ rebuild' = rebuild /\ TookEffect' = TookEffect
    OBVIOUS
  <2>1. Sound /\ Sound'
    BY IInvSplit, PTL
  <2>2. CASE chain' # chain
    BY <2>2, CommitApplies DEF Calls!Next
  <2>3. CASE chain' = chain
    <3>1. TookEffect' = TookEffect
      BY <2>1, <2>3, EffectStays
    <3>2. ASSUME NEW c \in Clients, ClientStep(c) \/ Crash(c)
          PROVE  \/ Calls!Next
                 \/ [d \in Clients |-> Status(d)]' = [d \in Clients |-> Status(d)] /\ rebuild' = rebuild
      BY <2>3, <3>1, <3>2, CallShows DEF Calls!Next
    <3>3. CASE UNCHANGED cliVars
      <4>1. pc' = pc /\ rebuild' = rebuild
        BY <3>3 DEF cliVars
      <4> QED BY <3>1, <4>1 DEF Status, Ended
    <3> QED BY <3>1, <3>2, <3>3 DEF Next, VoteExpires, vars
  <2> QED BY <2>2, <2>3
<1> QED BY <1>1, <1>2, InductiveInvariant, RoundInvariant, PlaceInvariant, PTL
       DEF Spec, ImplementsWriteCalls, Calls!Spec, Calls!callVars
-----------------------------------------------------------------------------
(***************************************************************************)
(* Recoveries.  A recovery remembers the identity of a pending block while *)
(* the votes that showed it may expire and its writer may vote again, so   *)
(* Settled says what stays true of such an identity: wherever it turns up, *)
(* it is the first block of the operating account.  With OnePlace, all     *)
(* votes gathered for it are for one successor of one head.                *)
(***************************************************************************)

\* A block of the plan stands first in its account.
PlanAt ==
  \A x \in Places, d \in Clients, n \in 0..MaxRebuilds, i \in 1..Len(Plan) :
    x.id = BlockId(d, n, i, 0) => x.acct = Plan[i] /\ x.at = 1

Settled(id) ==
  /\ \A x \in Places : x.id = id => x.acct = Operating /\ x.at = 1
  /\ \A d \in Clients, n \in 0..MaxRebuilds, i \in 0..Len(Plan), f \in 0..(MaxRetries + 1) :
       id = BlockId(d, n, i, f) => Minted(d, n, i, f)
  /\ \A d \in Clients, n \in 0..MaxRebuilds, i \in 1..Len(Plan) :
       id = BlockId(d, n, i, 0) => Plan[i] = Operating

\* While it gathers, a recovery has one identity and votes for it only.
Gathers(c) ==
  /\ pc[c] = "pending" => temp[c] = {} /\ perm[c] = {}
  /\ pc[c] = "gather" =>
       \E id : /\ Settled(id) /\ (\A o \in seen[c] : o.id = id)
              /\ \A v \in temp[c] \cup perm[c] : id \in IdsOf(v.body)

\* Then all its votes are for the first block it has of the operating account.
Fits(b, votes) ==
  \E q \in b : /\ q.acct = Operating /\ q.ids # << >>
               /\ \A v \in votes : FirstOf(v.body, q.ids[1], q.prev)
RecoverFits(c) ==
  pc[c] \in {"topup", "rperm", "rpublish"} => Fits(body[c], temp[c] \cup perm[c])

\* An accepted republication is on a ledger.
Republished(c) ==
  pc[c] = "rpublish" /\ good[c] => \E r \in Reps : Committed(r, body[c], Operating)

SeenSettled(c) == \A o \in seen[c] : Settled(o.id)

RecInv ==
  /\ PlanAt
  /\ \A c \in Clients : SeenSettled(c) /\ Gathers(c) /\ RecoverFits(c) /\ Republished(c)

\* A new place of a plan block is in its account, first.
LEMMA PlanAtStep ==
  ASSUME Sound, [Next]_vars, PlanAt
  PROVE  PlanAt'
<1> SUFFICES ASSUME NEW x \in Places', NEW d \in Clients, NEW n \in 0..MaxRebuilds,
                    NEW i \in 1..Len(Plan), x.id = BlockId(d, n, i, 0)
             PROVE  x.acct = Plan[i] /\ x.at = 1
  BY DEF PlanAt, BlockId
<1>1. CASE x \in Places
  BY <1>1 DEF PlanAt
<1>2. CASE x \notin Places
  <2>1. PICK c \in Clients : (\E k \in 1..Len(Plan) : Starts(c, k)) \/ PaysAnew(c)
    BY <1>2, StepPlaces
  <2>2. ASSUME NEW k \in 1..Len(Plan), Starts(c, k) PROVE x.acct = Plan[i] /\ x.at = 1
    <3>1. x = Place(BlockId(c, rebuild[c], k, 0), Plan[k], prevs'[c][k], 1)
      BY <1>2, <2>2 DEF Starts, NewPlace
    <3>2. k = i
      BY <3>1 DEF Place, BlockId
    <3> QED BY <3>1, <3>2 DEF Place
  <2>3. ASSUME PaysAnew(c) PROVE FALSE
    <3>1. PICK m \in 0..MaxRebuilds, k \in 0..Len(Plan), f \in 1..(MaxRetries + 1) :
            Pays(c, BlockId(c, m, k, f))
      BY <2>3 DEF PaysAnew
    <3>2. x.id = BlockId(c, m, k, f)
      BY <1>2, <3>1 DEF Pays, NewPlace, Place
    <3>3. f = 0
      BY <3>2 DEF BlockId
    <3> QED BY <3>3
  <2> QED BY <2>1, <2>2, <2>3
<1> QED BY <1>1, <1>2

\* A settled identity stays settled.
LEMMA SettledStays ==
  ASSUME Sound, [Next]_vars, NEW id, Settled(id)
  PROVE  Settled(id)'
<1>1. CliTypeOK
  BY DEF Sound, CliSound
<1>2. ASSUME NEW x \in Places', x.id = id PROVE x.acct = Operating /\ x.at = 1
  <2>1. CASE x \in Places
    BY <1>2, <2>1 DEF Settled
  <2>2. CASE x \notin Places
    <3>1. PICK c \in Clients : (\E k \in 1..Len(Plan) : Starts(c, k)) \/ PaysAnew(c)
      BY <2>2, StepPlaces
    <3>2. ASSUME NEW k \in 1..Len(Plan), Starts(c, k) PROVE x.acct = Operating /\ x.at = 1
      <4>1. x = Place(BlockId(c, rebuild[c], k, 0), Plan[k], prevs'[c][k], 1)
        BY <2>2, <3>2 DEF Starts, NewPlace
      <4>2. id = BlockId(c, rebuild[c], k, 0) /\ rebuild[c] \in 0..MaxRebuilds
        BY <1>1, <1>2, <4>1 DEF Place, CliTypeOK
      <4>3. Plan[k] = Operating
        BY <4>2 DEF Settled
      <4> QED BY <4>1, <4>3 DEF Place
    <3>3. ASSUME PaysAnew(c) PROVE FALSE
      <4>1. PICK m \in 0..MaxRebuilds, k \in 0..Len(Plan), f \in 1..(MaxRetries + 1) :
              Pays(c, BlockId(c, m, k, f)) /\ ~Minted(c, m, k, f)
        BY <3>3 DEF PaysAnew
      <4>2. id = BlockId(c, m, k, f) /\ f \in 0..(MaxRetries + 1)
        BY <1>2, <2>2, <4>1, BoundsAssumption DEF Pays, NewPlace, Place
      <4> QED BY <4>1, <4>2 DEF Settled
    <3> QED BY <3>1, <3>2, <3>3
  <2> QED BY <2>1, <2>2
<1>3. ASSUME NEW d \in Clients, NEW n \in 0..MaxRebuilds, NEW i \in 0..Len(Plan),
             NEW f \in 0..(MaxRetries + 1), id = BlockId(d, n, i, f)
      PROVE  Minted(d, n, i, f)'
  <2>1. Minted(d, n, i, f)
    BY <1>3 DEF Settled
  <2> QED BY <1>1, <2>1, StepKeeps, IdNumbers
<1>4. \A d \in Clients, n \in 0..MaxRebuilds, i \in 1..Len(Plan) :
        id = BlockId(d, n, i, 0) => Plan[i] = Operating
  BY DEF Settled
<1> QED BY <1>2, <1>3, <1>4 DEF Settled, BlockId

\* The first pending block of the operating account is settled (Pending).
LEMMA PendingSettled ==
  ASSUME IInv, PlaceInv, PlanAt, NEW r \in Reps, NEW p \in Pending(r, Operating), p.acct = Operating
  PROVE  Settled(p.ids[1])
<1>1. Pending(r, Operating) \in Known /\ WellFormed(Pending(r, Operating)) /\ Pending(r, Operating) \in Bodies
  BY PlanAssumption DEF Pending, Known, RepKnown, IInv, BodiesWellFormed, TypeOK, RepTypeOK
<1>2. p.ids # << >> /\ p.ids \in Seq(Blocks)
  BY <1>1 DEF WellFormed, Bodies, Parts
<1>3. 1 \in 1..Len(p.ids)
  BY <1>2
<1>4. PICK x \in Places : x = Place(p.ids[1], Operating, p.prev, 1)
  BY <1>1, <1>3, PlaceIn
<1>5. x.id = p.ids[1] /\ x.acct = Operating /\ x.at = 1
  BY <1>4 DEF Place
<1>6. \A y \in Places : y.id = p.ids[1] => y.acct = Operating /\ y.at = 1
  BY <1>5 DEF PlaceInv, OnePlace
<1> QED BY <1>5, <1>6 DEF Settled, PlaceInv, OnlyMinted, PlanAt

\* A vote that covers a settled block covers it first in the operating account.
LEMMA SettledFirst ==
  ASSUME NEW b \in Known, NEW id \in IdsOf(b), Settled(id)
  PROVE  \E p \in b : p.acct = Operating /\ p.ids # << >> /\ p.ids[1] = id
                     /\ Place(id, Operating, p.prev, 1) \in Places
<1>1. PICK p \in b : \E k \in 1..Len(p.ids) : p.ids[k] = id
  BY DEF IdsOf
<1>2. PICK k \in 1..Len(p.ids) : p.ids[k] = id
  BY <1>1
<1>3. Place(id, p.acct, p.prev, k) \in Places
  BY <1>2, PlaceIn
<1>4. p.acct = Operating /\ k = 1
  BY <1>3 DEF Settled, Place
<1>5. p.ids # << >>
  BY <1>2, <1>4
<1> QED BY <1>2, <1>3, <1>4, <1>5

\* The sample of a gathering fits all its votes.
LEMMA SampleFits ==
  ASSUME PlaceInv, NEW id, Settled(id), NEW votes, NEW sample \in votes,
         \A v \in votes : v.body \in Known /\ id \in IdsOf(v.body)
  PROVE  Fits(sample.body, votes)
<1>1. PICK q \in sample.body : q.acct = Operating /\ q.ids # << >> /\ q.ids[1] = id
                     /\ Place(id, Operating, q.prev, 1) \in Places
  BY SettledFirst
<1>2. ASSUME NEW v \in votes PROVE FirstOf(v.body, id, q.prev)
  <2>1. PICK p \in v.body : p.acct = Operating /\ p.ids # << >> /\ p.ids[1] = id
                     /\ Place(id, Operating, p.prev, 1) \in Places
    BY SettledFirst
  <2>2. Place(id, Operating, p.prev, 1) = Place(id, Operating, q.prev, 1)
    BY <1>1, <2>1 DEF PlaceInv, OnePlace, Place
  <2>3. p.prev = q.prev
    BY <2>2 DEF Place
  <2> QED BY <2>1, <2>3 DEF FirstOf
<1> QED BY <1>1, <1>2 DEF Fits

\* Votes for the body itself fit it, and a fee block changes nothing.
LEMMA FitsMore ==
  ASSUME NEW b \in Bodies, NEW votes, Fits(b, votes)
  PROVE  /\ \A r : Fits(b, votes \cup {[by |-> r, body |-> b]})
         /\ \A id \in Blocks : \A head : Fits(WithFee(b, id, head), votes)
         /\ \A fewer \in SUBSET votes : Fits(b, fewer)
<1>1. PICK q \in b : /\ q.acct = Operating /\ q.ids # << >>
                     /\ \A v \in votes : FirstOf(v.body, q.ids[1], q.prev)
  BY DEF Fits
<1>2. FirstOf(b, q.ids[1], q.prev)
  BY <1>1 DEF FirstOf
<1>3. ASSUME NEW r PROVE Fits(b, votes \cup {[by |-> r, body |-> b]})
  BY <1>1, <1>2 DEF Fits
<1>4. ASSUME NEW id \in Blocks, NEW head PROVE Fits(WithFee(b, id, head), votes)
  <2>1. q.ids \in Seq(Blocks) /\ 1 \in 1..Len(q.ids) /\ Len(q.ids) \in Nat
    BY <1>1 DEF Bodies, Parts
  <2>2. PICK p \in WithFee(b, id, head) :
          /\ p.acct = q.acct /\ p.prev = q.prev /\ Len(q.ids) <= Len(p.ids)
          /\ \A k \in 1..Len(q.ids) : p.ids[k] = q.ids[k]
    BY FeeCovers DEF Covers
  <2>3. p.ids # << >> /\ p.ids[1] = q.ids[1]
    BY <2>1, <2>2
  <2> QED BY <1>1, <2>2, <2>3 DEF Fits
<1>5. \A fewer \in SUBSET votes : Fits(b, fewer)
  BY <1>1 DEF Fits
<1> QED BY <1>3, <1>4, <1>5

\* What is committed stays committed.
LEMMA CommittedStays ==
  ASSUME RepTypeOK, RepTypeOK', ChainGrows, NEW r \in Reps, NEW b \in Bodies, NEW a \in Accounts,
         Committed(r, b, a)
  PROVE  Committed(r, b, a)'
<1>1. PICK p \in b : /\ p.acct = a /\ Len(p.prev) < Len(chain[r][a])
                     /\ chain[r][a][Len(p.prev) + 1] = p.ids
  BY DEF Committed
<1>2. Len(p.prev) \in Nat /\ Len(chain[r][a]) \in Nat /\ Len(chain'[r][a]) \in Nat
  BY DEF RepTypeOK, Chains, Bodies, Parts
<1>3. Len(chain[r][a]) <= Len(chain'[r][a]) /\ \A n \in 1..Len(chain[r][a]) : chain'[r][a][n] = chain[r][a][n]
  BY DEF ChainGrows
<1>4. Len(p.prev) + 1 \in 1..Len(chain[r][a]) /\ Len(p.prev) < Len(chain'[r][a])
  BY <1>1, <1>2, <1>3
<1> QED BY <1>1, <1>3, <1>4 DEF Committed

\* An applied staple with a block of the operating account is committed.
LEMMA AppliedCommitted ==
  ASSUME RepTypeOK, NEW r \in Reps, NEW b \in Bodies, WellFormed(b), Commit(r, b), Successor(r, b),
         NEW votes, Fits(b, votes)
  PROVE  Committed(r, b, Operating)'
<1>1. PICK q \in b : q.acct = Operating
  BY DEF Fits
<1>2. /\ chain'[r][Operating] = Append(chain[r][Operating], q.ids) /\ q.ids \in Seq(Blocks)
      /\ q.prev = chain[r][Operating] /\ chain[r][Operating] \in Seq(Seq(Blocks))
  <2>1. chain'[r][q.acct] = Append(chain[r][q.acct], q.ids) /\ q.ids \in Seq(Blocks) /\ q.prev = chain[r][q.acct]
    BY CommitChain DEF Successor
  <2> QED BY <1>1, <2>1, PlanAssumption DEF RepTypeOK, Chains
<1>3. /\ Len(chain'[r][Operating]) = Len(q.prev) + 1 /\ Len(q.prev) \in Nat
      /\ chain'[r][Operating][Len(q.prev) + 1] = q.ids
  BY <1>2, AppendFacts
<1>4. Len(q.prev) < Len(chain'[r][Operating])
  BY <1>3
<1> QED BY <1>1, <1>3, <1>4 DEF Committed

\* A call keeps what it knows of its recovery while others move.
LEMMA RecFrame ==
  ASSUME IInv, RepTypeOK', ChainGrows, [Next]_vars, NEW d \in Clients,
         Gathers(d), RecoverFits(d), Republished(d),
         pc'[d] = pc[d], body'[d] = body[d], temp'[d] = temp[d], perm'[d] = perm[d],
         seen'[d] = seen[d], good'[d] = good[d]
  PROVE  Gathers(d)' /\ RecoverFits(d)' /\ Republished(d)'
<1>1. Gathers(d)'
  <2>1. CASE pc[d] = "gather"
    <3>1. PICK id : /\ Settled(id) /\ (\A o \in seen[d] : o.id = id)
                    /\ \A v \in temp[d] \cup perm[d] : id \in IdsOf(v.body)
      BY <2>1 DEF Gathers
    <3>2. Settled(id)'
      BY <3>1, SettledStays, IInvSplit
    <3> QED BY <2>1, <3>1, <3>2 DEF Gathers, IdsOf
  <2>2. CASE pc[d] # "gather"
    BY <2>2 DEF Gathers
  <2> QED BY <2>1, <2>2
<1>2. RecoverFits(d)'
  BY DEF RecoverFits, Fits, FirstOf
<1>3. Republished(d)'
  <2> SUFFICES ASSUME pc[d] = "rpublish", good[d] PROVE Republished(d)'
    BY DEF Republished
  <2>1. PICK r \in Reps : Committed(r, body[d], Operating)
    BY DEF Republished
  <2>2. PICK b \in Bodies : b = body[d]
    BY DEF IInv, TypeOK, CliTypeOK
  <2>3. Committed(r, b, Operating)'
    BY <2>1, <2>2, CommittedStays, PlanAssumption DEF IInv, TypeOK
  <2> QED BY <2>2, <2>3 DEF Committed, Republished
<1> QED BY <1>1, <1>2, <1>3

\* Outside of a recovery there is nothing to know of it.
LEMMA RecIdle ==
  ASSUME NEW c \in Clients, pc'[c] \notin Recovering
  PROVE  Gathers(c)' /\ RecoverFits(c)' /\ Republished(c)'
  BY DEF Gathers, RecoverFits, Republished, Recovering

\* The answers of a recovery's fan-outs keep what it knows.
LEMMA RecAnswers ==
  ASSUME IInv, IInv', PlaceInv, ChainGrows, [Next]_vars, NEW c \in Clients,
         SeenSettled(c), Gathers(c), RecoverFits(c), Republished(c), NEW r \in Reps,
         TempAnswer(c, r) \/ PermAnswer(c, r) \/ PublishAnswer(c, r) \/ GatherVote(c, r)
  PROVE  Gathers(c)' /\ RecoverFits(c)' /\ Republished(c)' /\ seen'[c] = seen[c]
<1>1. /\ RepTypeOK /\ RepTypeOK' /\ CliTypeOK /\ Sound /\ body[c] \in Bodies
      /\ WellFormed(body[c]) /\ Operating \in Accounts
  BY IInvSplit, PlanAssumption DEF IInv, TypeOK, CliTypeOK, BodiesWellFormed
<1>2. CASE TempAnswer(c, r)
  <2>1. /\ pc'[c] = pc[c] /\ pc[c] \in {"temp", "topup"} /\ body'[c] = body[c] /\ perm'[c] = perm[c]
        /\ seen'[c] = seen[c] /\ temp'[c] \subseteq temp[c] \cup {[by |-> r, body |-> body[c]]}
    BY <1>1, <1>2 DEF TempAnswer, CliTypeOK
  <2>2. CASE pc[c] = "temp"
    BY <2>1, <2>2, RecIdle DEF Recovering
  <2>3. CASE pc[c] = "topup"
    <3>1. Fits(body[c], (temp[c] \cup perm[c]) \cup {[by |-> r, body |-> body[c]]})
      BY <1>1, <2>3, FitsMore DEF RecoverFits
    <3>2. temp'[c] \cup perm'[c] \subseteq (temp[c] \cup perm[c]) \cup {[by |-> r, body |-> body[c]]}
      BY <2>1
    <3>3. Fits(body[c], temp'[c] \cup perm'[c])
      BY <1>1, <3>1, <3>2, FitsMore
    <3> QED BY <2>1, <2>3, <3>3 DEF Gathers, RecoverFits, Republished, Fits, FirstOf
  <2> QED BY <2>1, <2>2, <2>3
<1>3. CASE PermAnswer(c, r)
  <2>1. /\ pc'[c] = pc[c] /\ pc[c] \in {"perm", "rperm"} /\ body'[c] = body[c] /\ temp'[c] = temp[c]
        /\ seen'[c] = seen[c] /\ perm'[c] \subseteq perm[c] \cup {[by |-> r, body |-> body[c]]}
    BY <1>1, <1>3 DEF PermAnswer, CliTypeOK
  <2>2. CASE pc[c] = "perm"
    BY <2>1, <2>2, RecIdle DEF Recovering
  <2>3. CASE pc[c] = "rperm"
    <3>1. Fits(body[c], (temp[c] \cup perm[c]) \cup {[by |-> r, body |-> body[c]]})
      BY <1>1, <2>3, FitsMore DEF RecoverFits
    <3>2. temp'[c] \cup perm'[c] \subseteq (temp[c] \cup perm[c]) \cup {[by |-> r, body |-> body[c]]}
      BY <2>1
    <3>3. Fits(body[c], temp'[c] \cup perm'[c])
      BY <1>1, <3>1, <3>2, FitsMore
    <3> QED BY <2>1, <2>3, <3>3 DEF Gathers, RecoverFits, Republished, Fits, FirstOf
  <2> QED BY <2>1, <2>2, <2>3
<1>4. CASE PublishAnswer(c, r)
  <2>1. /\ pc'[c] = pc[c] /\ pc[c] \in {"publish", "rpublish"} /\ body'[c] = body[c] /\ temp'[c] = temp[c]
        /\ seen'[c] = seen[c] /\ perm'[c] = perm[c]
    BY <1>1, <1>4 DEF PublishAnswer, CliTypeOK
  <2>2. CASE pc[c] = "publish"
    BY <2>1, <2>2, RecIdle DEF Recovering
  <2>3. CASE pc[c] = "rpublish"
    <3>1. good'[c] = good[c] \/ (PublishReply(r, body[c], perm[c]) = "ok" /\ Commit(r, body[c]))
      BY <1>1, <1>4 DEF PublishAnswer, CliTypeOK, Told, Outcomes
    <3>2. CASE good'[c] = good[c]
      BY <1>1, <2>1, <3>2, RecFrame
    <3>3. CASE PublishReply(r, body[c], perm[c]) = "ok" /\ Commit(r, body[c])
      <4>1. Successor(r, body[c])
        BY <3>3 DEF PublishReply
      <4>2. PICK b \in Bodies : b = body[c]
        BY <1>1
      <4>3. Fits(b, temp[c] \cup perm[c])
        BY <2>3, <4>2 DEF RecoverFits
      <4>4. Committed(r, b, Operating)'
        BY <1>1, <3>3, <4>1, <4>2, <4>3, AppliedCommitted
      <4>5. Republished(c)'
        BY <2>1, <4>2, <4>4 DEF Republished, Committed
      <4> QED BY <2>1, <2>3, <4>5 DEF Gathers, RecoverFits, Fits, FirstOf
    <3> QED BY <3>1, <3>2, <3>3
  <2> QED BY <2>1, <2>2, <2>3
<1>5. CASE GatherVote(c, r)
  <2>1. /\ pc'[c] = "gather" /\ pc[c] = "gather" /\ seen'[c] = seen[c]
    BY <1>1, <1>5 DEF GatherVote, CliTypeOK
  <2>2. PICK o \in seen[c] :
          temp'[c] \cup perm'[c] \subseteq (temp[c] \cup perm[c])
             \cup OwnPerm(r, Operating, o.id) \cup OwnTemp(r, Operating, o.id)
    BY <1>1, <1>5 DEF GatherVote, CliTypeOK
  <2>3. PICK id : /\ Settled(id) /\ (\A q \in seen[c] : q.id = id)
                  /\ \A v \in temp[c] \cup perm[c] : id \in IdsOf(v.body)
    BY <2>1 DEF Gathers
  <2>4. \A v \in OwnPerm(r, Operating, id) \cup OwnTemp(r, Operating, id) : id \in IdsOf(v.body)
    BY DEF OwnPerm, OwnTemp
  <2>5. \A v \in temp'[c] \cup perm'[c] : id \in IdsOf(v.body)
    BY <2>2, <2>3, <2>4
  <2>6. Settled(id)'
    BY <1>1, <2>3, SettledStays
  <2>7. Gathers(c)'
    BY <2>1, <2>3, <2>5, <2>6 DEF Gathers, IdsOf
  <2> QED BY <2>1, <2>7 DEF RecoverFits, Republished
<1> QED BY <1>2, <1>3, <1>4, <1>5

\* The other steps of a recovery keep it too.
LEMMA RecMoves ==
  ASSUME IInv, IInv', PlaceInv, PlanAt, ChainGrows, [Next]_vars, NEW c \in Clients,
         SeenSettled(c), Gathers(c), RecoverFits(c), Republished(c), pc[c] \in Recovering,
         pc'[c] \in Recovering,
         \/ \E r \in Reps : PendingAnswer(c, r)
         \/ PendingDone(c) \/ GatherDone(c) \/ TopUpDone(c) \/ RecoverAssemble(c) \/ RecoverDone(c)
  PROVE  Gathers(c)' /\ RecoverFits(c)' /\ Republished(c)' /\ (\A o \in seen'[c] : Settled(o.id))
<1>1. /\ RepTypeOK /\ CliTypeOK /\ Sound /\ body[c] \in Bodies /\ Operating \in Accounts
  BY IInvSplit, PlanAssumption DEF IInv, TypeOK, CliTypeOK
<1>2. \A where : Stop(c, where) => pc'[c] = where
  BY <1>1 DEF Stop, CliTypeOK
<1>3. "failed" \notin Recovering /\ "build" \notin Recovering
  BY DEF Recovering
<1>4. ASSUME NEW r \in Reps, PendingAnswer(c, r)
      PROVE  Gathers(c)' /\ RecoverFits(c)' /\ Republished(c)' /\ (\A o \in seen'[c] : Settled(o.id))
  <2>1. /\ pc'[c] = "pending" /\ pc[c] = "pending" /\ temp'[c] = temp[c] /\ perm'[c] = perm[c]
        /\ seen'[c] \subseteq seen[c] \cup {[by |-> r, id |-> p.ids[1]] :
                      p \in {p \in Pending(r, Operating) : p.acct = Operating}}
    BY <1>1, <1>4 DEF PendingAnswer, CliTypeOK
  <2>2. \A o \in seen'[c] : Settled(o.id)
    BY <2>1, PendingSettled DEF SeenSettled
  <2> QED BY <2>1, <2>2 DEF Gathers, RecoverFits, Republished
<1>5. CASE PendingDone(c)
  <2>1. PICK id \in MostCommon(c) :
          /\ pc' = [pc EXCEPT ![c] = "gather"]
          /\ seen' = [seen EXCEPT ![c] = {o \in @ : o.id = id}]
          /\ UNCHANGED <<temp, perm>>
    BY <1>2, <1>3, <1>5 DEF PendingDone
  <2>2. /\ pc'[c] = "gather" /\ seen'[c] = {o \in seen[c] : o.id = id} /\ pc[c] = "pending"
        /\ temp'[c] = {} /\ perm'[c] = {}
    BY <1>1, <1>5, <2>1 DEF CliTypeOK, PendingDone, Gathers
  <2>3. Settled(id)
    BY <2>1 DEF MostCommon, SeenSettled
  <2>4. Settled(id)'
    BY <1>1, <2>3, SettledStays
  <2>5. Gathers(c)'
    BY <2>2, <2>4 DEF Gathers
  <2> QED BY <2>2, <2>5 DEF RecoverFits, Republished, SeenSettled
<1>6. CASE GatherDone(c)
  <2>1. PICK sample \in temp[c] \cup perm[c] :
          /\ body' = [body EXCEPT ![c] = sample.body] /\ pc' = [pc EXCEPT ![c] = "topup"]
          /\ seen' = [seen EXCEPT ![c] = {}] /\ UNCHANGED <<temp, perm>>
    BY <1>2, <1>3, <1>6 DEF GatherDone
  <2>2. /\ pc'[c] = "topup" /\ body'[c] = sample.body /\ seen'[c] = {} /\ pc[c] = "gather"
    BY <1>1, <1>6, <2>1 DEF CliTypeOK, GatherDone
  <2>3. PICK id : /\ Settled(id) /\ \A v \in temp[c] \cup perm[c] : id \in IdsOf(v.body)
    BY <2>2 DEF Gathers
  <2>4. Fits(sample.body, temp[c] \cup perm[c])
    BY <2>3, SampleFits, CliKnownIn
  <2> QED BY <2>1, <2>2, <2>4 DEF Gathers, RecoverFits, Republished, Fits, FirstOf
<1>7. CASE TopUpDone(c)
  <2>1. PICK b : StartPerm(c, "rperm", b, Reps \ Issuers(perm[c]))
          /\ (b = body[c] \/ \E head : b = WithFee(body[c], BlockId(c, rebuild[c], 0, 1), head))
    BY <1>2, <1>3, <1>7 DEF TopUpDone
  <2>2. BlockId(c, rebuild[c], 0, 1) \in Blocks
    BY <1>1, BlocksAssumption, IdNumbers DEF CliTypeOK
  <2>3. Fits(body[c], temp[c] \cup perm[c]) /\ pc[c] = "topup"
    BY <1>7 DEF RecoverFits, TopUpDone
  <2>4. Fits(b, temp[c] \cup perm[c])
    BY <1>1, <2>1, <2>2, <2>3, FitsMore
  <2>5. pc'[c] = "rperm" /\ body'[c] = b /\ temp'[c] = temp[c] /\ perm'[c] = perm[c] /\ seen'[c] = seen[c]
    BY <1>1, <2>1 DEF StartPerm, CliTypeOK
  <2> QED BY <2>4, <2>5 DEF Gathers, RecoverFits, Republished, Fits, FirstOf, SeenSettled
<1>8. CASE RecoverAssemble(c)
  <2>1. StartPublish(c, "rpublish") /\ pc[c] = "rperm"
    BY <1>2, <1>3, <1>8 DEF RecoverAssemble
  <2>2. /\ pc'[c] = "rpublish" /\ body'[c] = body[c] /\ temp'[c] = {} /\ perm'[c] = perm[c]
        /\ seen'[c] = seen[c] /\ good'[c] = FALSE
    BY <1>1, <2>1 DEF StartPublish, CliTypeOK
  <2>3. Fits(body[c], perm[c])
    <3>1. perm[c] \in SUBSET (temp[c] \cup perm[c])
      OBVIOUS
    <3> QED BY <1>1, <2>1, <3>1, FitsMore DEF RecoverFits
  <2> QED BY <2>2, <2>3 DEF Gathers, RecoverFits, Republished, Fits, FirstOf, SeenSettled
<1>9. CASE RecoverDone(c)
  BY <1>1, <1>2, <1>3, <1>9 DEF RecoverDone, CliTypeOK
<1> QED BY <1>4, <1>5, <1>6, <1>7, <1>8, <1>9

\* Entering a recovery starts with no votes; what was seen only shrinks.
LEMMA RecEnters ==
  ASSUME CliTypeOK, NEW c \in Clients,
         \/ Build(c) \/ TempDone(c) \/ PermDone(c) \/ PublishDone(c) \/ Crash(c)
  PROVE  /\ pc'[c] \in Recovering => pc'[c] = "pending" /\ temp'[c] = {} /\ perm'[c] = {}
         /\ seen'[c] \subseteq seen[c]
<1> DEFINE G == /\ pc'[c] \in Recovering => pc'[c] = "pending" /\ temp'[c] = {} /\ perm'[c] = {}
                /\ seen'[c] \subseteq seen[c]
<1> SUFFICES G
  OBVIOUS
<1>1. ASSUME NEW where \in EndedPCs, Stop(c, where) PROVE G
  BY <1>1 DEF Stop, CliTypeOK, Recovering, EndedPCs
<1>2. ASSUME NEW n, NEW i, NEW prev, StartRound(c, n, i, prev), UNCHANGED seen PROVE G
  BY <1>2 DEF StartRound, CliTypeOK, Recovering
<1>3. ASSUME NEW code, RoundFailed(c, code) PROVE G
  <2>1. CASE Stop(c, "failed")
    BY <1>1, <2>1 DEF EndedPCs
  <2>2. CASE StartRound(c, rebuild[c], part[c], prevs[c][part[c]]) /\ UNCHANGED seen
    BY <1>2, <2>2
  <2>3. CASE /\ pc' = [pc EXCEPT ![c] = "pending"] /\ temp' = [temp EXCEPT ![c] = {}]
             /\ perm' = [perm EXCEPT ![c] = {}] /\ UNCHANGED seen
    BY <2>3 DEF CliTypeOK
  <2> QED BY <1>3, <2>1, <2>2, <2>3 DEF RoundFailed
<1>4. ASSUME NEW b, NEW reps, StartPerm(c, "perm", b, reps) PROVE G
  BY <1>4 DEF StartPerm, CliTypeOK, Recovering
<1>5. ASSUME StartPublish(c, "publish") PROVE G
  BY <1>5 DEF StartPublish, CliTypeOK, Recovering
<1>6. "failed" \in EndedPCs /\ "done" \in EndedPCs /\ "crashed" \in EndedPCs
  BY DEF EndedPCs
<1> HIDE DEF G
<1>7. CASE Build(c)
  BY <1>1, <1>2, <1>6, <1>7 DEF Build
<1>8. CASE TempDone(c)
  BY <1>1, <1>3, <1>4, <1>6, <1>8 DEF TempDone
<1>9. CASE PermDone(c)
  BY <1>1, <1>3, <1>5, <1>6, <1>9 DEF PermDone
<1>10. CASE PublishDone(c)
  BY <1>1, <1>2, <1>3, <1>6, <1>10 DEF PublishDone
<1>11. CASE Crash(c)
  BY <1>1, <1>6, <1>11 DEF Crash
<1> QED BY <1>7, <1>8, <1>9, <1>10, <1>11

\* Every step keeps RecInv.
LEMMA RecStep == IInv /\ PlaceInv /\ RecInv /\ [Next]_vars => RecInv'
<1> SUFFICES ASSUME IInv, PlaceInv, RecInv, [Next]_vars PROVE RecInv'
  OBVIOUS
<1>1. IInv' /\ Sound /\ CliTypeOK /\ RepTypeOK'
  <2>1. IInv'
    BY StepSound
  <2> QED BY <2>1, IInvSplit DEF IInv, TypeOK
<1>2. ChainGrows /\ PlanAt'
  BY <1>1, ChainStep, PlanAtStep DEF RecInv
<1>3. ASSUME NEW d \in Clients, \A o \in seen'[d] : Settled(o.id) PROVE SeenSettled(d)'
  <2>1. \A o \in seen'[d] : Settled(o.id)'
    BY <1>1, <1>3, SettledStays
  <2> QED BY <2>1 DEF SeenSettled, Settled, Minted, BlockId
<1>4. ASSUME NEW d \in Clients, pc'[d] = pc[d], body'[d] = body[d], temp'[d] = temp[d],
             perm'[d] = perm[d], seen'[d] = seen[d], good'[d] = good[d]
      PROVE  SeenSettled(d)' /\ Gathers(d)' /\ RecoverFits(d)' /\ Republished(d)'
  BY <1>1, <1>2, <1>3, <1>4, RecFrame DEF RecInv, SeenSettled
<1>5. ASSUME NEW c \in Clients, ClientStep(c) \/ Crash(c)
      PROVE  SeenSettled(c)' /\ Gathers(c)' /\ RecoverFits(c)' /\ Republished(c)'
  <2>1. SeenSettled(c) /\ Gathers(c) /\ RecoverFits(c) /\ Republished(c) /\ PlanAt
    BY DEF RecInv
  <2>2. ASSUME NEW r \in Reps,
               TempAnswer(c, r) \/ PermAnswer(c, r) \/ PublishAnswer(c, r) \/ GatherVote(c, r)
        PROVE  SeenSettled(c)' /\ Gathers(c)' /\ RecoverFits(c)' /\ Republished(c)'
    BY <1>1, <1>2, <1>3, <2>1, <2>2, RecAnswers DEF SeenSettled
  <2>3. CASE Build(c) \/ TempDone(c) \/ PermDone(c) \/ PublishDone(c) \/ Crash(c)
    <3>1. /\ pc'[c] \in Recovering => pc'[c] = "pending" /\ temp'[c] = {} /\ perm'[c] = {}
          /\ seen'[c] \subseteq seen[c]
      BY <1>1, <2>3, RecEnters
    <3>2. SeenSettled(c)'
      BY <1>3, <2>1, <3>1 DEF SeenSettled
    <3> QED BY <3>1, <3>2, RecIdle DEF Gathers, RecoverFits, Republished
  <2>4. ASSUME \/ \E r \in Reps : PendingAnswer(c, r)
               \/ PendingDone(c) \/ GatherDone(c) \/ TopUpDone(c) \/ RecoverAssemble(c) \/ RecoverDone(c)
        PROVE  SeenSettled(c)' /\ Gathers(c)' /\ RecoverFits(c)' /\ Republished(c)'
    <3>1. pc[c] \in Recovering
      BY <2>4 DEF PendingAnswer, PendingDone, GatherDone, TopUpDone, RecoverAssemble, RecoverDone, Recovering
    <3>2. CASE pc'[c] \in Recovering
      BY <1>1, <1>2, <1>3, <2>1, <2>4, <3>1, <3>2, RecMoves
    <3>3. CASE pc'[c] \notin Recovering
      <4>1. seen'[c] \subseteq seen[c]
        <5>1. ASSUME NEW where, Stop(c, where) PROVE seen'[c] \subseteq seen[c]
          BY <1>1, <5>1 DEF Stop, CliTypeOK
        <5>2. ASSUME NEW r \in Reps, PendingAnswer(c, r) PROVE pc'[c] = pc[c]
          BY <5>2 DEF PendingAnswer
        <5>3. CASE PendingDone(c)
          BY <1>1, <5>1, <5>3 DEF PendingDone, CliTypeOK
        <5>4. CASE GatherDone(c)
          BY <1>1, <5>1, <5>4 DEF GatherDone, CliTypeOK
        <5>5. CASE TopUpDone(c)
          BY <1>1, <5>1, <5>5 DEF TopUpDone, StartPerm, CliTypeOK
        <5>6. CASE RecoverAssemble(c)
          BY <1>1, <5>1, <5>6 DEF RecoverAssemble, StartPublish, CliTypeOK
        <5>7. CASE RecoverDone(c)
          BY <1>1, <5>1, <5>7 DEF RecoverDone, CliTypeOK
        <5> QED BY <2>4, <3>1, <3>3, <5>2, <5>3, <5>4, <5>5, <5>6, <5>7
      <4>2. SeenSettled(c)'
        BY <1>3, <2>1, <4>1 DEF SeenSettled
      <4> QED BY <3>3, <4>2, RecIdle
    <3> QED BY <3>2, <3>3
  <2> QED BY <1>5, <2>2, <2>3, <2>4 DEF ClientStep
<1>6. ASSUME NEW c \in Clients, ClientStep(c) \/ Crash(c)
      PROVE  \A d \in Clients : SeenSettled(d)' /\ Gathers(d)' /\ RecoverFits(d)' /\ Republished(d)'
  <2>1. Others(c)
    BY <1>1, <1>6, OwnLocals
  <2> QED BY <1>4, <1>5, <1>6, <2>1 DEF Others
<1>7. CASE UNCHANGED cliVars
  BY <1>2, <1>4, <1>7 DEF cliVars, RecInv
<1> QED BY <1>2, <1>6, <1>7 DEF Next, VoteExpires, vars, RecInv

\* Every reachable state satisfies RecInv.
THEOREM RecInvariant == Spec => []RecInv
<1>1. Init => RecInv
  <2> SUFFICES ASSUME Init PROVE RecInv
    OBVIOUS
  <2>1. Places = {}
    <3>1. \A b \in Known : b = {}
      BY DEF Init, RepInit, Known, RepKnown, CliKnown
    <3>2. PlacesOf({}) = {}
      BY PlaceIn
    <3> QED BY <3>1, <3>2, PlaceIn
  <2>2. \A c \in Clients : seen[c] = {} /\ pc[c] = "build"
    BY DEF Init
  <2> QED BY <2>1, <2>2 DEF RecInv, PlanAt, SeenSettled, Gathers, RecoverFits, Republished
<1> QED BY <1>1, RecStep, InductiveInvariant, PlaceInvariant, PTL DEF Spec

\* All votes a recovery sends together name the same first successor of the
\* operating account's head (collect_recover_votes, top_up_recover_votes),
\* whoever else is voting meanwhile.
THEOREM RecoversOneBlockHolds == Spec => []RecoversOneBlock
<1>1. RecInv => RecoversOneBlock
  BY DEF RecInv, RecoverFits, Fits, RecoversOneBlock
<1> QED BY <1>1, RecInvariant, PTL

\* A call renders again only when the block it recovered is on some ledger
\* (build_and_publish).
THEOREM RerendersAfterRecoveryHolds == Spec => RerendersAfterRecovery
<1>1. IInv /\ RecInv /\ [Next]_vars =>
        [\A c \in Clients : rebuild'[c] # rebuild[c] =>
            \E r \in Reps : Committed(r, body[c], Operating)]_vars
  <2> SUFFICES ASSUME IInv, RecInv, [Next]_vars, NEW d \in Clients, rebuild'[d] # rebuild[d]
               PROVE  \E r \in Reps : Committed(r, body[d], Operating)
    OBVIOUS
  <2>1. CliTypeOK
    BY DEF IInv, TypeOK
  <2>2. PICK c \in Clients : ClientStep(c) \/ Crash(c)
    BY DEF Next, VoteExpires, vars, cliVars
  <2>3. d = c
    BY <2>1, <2>2, OwnLocals DEF Others
  <2>4. pc[c] = "rpublish" /\ pc'[c] = "build"
    BY <2>1, <2>2, <2>3, StepMoves DEF Moves
  <2>5. RecoverDone(c)
    BY <2>1, <2>2, <2>4 DEF ClientStep, Build, TempAnswer, PermAnswer, PublishAnswer, PendingAnswer,
       GatherVote, TempDone, PermDone, PublishDone, PendingDone, GatherDone, TopUpDone,
       RecoverAssemble, Crash, Stop, CliTypeOK
  <2>6. good[c]
    BY <2>1, <2>4, <2>5 DEF RecoverDone, Accepted, Stop, CliTypeOK
  <2> QED BY <2>3, <2>4, <2>6 DEF RecInv, Republished
<1> QED BY <1>1, InductiveInvariant, RecInvariant, PTL DEF Spec, RerendersAfterRecovery
=============================================================================
