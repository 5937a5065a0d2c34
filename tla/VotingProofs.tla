---------------------------- MODULE VotingProofs ----------------------------
(***************************************************************************)
(* Proofs about votes, for any number of blocks, votes, representatives    *)
(* and peers and any clocks, weights and schedules within the assumptions: *)
(* the sessions of VoteStapleBuilder (StapleBuilder), the clocks of a      *)
(* round and a recovery (StapleRound), quotes and the fee block (Fees) and *)
(* the reads of several answers (Reads).                                   *)
(*                                                                         *)
(* The first two rest on what try_new and verify make of a list of votes.  *)
(* The list is judged as its set, by Endorse, when no vote is in it twice  *)
(* (ValidIsEndorsed); sorting it by hash lists the same set in ascending   *)
(* order (SortedFacts); and blocks that fill the slots of a vote are the   *)
(* blocks of the vote in another order (SlotFacts).  The fee block is a    *)
(* fold over the votes, which FoldFacts unrolls.                           *)
(***************************************************************************)
EXTENDS Voting, OrderFacts, FiniteSetTheorems

Endorse(vs, m) == Builder!Endorse(vs, m)

\* A list of n entries.
List(s, n) == n \in Nat /\ Len(s) = n /\ DOMAIN s = 1..n /\ s = [i \in 1..n |-> s[i]]
Distinct(s) == \A i, j \in 1..Len(s) : s[i] = s[j] => i = j

\* A sequence is a list.
LEMMA SeqIsList ==
  ASSUME NEW S, NEW s \in Seq(S)
  PROVE  /\ List(s, Len(s)) /\ \A i \in 1..Len(s) : s[i] \in S
         /\ Elements(s) \subseteq S /\ (s = << >> <=> Len(s) = 0)
  BY DEF List, Elements

\* Sequences with the same entries are the same.
LEMMA SameList ==
  ASSUME NEW S, NEW s \in Seq(S), NEW t \in Seq(S), NEW n, Len(s) = n, Len(t) = n,
         \A i \in 1..n : s[i] = t[i]
  PROVE  s = t
<1>1. s = [i \in 1..n |-> s[i]] /\ t = [i \in 1..n |-> t[i]]
  BY SeqIsList DEF List
<1>2. [i \in 1..n |-> s[i]] = [i \in 1..n |-> t[i]]
  OBVIOUS
<1> QED BY <1>1, <1>2

\* A list has at most as many elements as entries, and as many when no entry
\* repeats another.
LEMMA ElementsCount ==
  ASSUME NEW s, NEW n, List(s, n)
  PROVE  /\ IsFiniteSet(Elements(s)) /\ Cardinality(Elements(s)) \in Nat
         /\ Cardinality(Elements(s)) = n <=> Distinct(s)
<1> DEFINE f == [i \in 1..n |-> s[i]]
           E == Elements(s)
<1>1. n \in Nat /\ Len(s) = n /\ n \in Int /\ 1 \in Int
  BY DEF List
<1>2. IsFiniteSet(1..n) /\ Cardinality(1..n) = n
  BY <1>1, FS_Interval
<1>3. f \in Surjection(1..n, E)
  BY <1>1 DEF Surjection, Elements
<1>4. f \in Injection(1..n, E) <=> Distinct(s)
  BY <1>1, <1>3 DEF Injection, IsInjective, Surjection, Distinct
<1> HIDE DEF f
<1>5. IsFiniteSet(E) /\ (Cardinality(E) = Cardinality(1..n) <=> f \in Injection(1..n, E))
  BY <1>2, <1>3, FS_Surjection
<1> QED BY <1>2, <1>4, <1>5, FS_CardinalityType

\* Hashes tell votes apart.
Hashed(S) == \A v, w \in S : Hash(v) \in Int /\ (Hash(v) = Hash(w) => v = w)

\* How many votes of S have a smaller hash than v.
Rank(S, v) == Cardinality({w \in S : Hash(w) < Hash(v)})

\* Ranks lie below the number of votes and order them as their hashes do.
LEMMA RankFacts ==
  ASSUME NEW S, IsFiniteSet(S), Hashed(S), NEW v \in S, NEW u \in S
  PROVE  /\ Rank(S, v) \in Nat /\ Rank(S, v) < Cardinality(S) /\ Cardinality(S) \in Nat
         /\ Rank(S, v) < Rank(S, u) <=> Hash(v) < Hash(u)
         /\ Rank(S, v) = Rank(S, u) => v = u
<1> DEFINE Below(x) == {w \in S : Hash(w) < Hash(x)}
<1>1. ASSUME NEW x \in S
      PROVE  /\ IsFiniteSet(Below(x)) /\ Rank(S, x) \in Nat /\ Cardinality(S) \in Nat
             /\ Rank(S, x) < Cardinality(S)
  <2>1. Below(x) \in SUBSET S /\ x \notin Below(x) /\ Hash(x) \in Int
    BY DEF Hashed
  <2>2. /\ IsFiniteSet(Below(x)) /\ Cardinality(Below(x)) <= Cardinality(S)
        /\ Cardinality(Below(x)) # Cardinality(S)
    <3> HIDE DEF Below
    <3> QED BY <2>1, FS_Subset
  <2>3. Cardinality(Below(x)) \in Nat /\ Cardinality(S) \in Nat
    BY <2>2, FS_CardinalityType
  <2> QED BY <2>2, <2>3 DEF Rank
<1>2. ASSUME NEW x \in S, NEW y \in S, Hash(x) < Hash(y)
      PROVE  Rank(S, x) < Rank(S, y)
  <2>1. Below(x) \in SUBSET Below(y) /\ x \in Below(y) /\ x \notin Below(x)
    BY <1>2 DEF Hashed
  <2>2. Cardinality(Below(x)) <= Cardinality(Below(y)) /\ Cardinality(Below(x)) # Cardinality(Below(y))
    <3>1. IsFiniteSet(Below(y))
      BY <1>1
    <3> HIDE DEF Below
    <3> QED BY <2>1, <3>1, FS_Subset
  <2>3. Rank(S, x) = Cardinality(Below(x)) /\ Rank(S, y) = Cardinality(Below(y))
    BY DEF Rank
  <2> QED BY <1>1, <2>2, <2>3
<1>3. /\ Hash(v) \in Int /\ Hash(u) \in Int /\ Rank(S, v) \in Nat /\ Rank(S, u) \in Nat
      /\ Hash(v) = Hash(u) => v = u
      /\ Rank(S, v) < Cardinality(S) /\ Cardinality(S) \in Nat
  BY <1>1 DEF Hashed
<1>4. Hash(v) < Hash(u) => Rank(S, v) < Rank(S, u)
  BY <1>2
<1>5. Hash(u) < Hash(v) => Rank(S, u) < Rank(S, v)
  BY <1>2
<1>6. Hash(v) = Hash(u) => Rank(S, v) = Rank(S, u)
  BY <1>3
<1> HIDE DEF Below
<1> QED BY <1>3, <1>4, <1>5, <1>6

\* Sorting lists the same votes, by ascending hash.
LEMMA SortedFacts ==
  ASSUME NEW s, NEW n, List(s, n), Distinct(s), Hashed(Elements(s))
  PROVE  /\ List(SortedByHash(s), n) /\ Distinct(SortedByHash(s))
         /\ Elements(SortedByHash(s)) = Elements(s)
         /\ AssertVoteOrder(SortedByHash(s))
<1> DEFINE E == Elements(s)
           t == SortedByHash(s)
           f == [v \in E |-> Rank(E, v)]
<1>1. n \in Nat /\ Len(s) = n /\ IsFiniteSet(E) /\ Cardinality(E) = n
  BY ElementsCount DEF List
<1>2. t = [k \in 1..n |-> CHOOSE v \in E : Rank(E, v) = k - 1]
  BY <1>1 DEF SortedByHash, Rank
<1> HIDE DEF E, t
<1>3. /\ \A v \in E : Rank(E, v) \in 0..(n - 1)
      /\ \A v, u \in E : /\ Rank(E, v) < Rank(E, u) <=> Hash(v) < Hash(u)
                         /\ Rank(E, v) = Rank(E, u) => v = u
                         /\ Hash(v) \in Int
  BY <1>1, RankFacts DEF Hashed, E
<1>4. \A k \in 0..(n - 1) : \E v \in E : Rank(E, v) = k
  <2>1. f \in Injection(E, 0..(n - 1))
    BY <1>3 DEF Injection, IsInjective
  <2>2. IsFiniteSet(0..(n - 1)) /\ Cardinality(0..(n - 1)) = n
    <3>1. 0 \in Int /\ n - 1 \in Int
      BY <1>1
    <3>2. IsFiniteSet(0..(n - 1)) /\ Cardinality(0..(n - 1)) = IF 0 > n - 1 THEN 0 ELSE n - 1 - 0 + 1
      BY <3>1, FS_Interval
    <3> QED BY <1>1, <3>2
  <2>3. f \in Surjection(E, 0..(n - 1))
    <3> HIDE DEF f
    <3> QED BY <1>1, <2>1, <2>2, FS_Injection
  <2> QED BY <2>3 DEF Surjection
<1>5. \A k \in 1..n : t[k] \in E /\ Rank(E, t[k]) = k - 1
  <2> SUFFICES ASSUME NEW k \in 1..n PROVE t[k] \in E /\ Rank(E, t[k]) = k - 1
    OBVIOUS
  <2>1. k - 1 \in 0..(n - 1)
    BY <1>1
  <2>2. \E v \in E : Rank(E, v) = k - 1
    BY <1>4, <2>1
  <2> QED BY <1>2, <2>2
<1>6. List(t, n)
  <2>1. t \in Seq(E)
    BY <1>1, <1>2, <1>5
  <2> QED BY <1>1, <1>2, <2>1 DEF List
<1>7. Elements(t) = E
  <2>1. Elements(t) \subseteq E
    BY <1>5, <1>6 DEF Elements, List
  <2>2. ASSUME NEW v \in E PROVE v \in Elements(t)
    <3>1. Rank(E, v) + 1 \in 1..n /\ Rank(E, v) + 1 - 1 = Rank(E, v)
      BY <1>1, <1>3
    <3>2. t[Rank(E, v) + 1] = v
      BY <1>3, <1>5, <3>1
    <3> QED BY <1>6, <3>1, <3>2 DEF Elements, List
  <2> QED BY <2>1, <2>2
<1>8. Distinct(t)
  <2> SUFFICES ASSUME NEW i \in 1..n, NEW j \in 1..n, t[i] = t[j] PROVE i = j
    BY <1>6 DEF Distinct, List
  <2>1. i - 1 = j - 1
    BY <1>5
  <2> QED BY <1>1, <2>1
<1>9. AssertVoteOrder(t)
  <2> SUFFICES ASSUME NEW i \in 1..n, NEW j \in 1..n, j = i + 1 PROVE Hash(t[i]) <= Hash(t[j])
    BY <1>6 DEF AssertVoteOrder, List
  <2>1. Rank(E, t[i]) < Rank(E, t[j])
    BY <1>1, <1>5
  <2> QED BY <1>3, <1>5, <2>1
<1> QED BY <1>6, <1>7, <1>8, <1>9 DEF E, t

-----------------------------------------------------------------------------
Dated(S) == \A v \in S : v.from \in Int /\ v.to \in Int

\* The checks of a list of votes against its first one are those of the set.
LEMMA ValidIsEndorsed ==
  ASSUME NEW s, NEW n, List(s, n), n # 0, Dated(Elements(s)), NEW m \in Int
  PROVE  VotesValid(s, m) <=> Endorse(Elements(s), m) /\ Distinct(s)
<1>1. /\ n \in Nat /\ Len(s) = n /\ 1 \in 1..n /\ Slop \in Int /\ Threshold \in Int
      /\ \A i \in 1..n : s[i] \in Elements(s)
      /\ \A v \in Elements(s) : \E i \in 1..n : v = s[i]
  BY ConfigAssumption DEF List, Elements
<1>2. \A i \in 1..n : s[i].from \in Int /\ s[i].to \in Int
  BY <1>1 DEF Dated
<1>3. \A i \in 1..n : IsActiveAt(s[i], m) <=> s[i].from - Slop <= m /\ m <= s[i].to + Slop
  BY <1>1, <1>2 DEF IsActiveAt, MomentIsBeforeFrom, IsExpiredAt
<1>4. \A i \in 1..n : /\ IsPermanentAt(s[i], m) <=> s[i].to - m > Threshold
                      /\ ~IsPermanentAt(s[i], m) <=> s[i].to - m <= Threshold
                      /\ IsPermanentAt(s[i], m) \in BOOLEAN
  BY <1>1, <1>2 DEF IsPermanentAt
<1>5. ASSUME VotesValid(s, m) PROVE Endorse(Elements(s), m) /\ Distinct(s)
  <2>1. /\ \A i \in 1..n : VoteFits(s[i], s[1], m)
        /\ \A i, j \in 1..n : s[i].issuer = s[j].issuer => i = j
    BY <1>1, <1>5 DEF VotesValid, DistinctIssuers
  <2>2. Distinct(s)
    BY <1>1, <2>1 DEF Distinct
  <2>3. \A v, w \in Elements(s) : v.blocks = w.blocks /\ (v.issuer = w.issuer => v = w)
    BY <1>1, <2>1 DEF VoteFits
  <2>4. \A v \in Elements(s) : v.from - Slop <= m /\ m <= v.to + Slop /\ v.fees # "quote"
    BY <1>1, <1>3, <2>1 DEF VoteFits
  <2>5. \/ \A v \in Elements(s) : v.to - m > Threshold /\ v.fees = "none"
        \/ \A v \in Elements(s) : v.to - m <= Threshold
    <3>1. CASE IsPermanentAt(s[1], m)
      <4>1. \A i \in 1..n : IsPermanentAt(s[i], m) /\ s[i].fees = "none"
        BY <1>1, <1>4, <2>1, <3>1 DEF VoteFits
      <4> QED BY <1>1, <1>4, <4>1
    <3>2. CASE ~IsPermanentAt(s[1], m)
      <4>1. \A i \in 1..n : ~IsPermanentAt(s[i], m)
        BY <1>1, <1>4, <2>1, <3>2 DEF VoteFits
      <4> QED BY <1>1, <1>4, <4>1
    <3> QED BY <3>1, <3>2
  <2>6. Elements(s) # {}
    BY <1>1
  <2> QED BY <2>2, <2>3, <2>4, <2>5, <2>6 DEF Endorse, Builder!Endorse
<1>6. ASSUME Endorse(Elements(s), m), Distinct(s) PROVE VotesValid(s, m)
  <2>1. /\ \A i, j \in 1..n : /\ s[i].blocks = s[j].blocks
                              /\ s[i].issuer = s[j].issuer => s[i] = s[j]
        /\ \A i \in 1..n : s[i].from - Slop <= m /\ m <= s[i].to + Slop /\ s[i].fees # "quote"
        /\ \/ \A i \in 1..n : s[i].to - m > Threshold /\ s[i].fees = "none"
           \/ \A i \in 1..n : s[i].to - m <= Threshold
    BY <1>1, <1>6 DEF Endorse, Builder!Endorse
  <2>2. DistinctIssuers(s)
    BY <1>1, <1>6, <2>1 DEF Distinct, DistinctIssuers
  <2>3. \A i \in 1..n : IsActiveAt(s[i], m)
    BY <1>3, <2>1
  <2>4. \A i \in 1..n : /\ IsPermanentAt(s[i], m) = IsPermanentAt(s[1], m)
                        /\ IsPermanentAt(s[i], m) => s[i].fees = "none"
    <3>1. CASE \A i \in 1..n : s[i].to - m > Threshold /\ s[i].fees = "none"
      BY <1>1, <1>4, <3>1
    <3>2. CASE \A i \in 1..n : s[i].to - m <= Threshold
      BY <1>1, <1>4, <3>2
    <3> QED BY <2>1, <3>1, <3>2
  <2>5. \A i \in 1..n : VoteFits(s[i], s[1], m)
    BY <1>1, <2>1, <2>3, <2>4 DEF VoteFits
  <2> QED BY <1>1, <2>2, <2>5 DEF VotesValid
<1> QED BY <1>5, <1>6

\* The slot of a listed block is where it is listed first.
LEMMA SlotProperty ==
  ASSUME NEW e, NEW k, List(e, k), NEW b \in Elements(e)
  PROVE  /\ SlotOf(e, b) \in 1..k /\ e[SlotOf(e, b)] = b
         /\ \A t \in 1..(SlotOf(e, b) - 1) : e[t] # b
<1> DEFINE T == {i \in 1..k : e[i] = b}
<1>1. k \in Nat /\ Len(e) = k
  BY DEF List
<1>2. T \in SUBSET Nat /\ T # {}
  BY <1>1 DEF Elements
<1>3. PICK i \in T : \A j \in T : i <= j
  <2> HIDE DEF T
  <2> QED BY <1>2, LeastNat
<1>4. i \in 1..k /\ e[i] = b /\ \A t \in 1..(i - 1) : e[t] # b
  BY <1>1, <1>3
<1> HIDE DEF T
<1> QED BY <1>1, <1>4 DEF SlotOf

\* Blocks fill the slots of a list when they are that list in another order.
LEMMA SlotFacts ==
  ASSUME NEW b, NEW n, List(b, n), NEW e, NEW k, List(e, k)
  PROVE  /\ FillSlots(b, e) <=> /\ Elements(b) = Elements(e) /\ n = k
                                /\ Cardinality(Elements(b)) = n
         /\ FillSlots(b, e) => Reordered(b, e) = e
<1>1. /\ n \in Nat /\ Len(b) = n /\ k \in Nat /\ Len(e) = k
      /\ \A i \in 1..n : b[i] \in Elements(b)
      /\ \A i \in 1..k : e[i] \in Elements(e)
      /\ \A x \in Elements(b) : \E i \in 1..n : x = b[i]
      /\ \A x \in Elements(e) : \E i \in 1..k : x = e[i]
  BY DEF List, Elements
<1>2. \A x \in Elements(e) : /\ SlotOf(e, x) \in 1..k /\ e[SlotOf(e, x)] = x
                             /\ \A t \in 1..(SlotOf(e, x) - 1) : e[t] # x
  BY SlotProperty
<1>3. ASSUME FillSlots(b, e)
      PROVE  /\ Elements(b) = Elements(e) /\ n = k /\ Cardinality(Elements(b)) = n
             /\ Reordered(b, e) = e
  <2>1. /\ Elements(b) \subseteq Elements(e)
        /\ \A i, j \in 1..n : SlotOf(e, b[i]) = SlotOf(e, b[j]) => i = j
        /\ \A s \in 1..k : \E i \in 1..n : SlotOf(e, b[i]) = s
    BY <1>1, <1>3 DEF FillSlots
  <2>2. \A i \in 1..n : b[i] \in Elements(e) /\ e[SlotOf(e, b[i])] = b[i]
    BY <1>1, <1>2, <2>1
  <2>3. Elements(e) \subseteq Elements(b)
    <3> SUFFICES ASSUME NEW s \in 1..k PROVE e[s] \in Elements(b)
      BY <1>1
    <3>1. PICK i \in 1..n : SlotOf(e, b[i]) = s
      BY <2>1
    <3> QED BY <1>1, <2>2, <3>1
  <2>4. Distinct(b)
    BY <1>1, <2>1 DEF Distinct
  <2>5. Distinct(e)
    <3> SUFFICES ASSUME NEW i \in 1..k, NEW j \in 1..k, e[i] = e[j] PROVE i = j
      BY <1>1 DEF Distinct
    <3>1. PICK p \in 1..n : SlotOf(e, b[p]) = i
      BY <2>1
    <3>2. PICK q \in 1..n : SlotOf(e, b[q]) = j
      BY <2>1
    <3>3. b[p] = b[q]
      BY <2>2, <3>1, <3>2
    <3> QED BY <3>1, <3>2, <3>3
  <2>6. Cardinality(Elements(b)) = n /\ Cardinality(Elements(e)) = k
    BY <2>4, <2>5, ElementsCount
  <2>7. Elements(b) = Elements(e)
    BY <2>1, <2>3
  <2>8. Reordered(b, e) = e
    <3>1. \A s \in 1..k : b[CHOOSE i \in 1..n : SlotOf(e, b[i]) = s] = e[s]
      <4> SUFFICES ASSUME NEW s \in 1..k
                   PROVE  b[CHOOSE i \in 1..n : SlotOf(e, b[i]) = s] = e[s]
        OBVIOUS
      <4>1. PICK c : c = CHOOSE i \in 1..n : SlotOf(e, b[i]) = s
        OBVIOUS
      <4>2. c \in 1..n /\ SlotOf(e, b[c]) = s
        BY <2>1, <4>1
      <4> QED BY <2>2, <4>1, <4>2
    <3>2. e = [s \in 1..k |-> e[s]]
      BY DEF List
    <3> QED BY <1>1, <3>1, <3>2 DEF Reordered
  <2> QED BY <2>6, <2>7, <2>8
<1>4. ASSUME Elements(b) = Elements(e), n = k, Cardinality(Elements(b)) = n
      PROVE  FillSlots(b, e)
  <2>1. Distinct(b) /\ Distinct(e)
    BY <1>4, ElementsCount
  <2>2. \A i \in 1..n : b[i] \in Elements(e)
    BY <1>1, <1>4
  <2>3. \A i, j \in 1..n : SlotOf(e, b[i]) = SlotOf(e, b[j]) => i = j
    <3> SUFFICES ASSUME NEW i \in 1..n, NEW j \in 1..n, SlotOf(e, b[i]) = SlotOf(e, b[j])
                 PROVE  i = j
      OBVIOUS
    <3>1. b[i] = b[j]
      BY <1>2, <2>2
    <3> QED BY <1>1, <2>1, <3>1 DEF Distinct
  <2>4. \A s \in 1..k : \E i \in 1..n : SlotOf(e, b[i]) = s
    <3> SUFFICES ASSUME NEW s \in 1..k PROVE \E i \in 1..n : SlotOf(e, b[i]) = s
      OBVIOUS
    <3>1. PICK i \in 1..n : b[i] = e[s]
      BY <1>1, <1>4
    <3>2. SlotOf(e, b[i]) \in 1..k /\ e[SlotOf(e, b[i])] = e[s]
      BY <1>2, <2>2, <3>1
    <3>3. SlotOf(e, b[i]) = s
      BY <1>1, <2>1, <3>2 DEF Distinct
    <3> QED BY <3>3
  <2> QED BY <1>1, <1>4, <2>3, <2>4 DEF FillSlots
<1> QED BY <1>3, <1>4

-----------------------------------------------------------------------------
(* try_new and verify.                                                     *)

\* Votes as certificates hold them: dates, and at least one block
\* (vote.rs: a vote without blocks is refused).
VoteSet(V, B) ==
  /\ Dated(V)
  /\ \A v \in V : v.blocks \in Seq(B) /\ v.blocks # << >>

\* When try_new succeeds, and what it returns.
LEMMA TryNewFacts ==
  ASSUME NEW V, NEW B, VoteSet(V, B), NEW b \in Seq(B), NEW s \in Seq(V), NEW m \in Int
  PROVE  /\ TryNew(b, s, m).ok <=>
              /\ Endorse(Elements(s), m) /\ Distinct(s)
              /\ FillSlots(b, s[1].blocks)
         /\ TryNew(b, s, m).ok =>
              /\ TryNew(b, s, m).votes = SortedByHash(s)
              /\ TryNew(b, s, m).blocks = s[1].blocks
              /\ s # << >> /\ s[1] \in V
<1>1. /\ List(s, Len(s)) /\ Elements(s) \subseteq V /\ (s = << >> <=> Len(s) = 0)
      /\ Dated(Elements(s)) /\ Len(s) \in Nat /\ List(b, Len(b)) /\ (b = << >> <=> Len(b) = 0)
  <2>1. List(s, Len(s)) /\ Elements(s) \subseteq V /\ (s = << >> <=> Len(s) = 0)
    BY SeqIsList
  <2>2. List(b, Len(b)) /\ (b = << >> <=> Len(b) = 0)
    BY SeqIsList
  <2> QED BY <2>1, <2>2 DEF VoteSet, Dated
<1>2. CASE s = << >>
  <2>1. Elements(s) = {}
    BY <1>2 DEF Elements
  <2>2. ~Endorse(Elements(s), m)
    BY <2>1 DEF Endorse, Builder!Endorse
  <2>3. ~TryNew(b, s, m).ok
    BY <1>2 DEF TryNew, Rejected
  <2> QED BY <2>2, <2>3
<1>3. CASE s # << >>
  <2> DEFINE e == s[1].blocks
  <2>1. s[1] \in V /\ e \in Seq(B) /\ e # << >>
    BY <1>3 DEF VoteSet
  <2>2. List(e, Len(e)) /\ Len(e) # 0
    BY <2>1, SeqIsList
  <2>3. VotesValid(s, m) <=> Endorse(Elements(s), m) /\ Distinct(s)
    BY <1>1, <1>3, ValidIsEndorsed
  <2>4. FillSlots(b, e) => b # << >> /\ Reordered(b, e) = e
    <3> HIDE DEF e
    <3> QED BY <1>1, <2>2, SlotFacts
  <2>5. TryNew(b, s, m) =
          IF s # << >> /\ b # << >> /\ VotesValid(s, m) /\ FillSlots(b, e)
          THEN [ok |-> TRUE, blocks |-> Reordered(b, e), votes |-> SortedByHash(s)] ELSE Rejected
    BY DEF TryNew
  <2>6. ~Rejected.ok
    BY DEF Rejected
  <2> HIDE DEF e
  <2>7. TryNew(b, s, m).ok <=> s # << >> /\ b # << >> /\ VotesValid(s, m) /\ FillSlots(b, e)
    BY <2>5, <2>6
  <2>8. TryNew(b, s, m).ok =>
          TryNew(b, s, m).votes = SortedByHash(s) /\ TryNew(b, s, m).blocks = Reordered(b, e)
    BY <2>5, <2>6
  <2> QED BY <1>3, <2>1, <2>3, <2>4, <2>7, <2>8 DEF e
<1> QED BY <1>2, <1>3

\* Whoever receives a staple judges its votes as a set, and nothing else.
LEMMA VerifyFacts ==
  ASSUME NEW V, NEW B, VoteSet(V, B), Hashed(V), NEW b \in Seq(B), NEW s \in Seq(V),
         NEW m \in Int, TryNew(b, s, m).ok
  PROVE  /\ Elements(TryNew(b, s, m).votes) = Elements(s)
         /\ Len(TryNew(b, s, m).votes) = Len(s)
         /\ \A v \in Elements(s) : TryNew(b, s, m).blocks = v.blocks
         /\ \A x \in Int : Verify(TryNew(b, s, m), x) <=> Endorse(Elements(s), x)
<1> DEFINE w == TryNew(b, s, m)
           t == SortedByHash(s)
           n == Len(s)
           E == Elements(s)
<1>1. /\ Endorse(E, m) /\ Distinct(s) /\ w.votes = t /\ w.blocks = s[1].blocks
      /\ s # << >> /\ s[1] \in V
  BY TryNewFacts
<1>2. List(s, n) /\ E \subseteq V /\ n # 0 /\ n \in Nat
  BY <1>1, SeqIsList DEF List
<1>3. Hashed(E) /\ Dated(E)
  BY <1>2 DEF Hashed, Dated, VoteSet
<1>4. List(t, n) /\ Distinct(t) /\ Elements(t) = E /\ AssertVoteOrder(t)
  BY <1>1, <1>2, <1>3, SortedFacts
<1>5. \A v, u \in E : v.blocks = u.blocks
  BY <1>1 DEF Endorse, Builder!Endorse
<1>6. s[1] \in E /\ t[1] \in E /\ t # << >> /\ Len(t) = n
  <2>1. 1 \in 1..n /\ Len(t) = n /\ Len(s) = n /\ DOMAIN t = 1..n
    BY <1>2, <1>4 DEF List
  <2>2. s[1] \in E
    BY <2>1 DEF Elements
  <2>3. t[1] \in Elements(t)
    BY <2>1 DEF Elements
  <2>4. t # << >>
    <3>1. 1 \in DOMAIN t /\ 1 \notin DOMAIN << >>
      BY <2>1
    <3> HIDE DEF t
    <3> QED BY <3>1
  <2> QED BY <1>4, <2>1, <2>2, <2>3, <2>4
<1>7. w.blocks # << >> /\ w.blocks = t[1].blocks
  BY <1>1, <1>5, <1>6 DEF VoteSet
<1>8. ASSUME NEW x \in Int PROVE Verify(w, x) <=> Endorse(E, x)
  <2>1. VotesValid(t, x) <=> Endorse(E, x)
    <3>1. Dated(Elements(t))
      BY <1>3, <1>4
    <3>2. VotesValid(t, x) <=> Endorse(Elements(t), x) /\ Distinct(t)
      <4> HIDE DEF t
      <4> QED BY <1>2, <1>4, <3>1, ValidIsEndorsed
    <3> QED BY <1>4, <3>2
  <2> HIDE DEF w, t, E
  <2> QED BY <1>1, <1>4, <1>6, <1>7, <2>1 DEF Verify
<1> HIDE DEF w, t, E
<1>9. \A v \in E : w.blocks = v.blocks
  BY <1>1, <1>5, <1>6
<1> QED BY <1>1, <1>4, <1>6, <1>8, <1>9 DEF w, E


-----------------------------------------------------------------------------
(* The sessions of VoteStapleBuilder.                                      *)

\* Votes are dated, with distinct hashes, and list at least one block each.
LEMMA BuilderConstants ==
  VoteSet(Votes, Blocks) /\ Hashed(Votes) /\ Moments \subseteq Int
<1>1. VoteSet(Votes, Blocks)
  BY BuilderAssumption DEF VoteSet, Dated
<1>2. Hashed(Votes)
  BY BuilderAssumption DEF Hashed
<1> QED BY <1>1, <1>2, BuilderAssumption

\* A session's staple is what try_new made of the blocks and the votes at some
\* moment, the current one until a peer judges it by its own.
Assembled(bs, vs, m, w, old) ==
  \E m0 \in Int : w = TryNew(bs, vs, m0) /\ (old \/ m = m0)

BuilderInv ==
  /\ bBlocks \in Seq(Blocks) /\ bVotes \in Seq(Votes) /\ bMoment \in Int
  /\ built \in BOOLEAN
  /\ built => Assembled(bBlocks, bVotes, bMoment, bStaple, verdict # "none")
  /\ ~built => verdict = "none"
  /\ verdict # "none" => /\ bStaple.ok
                         /\ verdict = "accepted" <=> Verify(bStaple, bMoment)

\* A session uses the same try_new and verify as a round.
LEMMA SameStaples ==
  /\ \A s : Builder!Elements(s) = Elements(s) /\ Builder!Cardinality(s) = Cardinality(s)
  /\ \A bs, vs, m : Builder!TryNew(bs, vs, m) = TryNew(bs, vs, m)
  /\ \A w, m : Builder!Verify(w, m) = Verify(w, m)
  /\ Builder!Rejected = Rejected
<1>1. ASSUME NEW s PROVE Builder!Elements(s) = Elements(s)
  BY DEF Elements, Builder!Elements
<1>2. ASSUME NEW s, NEW m PROVE Builder!VotesValid(s, m) = VotesValid(s, m)
  BY DEF VotesValid, Builder!VotesValid, VoteFits, Builder!VoteFits, DistinctIssuers,
         Builder!DistinctIssuers, IsActiveAt, Builder!IsActiveAt, IsPermanentAt,
         Builder!IsPermanentAt, MomentIsBeforeFrom, Builder!MomentIsBeforeFrom,
         IsExpiredAt, Builder!IsExpiredAt
<1>3. ASSUME NEW S PROVE Builder!Cardinality(S) = Cardinality(S)
  BY DEF Cardinality, Builder!Cardinality
<1>4. ASSUME NEW b, NEW e
      PROVE  Builder!FillSlots(b, e) = FillSlots(b, e) /\ Builder!Reordered(b, e) = Reordered(b, e)
  <2>1. Builder!FillSlots(b, e) = FillSlots(b, e)
    BY DEF FillSlots, Builder!FillSlots, SlotOf, Builder!SlotOf, Elements, Builder!Elements
  <2>2. Builder!Reordered(b, e) = Reordered(b, e)
    BY DEF Reordered, Builder!Reordered, SlotOf, Builder!SlotOf
  <2> QED BY <2>1, <2>2
<1>5. ASSUME NEW s PROVE Builder!SortedByHash(s) = SortedByHash(s)
  BY DEF SortedByHash, Builder!SortedByHash, Elements, Builder!Elements, Cardinality,
         Builder!Cardinality
<1>6. Builder!Rejected = Rejected
  BY DEF Rejected, Builder!Rejected
<1>7. ASSUME NEW b, NEW s, NEW m PROVE Builder!TryNew(b, s, m) = TryNew(b, s, m)
  BY <1>2, <1>4, <1>5, <1>6 DEF TryNew, Builder!TryNew
<1>8. ASSUME NEW s PROVE Builder!AssertVoteOrder(s) = AssertVoteOrder(s)
  BY DEF AssertVoteOrder, Builder!AssertVoteOrder
<1>9. ASSUME NEW w, NEW m PROVE Builder!Verify(w, m) = Verify(w, m)
  BY <1>2, <1>8 DEF Verify, Builder!Verify
<1> QED BY <1>1, <1>3, <1>6, <1>7, <1>9

\* Every step of a session keeps the invariant.
LEMMA BuilderStep ==
  ASSUME BuilderInv, [Builder!Next]_(Builder!vars)
  PROVE  BuilderInv'
<1> USE DEF BuilderInv, Assembled
<1>1. ASSUME NEW b \in Blocks, Builder!AddBlock(b) PROVE BuilderInv'
  BY <1>1 DEF Builder!AddBlock
<1>2. ASSUME NEW v \in Votes, Builder!AddVote(v) PROVE BuilderInv'
  BY <1>2 DEF Builder!AddVote
<1>3. ASSUME NEW m \in Moments, Builder!Build(m) PROVE BuilderInv'
  <2>1. m \in Int
    BY BuilderConstants
  <2> QED BY <1>3, <2>1, SameStaples DEF Builder!Build
<1>4. ASSUME NEW m \in Moments, Builder!Receive(m) PROVE BuilderInv'
  <2>1. m \in Int
    BY BuilderConstants
  <2>2. PICK m0 \in Int : bStaple = TryNew(bBlocks, bVotes, m0)
    BY <1>4 DEF Builder!Receive
  <2>3. verdict' # "none" /\ bStaple' = bStaple /\ bBlocks' = bBlocks /\ bVotes' = bVotes
    BY <1>4 DEF Builder!Receive
  <2>4. Assembled(bBlocks, bVotes, bMoment, bStaple, verdict # "none")'
    BY <2>2, <2>3
  <2> QED BY <1>4, <2>1, <2>4, SameStaples DEF Builder!Receive
<1>5. CASE UNCHANGED Builder!vars
  BY <1>5 DEF Builder!vars
<1> QED BY <1>1, <1>2, <1>3, <1>4, <1>5 DEF Builder!Next

\* The invariant holds of every session.
LEMMA BuilderInvariant == VotingSpec => []BuilderInv
<1>1. Builder!Init => BuilderInv
  <2> SUFFICES ASSUME Builder!Init PROVE BuilderInv
    OBVIOUS
  <2>1. /\ bBlocks = << >> /\ bVotes = << >> /\ bMoment = 0 /\ built = FALSE
        /\ verdict = "none"
    BY DEF Builder!Init
  <2>2. << >> \in Seq(Blocks) /\ << >> \in Seq(Votes)
    OBVIOUS
  <2>3. ~built /\ ~(verdict # "none") /\ built \in BOOLEAN
    BY <2>1
  <2>4. bBlocks \in Seq(Blocks) /\ bVotes \in Seq(Votes) /\ bMoment \in Int
    BY <2>1, <2>2
  <2> QED BY <2>3, <2>4, Zenon DEF BuilderInv
<1>2. VotingInit => BuilderInv
  BY <1>1 DEF VotingInit
<1>3. ASSUME BuilderInv, [VotingNext]_votingVars PROVE BuilderInv'
  <2>1. UNCHANGED builderVars <=> UNCHANGED Builder!vars
    BY DEF builderVars, Builder!vars
  <2>2. [Builder!Next]_(Builder!vars)
    BY <1>3, <2>1 DEF votingVars, VotingNext, RoundSteps, BuilderSteps, FeeSteps, ReadSteps
  <2> QED BY <1>3, <2>2, BuilderStep
<1> QED BY <1>2, <1>3, PTL DEF VotingSpec

\* What a vote of the set lists fits what the first one lists.
LEMMA FitsFacts ==
  ASSUME NEW V, NEW B, VoteSet(V, B), NEW b \in Seq(B), NEW s \in Seq(V), NEW m \in Int,
         Endorse(Elements(s), m)
  PROVE  FillSlots(b, s[1].blocks) <=>
           \A v \in Elements(s) : /\ Elements(b) = Elements(v.blocks)
                                  /\ Len(b) = Len(v.blocks)
                                  /\ Cardinality(Elements(b)) = Len(b)
<1>1. \A v, u \in Elements(s) : v.blocks = u.blocks
  BY DEF Endorse, Builder!Endorse
<1>2. s[1] \in Elements(s) /\ s[1] \in V
  <2>1. Elements(s) # {}
    BY DEF Endorse, Builder!Endorse
  <2>2. Len(s) \in Nat /\ Len(s) # 0
    BY <2>1 DEF Elements
  <2>3. 1 \in 1..Len(s)
    BY <2>2
  <2> QED BY <2>3 DEF Elements
<1>3. PICK e : e = s[1].blocks
  OBVIOUS
<1>4. e \in Seq(B)
  BY <1>2, <1>3 DEF VoteSet
<1>5. List(b, Len(b)) /\ List(e, Len(e))
  BY <1>4, SeqIsList
<1>6. FillSlots(b, e) <=> /\ Elements(b) = Elements(e) /\ Len(b) = Len(e)
                          /\ Cardinality(Elements(b)) = Len(b)
  BY <1>5, SlotFacts
<1>7. \A v \in Elements(s) : v.blocks = e
  BY <1>1, <1>2, <1>3
<1> QED BY <1>2, <1>3, <1>6, <1>7

\* BuildIsCanonical: try_new succeeds exactly when the votes, as a set, endorse
\* the supplied blocks, and lists them in the votes' order, whatever the order
\* in which blocks and votes were added and whatever their number.
THEOREM BuildIsCanonicalHolds == VotingSpec => []BuildIsCanonical
<1>1. BuilderInv => BuildIsCanonical
  <2> SUFFICES ASSUME BuilderInv, built, verdict = "none" PROVE BuildIsCanonical
    BY DEF BuildIsCanonical, Builder!BuildIsCanonical
  <2> DEFINE vs == Elements(bVotes)
             fits == \A v \in vs : /\ Elements(bBlocks) = Elements(v.blocks)
                                   /\ Len(bBlocks) = Len(v.blocks)
                                   /\ Cardinality(Elements(bBlocks)) = Len(bBlocks)
  <2>1. bBlocks \in Seq(Blocks) /\ bVotes \in Seq(Votes) /\ bMoment \in Int
        /\ bStaple = TryNew(bBlocks, bVotes, bMoment)
        /\ VoteSet(Votes, Blocks) /\ Hashed(Votes)
    BY BuilderConstants DEF BuilderInv, Assembled
  <2>2. bStaple.ok <=> /\ Endorse(vs, bMoment) /\ Distinct(bVotes)
                       /\ FillSlots(bBlocks, bVotes[1].blocks)
    BY <2>1, TryNewFacts
  <2>3. Cardinality(vs) = Len(bVotes) <=> Distinct(bVotes)
    BY <2>1, SeqIsList, ElementsCount
  <2>4. Endorse(vs, bMoment) => (FillSlots(bBlocks, bVotes[1].blocks) <=> fits)
    BY <2>1, FitsFacts
  <2>5. bStaple.ok => /\ \A v \in vs : bStaple.blocks = v.blocks
                      /\ Elements(bStaple.votes) = vs
                      /\ Len(bStaple.votes) = Len(bVotes)
    BY <2>1, VerifyFacts
  <2>6. bStaple.ok <=> Endorse(vs, bMoment) /\ Cardinality(vs) = Len(bVotes) /\ fits
    BY <2>2, <2>3, <2>4
  <2>7. /\ Builder!Elements(bVotes) = vs /\ Builder!Elements(bBlocks) = Elements(bBlocks)
        /\ Builder!Elements(bStaple.votes) = Elements(bStaple.votes)
        /\ \A v \in vs : Builder!Elements(v.blocks) = Elements(v.blocks)
        /\ Builder!Cardinality(vs) = Cardinality(vs)
        /\ Builder!Cardinality(Elements(bBlocks)) = Cardinality(Elements(bBlocks))
    BY SameStaples
  <2> DEFINE bfits == \A v \in vs : /\ Builder!Elements(bBlocks) = Builder!Elements(v.blocks)
                                    /\ Len(bBlocks) = Len(v.blocks)
                                    /\ Builder!Cardinality(Builder!Elements(bBlocks)) = Len(bBlocks)
  <2>8. bfits <=> fits
    BY <2>7
  <2>9. bStaple.ok <=> Builder!Endorse(vs, bMoment) /\ Builder!Cardinality(vs) = Len(bVotes) /\ bfits
    <3> HIDE DEF fits, bfits, vs
    <3>1. Builder!Endorse(vs, bMoment) <=> Endorse(vs, bMoment)
      BY DEF Endorse
    <3>2. Builder!Cardinality(vs) = Len(bVotes) <=> Cardinality(vs) = Len(bVotes)
      BY <2>7
    <3> QED BY <2>6, <2>8, <3>1, <3>2, Zenon
  <2> HIDE DEF vs
  <2> QED BY <2>5, <2>7, <2>9 DEF BuildIsCanonical, Builder!BuildIsCanonical, Endorse
<1> QED BY <1>1, BuilderInvariant, PTL

\* RefusedOnlyByTime: a peer that verifies a staple that was built judges its
\* votes at its own moment, and refuses it for nothing else.
THEOREM RefusedOnlyByTimeHolds == VotingSpec => []RefusedOnlyByTime
<1>1. BuilderInv => RefusedOnlyByTime
  <2> SUFFICES ASSUME BuilderInv, verdict # "none" PROVE RefusedOnlyByTime
    BY DEF RefusedOnlyByTime, Builder!RefusedOnlyByTime
  <2>1. bBlocks \in Seq(Blocks) /\ bVotes \in Seq(Votes) /\ bMoment \in Int
        /\ VoteSet(Votes, Blocks) /\ Hashed(Votes) /\ bStaple.ok
        /\ (verdict = "accepted" <=> Verify(bStaple, bMoment))
    BY BuilderConstants DEF BuilderInv
  <2>2. PICK m0 \in Int : bStaple = TryNew(bBlocks, bVotes, m0)
    BY DEF BuilderInv, Assembled
  <2>3. Verify(bStaple, bMoment) <=> Endorse(Elements(bVotes), bMoment)
    BY <2>1, <2>2, VerifyFacts
  <2> QED BY <2>1, <2>3, SameStaples DEF RefusedOnlyByTime, Builder!RefusedOnlyByTime, Endorse
<1> QED BY <1>1, BuilderInvariant, PTL

-----------------------------------------------------------------------------
(* The clocks of a round and of a recovery.                                *)

\* Before the recovery asks for permanent votes, only the sender's fee block
\* follows what is sent.
Early == {<<"block">>, <<"block", "fee">>}

\* The temporary votes there can be.
TempVotes ==
  UNION {{[issuer |-> r, from |-> t + Skew[r], to |-> t + Skew[r] + TempLife,
           blocks |-> bs, fees |-> f] : t \in 0..MaxTime, bs \in Early, f \in {"fees", "none"}}
         : r \in Reps}

RoundTypes ==
  /\ now \in 0..MaxTime /\ issued \in SUBSET (TempVotes \cup PermVotes)
  /\ blocks \in Early /\ temp \in Seq(TempVotes) /\ perm \in Seq(PermVotes)
  /\ rtemp \in Seq(TempVotes) /\ rperm \in Seq(PermVotes)
  /\ moment \in Int /\ rmoment \in Int /\ rleft \in SUBSET Reps

\* The votes of the round were given after its moment was taken, one by each
\* issuer, and the permanent ones are for its blocks.
Timely(s) ==
  \A i \in 1..Len(s) : /\ s[i] \in issued
                       /\ moment - Skew[Sender] <= s[i].from - Skew[s[i].issuer]
                       /\ s[i].from - Skew[s[i].issuer] <= now
RoundVotes ==
  /\ Timely(temp) /\ Timely(perm) /\ DistinctIssuers(temp) /\ DistinctIssuers(perm)
  /\ \A i \in 1..Len(temp) : temp[i].blocks = <<"block">>
  /\ \A i \in 1..Len(perm) : perm[i].blocks = blocks /\ perm[i].issuer \in IssuersOf(temp)
  /\ pc \in {"start", "temp"} => blocks = <<"block">> /\ perm = << >>
  /\ pc = "start" => temp = << >>
  /\ pc # "start" => Skew[Sender] <= moment /\ moment <= now + Skew[Sender]

\* Until the recovery asks for permanent votes they are all the round's.
RoundsOwn ==
  rpc \in {"start", "gather", "more"} =>
    \A v \in issued : IsPerm(v) => v.blocks = blocks /\ pc \notin {"start", "temp"}

RecoverVotes ==
  /\ DistinctIssuers(rperm)
  /\ rpc = "start" => rperm = << >>
  /\ rpc # "start" => Skew[Recoverer] <= rmoment /\ rmoment <= now + Skew[Recoverer]
  /\ rpc = "gather" => \A i \in 1..Len(rperm) : rperm[i] \in issued
  /\ rpc \in {"gather", "topup"} => \A i \in 1..Len(rperm) : rperm[i].issuer \notin rleft
  /\ rpc \in {"more", "topup"} => \A i \in 1..Len(rperm) : rperm[i].blocks = rblocks
  /\ rpc = "more" => rblocks \in Early
  /\ rpc = "topup" => rblocks \in Lists
  /\ rpc = "failed" => rperm = << >>

\* The names of blocks.
Names == {"block", "fee", "rfee"}

Made(w) ==
  \/ w = Rejected
  \/ \E bs \in Lists, s \in Seq(PermVotes), m \in Int : w = TryNew(bs, s, m)
Staples == Made(staple) /\ Made(rstaple)

RoundInv == RoundTypes /\ RoundVotes /\ RoundsOwn /\ RecoverVotes /\ Staples

-----------------------------------------------------------------------------
\* The lists of blocks name each block once.
LEMMA ListsFacts ==
  /\ Early \subseteq Lists
  /\ \A bs \in Lists : bs \in Seq(Names) /\ bs # << >> /\ Distinct(bs) /\ FillSlots(bs, bs)
<1>1. Early \subseteq Lists
  BY DEF Early, Lists
<1>2. ASSUME NEW bs \in Lists PROVE bs \in Seq(Names) /\ bs # << >> /\ Distinct(bs)
  <2>1. bs \in Seq(Names) /\ bs # << >>
    <3>1. "block" \in Names /\ "fee" \in Names /\ "rfee" \in Names
      BY DEF Names
    <3>2. CASE bs = <<"block">>
      BY <3>1, <3>2
    <3>3. CASE bs = <<"block", "fee">>
      BY <3>1, <3>3
    <3>4. CASE bs = <<"block", "rfee">>
      BY <3>1, <3>4
    <3>5. CASE bs = <<"block", "fee", "rfee">>
      BY <3>1, <3>5
    <3> QED BY <3>2, <3>3, <3>4, <3>5 DEF Lists
  <2>2. Distinct(bs)
    BY DEF Lists, Distinct
  <2> QED BY <2>1, <2>2
<1>3. ASSUME NEW bs \in Lists PROVE FillSlots(bs, bs)
  <2>1. List(bs, Len(bs)) /\ Cardinality(Elements(bs)) = Len(bs)
    BY <1>2, SeqIsList, ElementsCount
  <2> QED BY <2>1, SlotFacts
<1> QED BY <1>1, <1>2, <1>3

\* The clocks are within the assumptions.
LEMMA ClockFacts ==
  /\ \A p \in Reps \cup Peers \cup {Sender, Recoverer} : Skew[p] \in Int
  /\ TempLife \in Int /\ PermLife \in Int /\ MaxTime \in Nat /\ MaxTime \in Int
  /\ Slop \in Nat /\ Slop \in Int /\ Threshold \in Nat /\ Threshold \in Int
  /\ \A r \in Reps : TempLife < PermLife
<1>1. /\ \A p \in Reps \cup Peers \cup {Sender, Recoverer} : Skew[p] \in Int
      /\ TempLife \in Int /\ PermLife \in Int /\ MaxTime \in Nat
      /\ Slop \in Nat /\ Slop \in Int /\ Threshold \in Nat /\ Threshold \in Int
  BY ClockAssumption, ConfigAssumption
<1>2. ASSUME NEW r \in Reps PROVE TempLife < PermLife
  <2>1. /\ MaxTime + Skew[Sender] + Threshold < Skew[r] + PermLife
        /\ MaxTime + Skew[r] + TempLife <= Skew[Sender] + Threshold
    BY LifeAssumption
  <2>2. Skew[r] \in Int /\ Skew[Sender] \in Int
    BY <1>1
  <2> QED BY <1>1, <2>1, <2>2
<1> QED BY <1>1, <1>2

\* What permanent and temporary votes look like.
LEMMA VoteFacts ==
  /\ \A v \in PermVotes :
       /\ v.issuer \in Reps /\ v.from \in Int /\ v.to \in Int /\ v.to = v.from + PermLife
       /\ Skew[v.issuer] \in Int /\ Skew[v.issuer] <= v.from /\ v.from <= MaxTime + Skew[v.issuer]
       /\ v.blocks \in Lists /\ v.fees = "none" /\ IsPerm(v)
  /\ \A v \in TempVotes :
       /\ v.issuer \in Reps /\ v.from \in Int /\ v.to \in Int /\ v.to = v.from + TempLife
       /\ Skew[v.issuer] \in Int /\ Skew[v.issuer] <= v.from /\ v.from <= MaxTime + Skew[v.issuer]
       /\ v.blocks \in Early /\ v.fees \in {"fees", "none"} /\ ~IsPerm(v)
<1>1. ASSUME NEW v \in PermVotes
      PROVE  /\ v.issuer \in Reps /\ v.from \in Int /\ v.to \in Int /\ v.to = v.from + PermLife
             /\ Skew[v.issuer] \in Int /\ Skew[v.issuer] <= v.from /\ v.from <= MaxTime + Skew[v.issuer]
             /\ v.blocks \in Lists /\ v.fees = "none" /\ IsPerm(v)
  <2>1. PICK r \in Reps, t \in 0..MaxTime, bs \in Lists :
          v = [issuer |-> r, from |-> t + Skew[r], to |-> t + Skew[r] + PermLife,
               blocks |-> bs, fees |-> "none"]
    BY DEF PermVotes
  <2>2. /\ v.issuer = r /\ v.from = t + Skew[r] /\ v.to = t + Skew[r] + PermLife
        /\ v.blocks = bs /\ v.fees = "none"
    BY <2>1
  <2>3. Skew[r] \in Int /\ t \in Nat /\ t <= MaxTime /\ PermLife \in Int /\ MaxTime \in Int
    BY ClockFacts
  <2>4. v.from \in Int /\ v.to \in Int /\ v.to = v.from + PermLife
        /\ Skew[r] <= v.from /\ v.from <= MaxTime + Skew[r]
    BY <2>2, <2>3
  <2>5. IsPerm(v)
    BY <2>3, <2>4 DEF IsPerm
  <2> QED BY <2>2, <2>3, <2>4, <2>5
<1>2. ASSUME NEW v \in TempVotes
      PROVE  /\ v.issuer \in Reps /\ v.from \in Int /\ v.to \in Int /\ v.to = v.from + TempLife
             /\ Skew[v.issuer] \in Int /\ Skew[v.issuer] <= v.from /\ v.from <= MaxTime + Skew[v.issuer]
             /\ v.blocks \in Early /\ v.fees \in {"fees", "none"} /\ ~IsPerm(v)
  <2>1. PICK r \in Reps, t \in 0..MaxTime, bs \in Early, f \in {"fees", "none"} :
          v = [issuer |-> r, from |-> t + Skew[r], to |-> t + Skew[r] + TempLife,
               blocks |-> bs, fees |-> f]
    BY DEF TempVotes
  <2>2. /\ v.issuer = r /\ v.from = t + Skew[r] /\ v.to = t + Skew[r] + TempLife
        /\ v.blocks = bs /\ v.fees = f
    BY <2>1
  <2>3. /\ Skew[r] \in Int /\ t \in Nat /\ t <= MaxTime /\ TempLife \in Int /\ MaxTime \in Int
        /\ PermLife \in Int /\ TempLife < PermLife
    BY ClockFacts
  <2>4. v.from \in Int /\ v.to \in Int /\ v.to = v.from + TempLife
        /\ Skew[r] <= v.from /\ v.from <= MaxTime + Skew[r]
    BY <2>2, <2>3
  <2>5. ~IsPerm(v)
    BY <2>3, <2>4 DEF IsPerm
  <2> QED BY <2>2, <2>3, <2>4, <2>5
<1> QED BY <1>1, <1>2

\* Both are votes as certificates hold them, and hashes tell permanent votes
\* apart.
LEMMA VoteSets ==
  VoteSet(PermVotes, Names) /\ VoteSet(TempVotes, Names) /\ Hashed(PermVotes)
<1>1. \A v \in PermVotes \cup TempVotes :
        v.from \in Int /\ v.to \in Int /\ v.blocks \in Lists
  BY VoteFacts, ListsFacts
<1>2. \A v \in PermVotes \cup TempVotes : v.blocks \in Seq(Names) /\ v.blocks # << >>
  BY <1>1, ListsFacts
<1> QED BY <1>1, <1>2, HashAssumption DEF VoteSet, Dated, Hashed

\* The votes that representatives give are among them.
LEMMA GivenVotes ==
  ASSUME now \in 0..MaxTime, NEW r \in Reps
  PROVE  /\ \A bs \in Lists : PermVote(r, bs) \in PermVotes /\ PermVote(r, bs).blocks = bs
         /\ \A bs \in Early : TempVote(r, bs) \in TempVotes /\ TempVote(r, bs).blocks = bs
         /\ \A bs : /\ PermVote(r, bs).issuer = r /\ PermVote(r, bs).from = now + Skew[r]
                    /\ TempVote(r, bs).issuer = r /\ TempVote(r, bs).from = now + Skew[r]
         /\ now \in Int /\ Skew[r] \in Int
<1>1. ASSUME NEW bs \in Lists PROVE PermVote(r, bs) \in PermVotes /\ PermVote(r, bs).blocks = bs
  BY DEF PermVote, PermVotes, Clock
<1>2. ASSUME NEW bs \in Early PROVE TempVote(r, bs) \in TempVotes /\ TempVote(r, bs).blocks = bs
  <2> DEFINE f == IF r \in Charging THEN "fees" ELSE "none"
  <2>1. f \in {"fees", "none"}
    OBVIOUS
  <2>2. TempVote(r, bs) = [issuer |-> r, from |-> now + Skew[r],
                           to |-> now + Skew[r] + TempLife, blocks |-> bs, fees |-> f]
    BY DEF TempVote, Clock
  <2> HIDE DEF f
  <2> QED BY <2>1, <2>2 DEF TempVotes
<1>3. \A bs : /\ PermVote(r, bs).issuer = r /\ PermVote(r, bs).from = now + Skew[r]
              /\ TempVote(r, bs).issuer = r /\ TempVote(r, bs).from = now + Skew[r]
  BY DEF PermVote, TempVote, Clock
<1>4. now \in Int /\ Skew[r] \in Int
  BY ClockFacts
<1> QED BY <1>1, <1>2, <1>3, <1>4


\* Votes of distinct issuers that list the same blocks, all active and all of
\* one kind, assemble with these blocks.
LEMMA Assembles ==
  ASSUME NEW V, VoteSet(V, Names), NEW s \in Seq(V), s # << >>, DistinctIssuers(s),
         NEW bs \in Lists, NEW m \in Int,
         \A i \in 1..Len(s) : /\ s[i].blocks = bs /\ s[i].fees # "quote"
                              /\ s[i].from - Slop <= m /\ m <= s[i].to + Slop,
         \/ \A i \in 1..Len(s) : s[i].to - m > Threshold /\ s[i].fees = "none"
         \/ \A i \in 1..Len(s) : s[i].to - m <= Threshold
  PROVE  TryNew(bs, s, m).ok
<1>1. /\ \A v \in Elements(s) : \E i \in 1..Len(s) : v = s[i]
      /\ Len(s) \in Nat /\ 1 \in 1..Len(s) /\ s[1] \in Elements(s)
  BY DEF Elements
<1>2. \A i, j \in 1..Len(s) : s[i].issuer = s[j].issuer => s[i] = s[j]
  BY DEF DistinctIssuers
<1>3. \A v, w \in Elements(s) : v.blocks = w.blocks /\ (v.issuer = w.issuer => v = w)
  BY <1>1, <1>2
<1>4. \A v \in Elements(s) : v.from - Slop <= m /\ m <= v.to + Slop /\ v.fees # "quote"
  BY <1>1
<1>5. \/ \A v \in Elements(s) : v.to - m > Threshold /\ v.fees = "none"
      \/ \A v \in Elements(s) : v.to - m <= Threshold
  BY <1>1
<1>6. Endorse(Elements(s), m)
  BY <1>1, <1>3, <1>4, <1>5 DEF Endorse, Builder!Endorse
<1>7. Distinct(s)
  BY DEF Distinct, DistinctIssuers
<1>8. s[1].blocks = bs /\ bs \in Seq(Names) /\ FillSlots(bs, bs)
  BY <1>1, ListsFacts
<1> QED BY <1>6, <1>7, <1>8, TryNewFacts

\* There is a latest `from' among permanent votes.
LEMMA LatestFacts ==
  ASSUME NEW E \in SUBSET PermVotes, E # {}
  PROVE  LatestFrom(E) \in {v.from : v \in E} /\ \A v \in E : v.from <= LatestFrom(E)
<1>1. PICK v0 \in E : TRUE
  OBVIOUS
<1>2. PICK B : B = Skew[v0.issuer] + PermLife
  OBVIOUS
<1>3. B \in Int /\ \A v \in E : v.from \in Int /\ v.from <= B
  <2>1. v0.issuer \in Reps /\ Skew[v0.issuer] \in Int /\ PermLife \in Int
    BY VoteFacts, ClockFacts
  <2>2. ASSUME NEW v \in E PROVE v.from \in Int /\ v.from <= B
    <3>1. v.issuer \in Reps /\ v.from \in Int /\ Skew[v.issuer] \in Int
          /\ v.from <= MaxTime + Skew[v.issuer]
      BY VoteFacts
    <3>2. MaxTime + Skew[v.issuer] + Threshold < Skew[v0.issuer] + PermLife
      BY <2>1, <3>1, LifeAssumption
    <3> QED BY <1>2, <2>1, <3>1, <3>2, ClockFacts
  <2> QED BY <1>2, <2>1, <2>2
<1> DEFINE U == {u \in Nat : \E v \in E : v.from = B - u}
<1>4. U \in SUBSET Nat /\ U # {}
  <2>1. B - v0.from \in Nat /\ v0.from = B - (B - v0.from)
    BY <1>3
  <2> QED BY <2>1
<1>5. PICK u \in U : \A w \in U : u <= w
  <2> HIDE DEF U
  <2> QED BY <1>4, LeastNat
<1>6. PICK v1 \in E : v1.from = B - u
  BY <1>5
<1>7. ASSUME NEW v \in E PROVE v.from <= v1.from
  <2>1. B - v.from \in Nat /\ v.from = B - (B - v.from)
    BY <1>3
  <2>2. u <= B - v.from
    BY <1>5, <2>1
  <2> QED BY <1>3, <1>5, <1>6, <2>2
<1>8. \E t \in {v.from : v \in E} : \A v \in E : v.from <= t
  BY <1>7
<1> QED BY <1>8 DEF LatestFrom

\* A permanent vote is permanent for everyone, and no temporary one is for the
\* two clients, as long as the model's time lasts.
LEMMA StayPermanent ==
  ASSUME NEW v \in PermVotes, NEW p \in Reps \cup Peers \cup {Sender, Recoverer},
         NEW m \in Int, m <= MaxTime + Skew[p]
  PROVE  v.to - m > Threshold /\ m <= v.to + Slop /\ IsPermanentAt(v, m)
<1>1. /\ v.issuer \in Reps /\ v.from \in Int /\ v.to \in Int /\ v.to = v.from + PermLife
      /\ Skew[v.issuer] \in Int /\ Skew[v.issuer] <= v.from
  BY VoteFacts
<1>2. MaxTime + Skew[p] + Threshold < Skew[v.issuer] + PermLife
  BY <1>1, LifeAssumption
<1>3. Skew[p] \in Int
  BY ClockFacts
<1> QED BY <1>1, <1>2, <1>3, ClockFacts DEF IsPermanentAt

\* No temporary vote is permanent for the sender or the recovering client.
LEMMA StayTemporary ==
  ASSUME NEW v \in TempVotes, NEW p \in {Sender, Recoverer}, NEW m \in Int, Skew[p] <= m
  PROVE  v.to - m <= Threshold /\ ~IsPermanentAt(v, m)
<1>1. /\ v.issuer \in Reps /\ v.from \in Int /\ v.to \in Int /\ v.to = v.from + TempLife
      /\ Skew[v.issuer] \in Int /\ v.from <= MaxTime + Skew[v.issuer]
  BY VoteFacts
<1>2. MaxTime + Skew[v.issuer] + TempLife <= Skew[p] + Threshold
  BY <1>1, LifeAssumption
<1>3. Skew[p] \in Int
  BY ClockFacts
<1> QED BY <1>1, <1>2, <1>3, ClockFacts DEF IsPermanentAt


\* A peer that is not behind the last voter by more than the slop accepts a
\* staple of permanent votes.
LEMMA AcceptedByPeers ==
  ASSUME NEW w, Made(w), w.ok, NEW p \in Peers, now \in 0..MaxTime,
         Clock(p) + Slop >= LatestFrom(Elements(w.votes))
  PROVE  Verify(w, Clock(p))
<1>1. ~Rejected.ok
  BY DEF Rejected
<1>2. PICK bs \in Lists, s \in Seq(PermVotes), m \in Int : w = TryNew(bs, s, m)
  BY <1>1 DEF Made
<1>3. VoteSet(PermVotes, Names) /\ Hashed(PermVotes) /\ bs \in Seq(Names)
  BY VoteSets, ListsFacts
<1>4. PICK x : x = Clock(p)
  OBVIOUS
<1>5. x \in Int /\ x <= MaxTime + Skew[p] /\ Slop \in Int
  BY <1>4, ClockFacts DEF Clock
<1>6. PICK E : E = Elements(s)
  OBVIOUS
<1>7. /\ Elements(w.votes) = E /\ (Verify(w, x) <=> Endorse(E, x))
      /\ Endorse(E, m) /\ E \in SUBSET PermVotes
  <2>1. Elements(w.votes) = Elements(s) /\ (Verify(w, x) <=> Endorse(Elements(s), x))
    BY <1>2, <1>3, <1>5, VerifyFacts
  <2>2. Endorse(Elements(s), m)
    BY <1>2, <1>3, TryNewFacts
  <2>3. Elements(s) \subseteq PermVotes
    BY SeqIsList
  <2> QED BY <1>6, <2>1, <2>2, <2>3
<1>8. E # {} /\ \A v, u \in E : v.blocks = u.blocks /\ (v.issuer = u.issuer => v = u)
  BY <1>7 DEF Endorse, Builder!Endorse
<1>9. LatestFrom(E) \in {v.from : v \in E} /\ \A v \in E : v.from <= LatestFrom(E)
  BY <1>7, <1>8, LatestFacts
<1>10. \A v \in E : v.from \in Int /\ v.fees = "none"
  BY <1>7, VoteFacts
<1>11. \A v \in E : v.from - Slop <= x
  <2>1. LatestFrom(E) \in Int /\ x + Slop >= LatestFrom(E)
    BY <1>4, <1>7, <1>9, <1>10
  <2> QED BY <1>5, <1>9, <1>10, <2>1
<1>12. \A v \in E : v.to - x > Threshold /\ x <= v.to + Slop
  BY <1>5, <1>7, StayPermanent
<1>13. Endorse(E, x)
  BY <1>8, <1>10, <1>11, <1>12 DEF Endorse, Builder!Endorse
<1> QED BY <1>4, <1>7, <1>13

\* Adding a vote to a list, from an issuer that is not in it.
LEMMA AppendFacts ==
  ASSUME NEW V, NEW s \in Seq(V), NEW v \in V
  PROVE  /\ Append(s, v) \in Seq(V) /\ Len(Append(s, v)) = Len(s) + 1 /\ Len(s) \in Nat
         /\ \A i \in 1..Len(s) : Append(s, v)[i] = s[i] /\ i \in 1..Len(Append(s, v))
         /\ Append(s, v)[Len(s) + 1] = v /\ Len(s) + 1 \in 1..Len(Append(s, v))
         /\ \A i \in 1..Len(Append(s, v)) :
              (i \in 1..Len(s) /\ Append(s, v)[i] = s[i]) \/ (i = Len(s) + 1 /\ Append(s, v)[i] = v)
         /\ (DistinctIssuers(s) /\ \A i \in 1..Len(s) : s[i].issuer # v.issuer)
              => DistinctIssuers(Append(s, v))
<1>1. /\ Append(s, v) \in Seq(V) /\ Len(Append(s, v)) = Len(s) + 1 /\ Len(s) \in Nat
      /\ \A i \in 1..Len(s) : Append(s, v)[i] = s[i] /\ i \in 1..Len(Append(s, v))
      /\ Append(s, v)[Len(s) + 1] = v /\ Len(s) + 1 \in 1..Len(Append(s, v))
  OBVIOUS
<1>2. \A i \in 1..Len(Append(s, v)) :
        (i \in 1..Len(s) /\ Append(s, v)[i] = s[i]) \/ (i = Len(s) + 1 /\ Append(s, v)[i] = v)
  OBVIOUS
<1>3. ASSUME DistinctIssuers(s), \A i \in 1..Len(s) : s[i].issuer # v.issuer
      PROVE  DistinctIssuers(Append(s, v))
  <2>1. \A i, j \in 1..Len(s) : s[i].issuer = s[j].issuer => i = j
    BY <1>3 DEF DistinctIssuers
  <2>2. PICK t : t = Append(s, v)
    OBVIOUS
  <2>3. \A i \in 1..Len(t) : (i \in 1..Len(s) /\ t[i] = s[i]) \/ (i = Len(s) + 1 /\ t[i] = v)
    BY <1>2, <2>2
  <2>4. \A i, j \in 1..Len(t) : t[i].issuer = t[j].issuer => i = j
    BY <1>3, <2>1, <2>3
  <2> QED BY <2>2, <2>4 DEF DistinctIssuers
<1> QED BY <1>1, <1>2, <1>3

\* What pick_best_vote picks among the votes that a representative holds.
LEMMA BestFacts ==
  ASSUME NEW H \in SUBSET (TempVotes \cup PermVotes), NEW r \in Reps, H # {},
         \A v \in H : v.issuer = r
  PROVE  (CHOOSE v \in H : \A w \in H : w.to <= v.to) \in H
<1>1. PICK v0 \in H : TRUE
  OBVIOUS
<1>2. PICK B : B = MaxTime + Skew[r] + PermLife
  OBVIOUS
<1>3. B \in Int /\ \A v \in H : v.to \in Int /\ v.to <= B
  <2>1. Skew[r] \in Int /\ PermLife \in Int /\ MaxTime \in Int /\ TempLife \in Int /\ TempLife < PermLife
    BY ClockFacts
  <2>2. ASSUME NEW v \in H PROVE v.to \in Int /\ v.to <= B
    <3>1. /\ v.issuer = r /\ v.from \in Int /\ v.to \in Int /\ v.from <= MaxTime + Skew[v.issuer]
          /\ v.to = v.from + TempLife \/ v.to = v.from + PermLife
      BY VoteFacts
    <3> QED BY <1>2, <2>1, <3>1
  <2> QED BY <1>2, <2>1, <2>2
<1> DEFINE U == {u \in Nat : \E v \in H : v.to = B - u}
<1>4. U \in SUBSET Nat /\ U # {}
  <2>1. B - v0.to \in Nat /\ v0.to = B - (B - v0.to)
    BY <1>3
  <2> QED BY <2>1
<1>5. PICK u \in U : \A w \in U : u <= w
  <2> HIDE DEF U
  <2> QED BY <1>4, LeastNat
<1>6. PICK v1 \in H : v1.to = B - u
  BY <1>5
<1>7. ASSUME NEW v \in H PROVE v.to <= v1.to
  <2>1. B - v.to \in Nat /\ v.to = B - (B - v.to)
    BY <1>3
  <2>2. u <= B - v.to
    BY <1>5, <2>1
  <2> QED BY <1>3, <1>5, <1>6, <2>2
<1> QED BY <1>7


-----------------------------------------------------------------------------
\* What others do to a round is to let time pass and to vote.
LEMMA RoundFrame ==
  ASSUME RoundTypes, RoundVotes, UNCHANGED sendVars, issued \subseteq issued',
         now' \in Int, now <= now'
  PROVE  RoundVotes'
<1>1. /\ pc' = pc /\ moment' = moment /\ blocks' = blocks /\ temp' = temp /\ perm' = perm
      /\ now \in Int /\ moment \in Int /\ Skew[Sender] \in Int
  BY ClockFacts DEF sendVars, RoundTypes
<1>2. ASSUME NEW V, V = TempVotes \/ V = PermVotes, NEW s \in Seq(V), Timely(s)
      PROVE  \A i \in 1..Len(s) : /\ s[i] \in issued'
                                  /\ moment' - Skew[Sender] <= s[i].from - Skew[s[i].issuer]
                                  /\ s[i].from - Skew[s[i].issuer] <= now'
  <2> SUFFICES ASSUME NEW i \in 1..Len(s)
               PROVE  /\ s[i] \in issued'
                      /\ moment' - Skew[Sender] <= s[i].from - Skew[s[i].issuer]
                      /\ s[i].from - Skew[s[i].issuer] <= now'
    OBVIOUS
  <2>1. /\ s[i] \in issued /\ moment - Skew[Sender] <= s[i].from - Skew[s[i].issuer]
        /\ s[i].from - Skew[s[i].issuer] <= now
    BY <1>2 DEF Timely
  <2>2. s[i] \in TempVotes \cup PermVotes
    BY <1>2
  <2>3. s[i].from \in Int /\ Skew[s[i].issuer] \in Int
    BY <2>2, VoteFacts
  <2> QED BY <1>1, <2>1, <2>3
<1>3. Timely(temp)'
  BY <1>1, <1>2 DEF RoundTypes, RoundVotes, Timely
<1>4. Timely(perm)'
  BY <1>1, <1>2 DEF RoundTypes, RoundVotes, Timely
<1>5. IssuersOf(temp)' = IssuersOf(temp) /\ DistinctIssuers(temp)' /\ DistinctIssuers(perm)'
  BY <1>1 DEF IssuersOf, Elements, DistinctIssuers, RoundVotes
<1>6. pc' # "start" => Skew[Sender] <= moment' /\ moment' <= now' + Skew[Sender]
  BY <1>1 DEF RoundVotes
<1> QED BY <1>1, <1>3, <1>4, <1>5, <1>6 DEF RoundVotes

\* Nor does the round do anything else to a recovery.
LEMMA RecoverFrame ==
  ASSUME RoundTypes, RecoverVotes, UNCHANGED recoverVars, issued \subseteq issued',
         now' \in Int, now <= now'
  PROVE  RecoverVotes'
<1>1. /\ rpc' = rpc /\ rmoment' = rmoment /\ rleft' = rleft /\ rblocks' = rblocks
      /\ rperm' = rperm /\ now \in Int /\ rmoment \in Int /\ Skew[Recoverer] \in Int
  BY ClockFacts DEF recoverVars, RoundTypes
<1>2. rpc # "start" => Skew[Recoverer] <= rmoment /\ rmoment <= now' + Skew[Recoverer]
  BY <1>1 DEF RecoverVotes
<1>3. DistinctIssuers(rperm)'
  BY <1>1 DEF DistinctIssuers, RecoverVotes
<1> QED BY <1>1, <1>2, <1>3 DEF RecoverVotes

\* Time passes.
LEMMA TickStep == ASSUME RoundInv, Tick PROVE RoundInv'
<1> USE DEF RoundInv
<1>1. /\ now' \in 0..MaxTime /\ now' \in Int /\ now <= now' /\ issued' = issued
      /\ UNCHANGED sendVars /\ UNCHANGED recoverVars
  BY ClockFacts DEF Tick, RoundTypes
<1>2. RoundTypes'
  BY <1>1 DEF RoundTypes, sendVars, recoverVars
<1>3. RoundVotes' /\ RecoverVotes'
  BY <1>1, RoundFrame, RecoverFrame
<1>4. RoundsOwn' /\ Staples'
  BY <1>1 DEF RoundsOwn, Staples, sendVars, recoverVars
<1> QED BY <1>2, <1>3, <1>4

\* transmit_round takes its moment.
LEMMA StartRoundStep == ASSUME RoundInv, StartRound PROVE RoundInv'
<1> USE DEF RoundInv
<1>1. /\ UNCHANGED <<now, issued, blocks, temp, perm, staple>> /\ UNCHANGED recoverVars
      /\ pc = "start" /\ pc' = "temp" /\ moment' = now + Skew[Sender]
      /\ now \in Int /\ 0 <= now /\ Skew[Sender] \in Int
  BY ClockFacts DEF StartRound, RoundTypes, Clock
<1>2. RoundTypes'
  BY <1>1 DEF RoundTypes, recoverVars
<1>3. RecoverVotes'
  BY <1>1, RecoverFrame
<1>4. RoundVotes'
  <2>1. temp = << >> /\ perm = << >> /\ blocks = <<"block">>
    BY <1>1 DEF RoundVotes
  <2>2. temp' = << >> /\ perm' = << >> /\ Len(<< >>) = 0
    BY <1>1, <2>1
  <2>3. Skew[Sender] <= moment' /\ moment' <= now' + Skew[Sender]
    BY <1>1
  <2> QED BY <1>1, <2>1, <2>2, <2>3 DEF RoundVotes, Timely, DistinctIssuers
<1>5. RoundsOwn' /\ Staples'
  BY <1>1 DEF RoundsOwn, Staples, recoverVars
<1> QED BY <1>2, <1>3, <1>4, <1>5

\* A representative gives the round a temporary vote.
LEMMA GiveTempStep == ASSUME RoundInv, NEW r \in Reps, GiveTemp(r) PROVE RoundInv'
<1> USE DEF RoundInv
<1>1. PICK v : v = TempVote(r, blocks)
  OBVIOUS
<1>2. /\ UNCHANGED <<now, pc, moment, blocks, perm, staple>> /\ UNCHANGED recoverVars
      /\ pc = "temp" /\ issued' = issued \cup {v} /\ temp' = Append(temp, v)
      /\ ~HasVoted(r, FALSE)
  BY <1>1 DEF GiveTemp
<1>3. /\ v \in TempVotes /\ v.blocks = blocks /\ v.issuer = r /\ v.from = now + Skew[r]
      /\ now \in Int /\ Skew[r] \in Int /\ ~IsPerm(v)
  BY <1>1, GivenVotes, VoteFacts DEF RoundTypes
<1>4. RoundTypes'
  <2>1. temp' \in Seq(TempVotes)
    BY <1>2, <1>3, AppendFacts DEF RoundTypes
  <2>2. issued' \in SUBSET (TempVotes \cup PermVotes)
    BY <1>2, <1>3 DEF RoundTypes
  <2> QED BY <1>2, <2>1, <2>2 DEF RoundTypes, recoverVars
<1>5. RecoverVotes'
  BY <1>2, <1>3, RecoverFrame
<1>6. RoundsOwn' /\ Staples'
  BY <1>2, <1>3 DEF RoundsOwn, Staples, recoverVars
<1>7. RoundVotes'
  <2>1. \A i \in 1..Len(temp) : temp[i].issuer # v.issuer
    <3> SUFFICES ASSUME NEW i \in 1..Len(temp), temp[i].issuer = r PROVE FALSE
      BY <1>3
    <3>1. temp[i] \in TempVotes /\ temp[i] \in issued
      <4>1. temp[i] \in TempVotes
        BY DEF RoundTypes
      <4>2. temp[i] \in issued
        BY DEF RoundVotes, Timely
      <4> QED BY <4>1, <4>2
    <3>2. ~IsPerm(temp[i])
      BY <3>1, VoteFacts
    <3> QED BY <1>2, <3>1, <3>2 DEF HasVoted, IsPerm
  <2>2. DistinctIssuers(temp')
    BY <1>2, <1>3, <2>1, AppendFacts DEF RoundTypes, RoundVotes
  <2>3. \A i \in 1..Len(temp') : (i \in 1..Len(temp) /\ temp'[i] = temp[i]) \/ temp'[i] = v
    BY <1>2, <1>3, AppendFacts DEF RoundTypes
  <2>4. moment - Skew[Sender] <= v.from - Skew[r] /\ v.from - Skew[r] <= now
    BY <1>2, <1>3, ClockFacts DEF RoundVotes, RoundTypes
  <2>5. Timely(temp)'
    BY <1>2, <1>3, <2>3, <2>4 DEF Timely, RoundVotes
  <2>6. perm = << >> /\ blocks = <<"block">>
    BY <1>2 DEF RoundVotes
  <2>7. \A i \in 1..Len(temp') : temp'[i].blocks = <<"block">>
    BY <1>3, <2>3, <2>6 DEF RoundVotes
  <2>8. perm' = << >> /\ Len(<< >>) = 0
    BY <1>2, <2>6
  <2>9. Timely(perm)' /\ DistinctIssuers(perm)'
    BY <2>8 DEF Timely, DistinctIssuers
  <2>10. \A i \in 1..Len(perm') : perm'[i].blocks = blocks' /\ perm'[i].issuer \in IssuersOf(temp)'
    BY <2>8
  <2> QED BY <1>2, <2>2, <2>5, <2>6, <2>7, <2>8, <2>9, <2>10 DEF RoundVotes
<1> QED BY <1>4, <1>5, <1>6, <1>7


\* The lists with a fee block are the lists without it and the fee block.
LEMMA AppendLists ==
  /\ Append(<<"block">>, "fee") = <<"block", "fee">>
  /\ Append(<<"block">>, "rfee") = <<"block", "rfee">>
  /\ Append(<<"block", "fee">>, "rfee") = <<"block", "fee", "rfee">>
<1>1. "block" \in Names /\ "fee" \in Names /\ "rfee" \in Names
  BY DEF Names
<1>2. ASSUME NEW x \in Names, NEW y \in Names PROVE Append(<<x>>, y) = <<x, y>>
  <2>1. <<x>> \in Seq(Names) /\ <<x, y>> \in Seq(Names) /\ Len(<<x>>) = 1 /\ Len(<<x, y>>) = 2
    OBVIOUS
  <2>2. PICK t : t = Append(<<x>>, y)
    OBVIOUS
  <2>3. t \in Seq(Names) /\ Len(t) = 2 /\ t[1] = x /\ t[2] = y
    BY <2>1, <2>2
  <2>4. PICK u : u = <<x, y>>
    OBVIOUS
  <2>5. u[1] = x /\ u[2] = y /\ u \in Seq(Names) /\ Len(u) = 2
    BY <2>1, <2>4
  <2>6. \A i \in 1..2 : t[i] = u[i]
    BY <2>3, <2>5
  <2> QED BY <2>2, <2>3, <2>4, <2>5, <2>6, SameList
<1>3. ASSUME NEW x \in Names, NEW y \in Names, NEW z \in Names
      PROVE  Append(<<x, y>>, z) = <<x, y, z>>
  <2>1. /\ <<x, y>> \in Seq(Names) /\ <<x, y, z>> \in Seq(Names)
        /\ Len(<<x, y>>) = 2 /\ Len(<<x, y, z>>) = 3
    OBVIOUS
  <2>2. PICK t : t = Append(<<x, y>>, z)
    OBVIOUS
  <2>3. t \in Seq(Names) /\ Len(t) = 3 /\ t[1] = x /\ t[2] = y /\ t[3] = z
    BY <2>1, <2>2
  <2>4. PICK u : u = <<x, y, z>>
    OBVIOUS
  <2>5. u[1] = x /\ u[2] = y /\ u[3] = z /\ u \in Seq(Names) /\ Len(u) = 3
    BY <2>1, <2>4
  <2>6. \A i \in 1..3 : t[i] = u[i]
    BY <2>3, <2>5
  <2> QED BY <2>2, <2>3, <2>4, <2>5, <2>6, SameList
<1> QED BY <1>1, <1>2, <1>3

\* The first voting round is over: a fee block may join the blocks, of which
\* no permanent vote knows yet.
LEMMA TempDoneStep == ASSUME RoundInv, TempDone PROVE RoundInv'
<1> USE DEF RoundInv
<1>1. /\ UNCHANGED <<now, issued, moment, temp, perm, staple>> /\ UNCHANGED recoverVars
      /\ pc = "temp" /\ pc' \in {"refused", "perm", "failed"}
      /\ blocks' = blocks \/ blocks' = Append(blocks, "fee")
  BY DEF TempDone
<1>2. perm = << >> /\ blocks = <<"block">> /\ perm' = << >> /\ Len(<< >>) = 0
  BY <1>1 DEF RoundVotes
<1>3. blocks' \in Early
  <2>1. Append(<<"block">>, "fee") = <<"block", "fee">>
    BY AppendLists
  <2> QED BY <1>1, <1>2, <2>1 DEF Early
<1>4. RoundTypes'
  BY <1>1, <1>3 DEF RoundTypes, recoverVars
<1>5. RecoverVotes'
  <2>1. now' \in Int /\ now <= now' /\ issued \subseteq issued'
    BY <1>1 DEF RoundTypes
  <2> QED BY <1>1, <2>1, RecoverFrame
<1>6. RoundsOwn' /\ Staples'
  BY <1>1 DEF RoundsOwn, Staples, recoverVars
<1>7. RoundVotes'
  <2>1. Timely(temp)'
    BY <1>1 DEF Timely, RoundVotes
  <2>2. Timely(perm)' /\ DistinctIssuers(perm)'
    BY <1>2 DEF Timely, DistinctIssuers
  <2>3. DistinctIssuers(temp)' /\ \A i \in 1..Len(temp') : temp'[i].blocks = <<"block">>
    BY <1>1 DEF DistinctIssuers, RoundVotes
  <2>4. \A i \in 1..Len(perm') : perm'[i].blocks = blocks' /\ perm'[i].issuer \in IssuersOf(temp)'
    BY <1>2
  <2>5. Skew[Sender] <= moment' /\ moment' <= now' + Skew[Sender]
    BY <1>1 DEF RoundVotes
  <2>6. pc' \notin {"start", "temp"}
    BY <1>1
  <2> QED BY <2>1, <2>2, <2>3, <2>4, <2>5, <2>6 DEF RoundVotes
<1> QED BY <1>4, <1>5, <1>6, <1>7

\* A representative of the first round gives the second one a permanent vote,
\* whose answer may be lost.
LEMMA GivePermStep == ASSUME RoundInv, NEW r \in Reps, GivePerm(r) PROVE RoundInv'
<1> USE DEF RoundInv
<1>1. PICK v : v = PermVote(r, blocks)
  OBVIOUS
<1>2. /\ UNCHANGED <<now, pc, moment, blocks, temp, staple>> /\ UNCHANGED recoverVars
      /\ pc = "perm" /\ issued' = issued \cup {v}
      /\ perm' = perm \/ perm' = Append(perm, v)
      /\ ~HasVoted(r, TRUE) /\ r \in IssuersOf(temp)
  BY <1>1 DEF GivePerm
<1>3. /\ v \in PermVotes /\ v.blocks = blocks /\ v.issuer = r /\ v.from = now + Skew[r]
      /\ now \in Int /\ Skew[r] \in Int /\ IsPerm(v)
  <2>1. blocks \in Lists
    BY ListsFacts DEF RoundTypes
  <2> QED BY <1>1, <2>1, GivenVotes, VoteFacts DEF RoundTypes
<1>4. RoundTypes'
  <2>1. perm' \in Seq(PermVotes)
    <3>1. perm \in Seq(PermVotes) /\ Append(perm, v) \in Seq(PermVotes)
      BY <1>3, AppendFacts DEF RoundTypes
    <3> QED BY <1>2, <3>1
  <2>2. issued' \in SUBSET (TempVotes \cup PermVotes)
    BY <1>2, <1>3 DEF RoundTypes
  <2> QED BY <1>2, <2>1, <2>2 DEF RoundTypes, recoverVars
<1>5. RecoverVotes'
  BY <1>2, <1>3, RecoverFrame
<1>6. RoundsOwn' /\ Staples'
  BY <1>2, <1>3 DEF RoundsOwn, Staples, recoverVars
<1>7. RoundVotes'
  <2>1. \A i \in 1..Len(perm) : perm[i].issuer # v.issuer
    <3> SUFFICES ASSUME NEW i \in 1..Len(perm), perm[i].issuer = r PROVE FALSE
      BY <1>3
    <3>1. perm[i] \in PermVotes
      BY DEF RoundTypes
    <3>2. perm[i] \in issued
      BY DEF RoundVotes, Timely
    <3>3. IsPerm(perm[i])
      BY <3>1, VoteFacts
    <3> QED BY <1>2, <3>2, <3>3 DEF HasVoted, IsPerm
  <2>2. DistinctIssuers(perm')
    <3>1. DistinctIssuers(perm) /\ perm \in Seq(PermVotes)
      BY DEF RoundTypes, RoundVotes
    <3>2. DistinctIssuers(Append(perm, v))
      BY <1>3, <2>1, <3>1, AppendFacts
    <3> QED BY <1>2, <3>1, <3>2
  <2>3. \A i \in 1..Len(perm') : (i \in 1..Len(perm) /\ perm'[i] = perm[i]) \/ perm'[i] = v
    BY <1>2, <1>3, AppendFacts DEF RoundTypes
  <2>4. moment - Skew[Sender] <= v.from - Skew[r] /\ v.from - Skew[r] <= now
    BY <1>2, <1>3, ClockFacts DEF RoundVotes, RoundTypes
  <2>5. Timely(perm)'
    BY <1>2, <1>3, <2>3, <2>4 DEF Timely, RoundVotes
  <2>6. Timely(temp)'
    BY <1>2 DEF Timely, RoundVotes
  <2>7. IssuersOf(temp)' = IssuersOf(temp)
    BY <1>2 DEF IssuersOf, Elements
  <2>8. \A i \in 1..Len(perm') : perm'[i].blocks = blocks' /\ perm'[i].issuer \in IssuersOf(temp)'
    BY <1>2, <1>3, <2>3, <2>7 DEF RoundVotes
  <2>9. DistinctIssuers(temp)' /\ \A i \in 1..Len(temp') : temp'[i].blocks = <<"block">>
    BY <1>2 DEF DistinctIssuers, RoundVotes
  <2>10. Skew[Sender] <= moment' /\ moment' <= now' + Skew[Sender]
    BY <1>2 DEF RoundVotes
  <2>11. pc' \notin {"start", "temp"}
    BY <1>2
  <2> QED BY <2>2, <2>5, <2>6, <2>8, <2>9, <2>10, <2>11 DEF RoundVotes
<1> QED BY <1>4, <1>5, <1>6, <1>7

\* The second voting round is over and its staple is assembled.
LEMMA PermDoneStep == ASSUME RoundInv, PermDone PROVE RoundInv'
<1> USE DEF RoundInv
<1>1. /\ UNCHANGED <<now, issued, moment, blocks, temp, perm>> /\ UNCHANGED recoverVars
      /\ pc = "perm" /\ pc' \in {"refused", "done", "failed"}
      /\ staple' = staple \/ staple' = TryNew(blocks, perm, moment)
  BY DEF PermDone
<1>2. RoundTypes'
  BY <1>1 DEF RoundTypes, recoverVars
<1>3. RecoverVotes'
  <2>1. now' \in Int /\ now <= now' /\ issued \subseteq issued'
    BY <1>1 DEF RoundTypes
  <2> QED BY <1>1, <2>1, RecoverFrame
<1>4. RoundsOwn'
  BY <1>1 DEF RoundsOwn, recoverVars
<1>5. Staples'
  <2>1. blocks \in Lists /\ perm \in Seq(PermVotes) /\ moment \in Int
    BY ListsFacts DEF RoundTypes
  <2>2. Made(staple')
    BY <1>1, <2>1 DEF Made, Staples
  <2> QED BY <1>1, <2>2 DEF Staples, recoverVars
<1>6. RoundVotes'
  <2>1. Timely(temp)' /\ Timely(perm)' /\ IssuersOf(temp)' = IssuersOf(temp)
    BY <1>1 DEF Timely, RoundVotes, IssuersOf, Elements
  <2>2. DistinctIssuers(temp)' /\ DistinctIssuers(perm)'
    BY <1>1 DEF DistinctIssuers, RoundVotes
  <2> QED BY <1>1, <2>1, <2>2 DEF RoundVotes
<1> QED BY <1>2, <1>3, <1>4, <1>5, <1>6


-----------------------------------------------------------------------------
\* recover_account takes its moment.
LEMMA StartRecoverStep == ASSUME RoundInv, StartRecover PROVE RoundInv'
<1> USE DEF RoundInv
<1>1. /\ UNCHANGED <<now, issued, rblocks, rtemp, rperm, rstaple>> /\ UNCHANGED sendVars
      /\ rpc = "start" /\ rpc' = "gather" /\ rleft' = Reps
      /\ rmoment' = now + Skew[Recoverer] /\ now \in Int /\ 0 <= now /\ Skew[Recoverer] \in Int
  BY ClockFacts DEF StartRecover, RoundTypes, Clock
<1>2. RoundTypes'
  BY <1>1 DEF RoundTypes, sendVars
<1>3. RoundVotes'
  BY <1>1, RoundFrame
<1>4. RoundsOwn' /\ Staples'
  BY <1>1 DEF RoundsOwn, Staples, sendVars
<1>5. RecoverVotes'
  <2>1. rperm' = << >> /\ Len(<< >>) = 0
    BY <1>1 DEF RecoverVotes
  <2>2. DistinctIssuers(rperm)'
    BY <2>1 DEF DistinctIssuers
  <2>3. Skew[Recoverer] <= rmoment' /\ rmoment' <= now' + Skew[Recoverer]
    BY <1>1
  <2> QED BY <1>1, <2>1, <2>2, <2>3 DEF RecoverVotes
<1> QED BY <1>2, <1>3, <1>4, <1>5

\* A read takes nothing, or a vote of the representative that was read, which
\* counts as permanent when it was given as such.
LEMMA ReadVoteFacts ==
  ASSUME RoundInv, NEW r \in Reps, ReadVote(r)
  PROVE  \/ rperm' = rperm /\ rtemp' = rtemp
         \/ \E v \in issued : v.issuer = r /\ v \in PermVotes /\ rperm' = Append(rperm, v) /\ rtemp' = rtemp
         \/ \E v \in issued : v.issuer = r /\ v \in TempVotes /\ rtemp' = Append(rtemp, v) /\ rperm' = rperm
<1>1. CASE Held(r) = {}
  BY <1>1 DEF ReadVote
<1>2. CASE Held(r) # {}
  <2>1. PICK best : best = CHOOSE v \in Held(r) : \A w \in Held(r) : w.to <= v.to
    OBVIOUS
  <2>2. Held(r) \in SUBSET (TempVotes \cup PermVotes) /\ Held(r) \subseteq issued
        /\ \A v \in Held(r) : v.issuer = r
    BY DEF Held, RoundInv, RoundTypes
  <2>3. best \in Held(r)
    BY <1>2, <2>1, <2>2, BestFacts
  <2>4. best \in issued /\ best.issuer = r /\ best \in TempVotes \cup PermVotes
    BY <2>2, <2>3
  <2>5. /\ Skew[Recoverer] <= rmoment /\ rmoment <= MaxTime + Skew[Recoverer] /\ rmoment \in Int
    BY ClockFacts DEF RoundInv, RoundTypes, RecoverVotes, ReadVote
  <2>6. best \in TempVotes => ~IsPermanentAt(best, rmoment)
    BY <2>5, StayTemporary
  <2>7. best \in PermVotes => IsPermanentAt(best, rmoment)
    BY <2>5, StayPermanent
  <2>8. IF IsPermanentAt(best, rmoment) THEN rperm' = Append(rperm, best) /\ rtemp' = rtemp
                                        ELSE rtemp' = Append(rtemp, best) /\ rperm' = rperm
    BY <1>2, <2>1 DEF ReadVote
  <2> QED BY <2>4, <2>6, <2>7, <2>8
<1> QED BY <1>1, <1>2

\* A representative is read.
LEMMA ReadVoteStep == ASSUME RoundInv, NEW r \in Reps, ReadVote(r) PROVE RoundInv'
<1> USE DEF RoundInv
<1>1. /\ UNCHANGED <<now, issued, rpc, rmoment, rblocks, rstaple>> /\ UNCHANGED sendVars
      /\ rpc = "gather" /\ r \in rleft /\ rleft' = rleft \ {r} /\ now \in Int
  BY DEF ReadVote, RoundTypes
<1>2. RoundVotes'
  BY <1>1, RoundFrame
<1>3. RoundsOwn' /\ Staples'
  BY <1>1 DEF RoundsOwn, Staples, sendVars
<1>4. ASSUME rperm' = rperm, rtemp' \in Seq(TempVotes) PROVE RoundTypes' /\ RecoverVotes'
  <2>1. RoundTypes'
    BY <1>1, <1>4 DEF RoundTypes, sendVars
  <2>2. DistinctIssuers(rperm)'
    BY <1>4 DEF DistinctIssuers, RecoverVotes
  <2>3. RecoverVotes'
    BY <1>1, <1>4, <2>2 DEF RecoverVotes
  <2> QED BY <2>1, <2>3
<1>5. ASSUME NEW v \in issued, v.issuer = r, v \in PermVotes, rperm' = Append(rperm, v), rtemp' = rtemp
      PROVE  RoundTypes' /\ RecoverVotes'
  <2>1. rperm \in Seq(PermVotes) /\ DistinctIssuers(rperm)
        /\ \A i \in 1..Len(rperm) : rperm[i].issuer \notin rleft /\ rperm[i] \in issued
    BY <1>1 DEF RoundTypes, RecoverVotes
  <2>2. /\ rperm' \in Seq(PermVotes) /\ DistinctIssuers(rperm')
        /\ \A i \in 1..Len(rperm') : (i \in 1..Len(rperm) /\ rperm'[i] = rperm[i]) \/ rperm'[i] = v
    BY <1>1, <1>5, <2>1, AppendFacts
  <2>3. RoundTypes'
    BY <1>1, <1>5, <2>2 DEF RoundTypes, sendVars
  <2>4. \A i \in 1..Len(rperm') : rperm'[i].issuer \notin rleft' /\ rperm'[i] \in issued'
    BY <1>1, <1>5, <2>1, <2>2
  <2>5. RecoverVotes'
    BY <1>1, <2>2, <2>4 DEF RecoverVotes
  <2> QED BY <2>3, <2>5
<1>6. RoundTypes' /\ RecoverVotes'
  <2>1. rtemp \in Seq(TempVotes) /\ \A v \in TempVotes : Append(rtemp, v) \in Seq(TempVotes)
    BY AppendFacts DEF RoundTypes
  <2>2. CASE rperm' = rperm /\ rtemp' = rtemp
    BY <1>4, <2>1, <2>2
  <2>3. CASE \E v \in issued : v.issuer = r /\ v \in PermVotes /\ rperm' = Append(rperm, v) /\ rtemp' = rtemp
    BY <1>5, <2>3
  <2>4. CASE \E v \in issued : v.issuer = r /\ v \in TempVotes /\ rtemp' = Append(rtemp, v) /\ rperm' = rperm
    BY <1>4, <2>1, <2>4
  <2> QED BY <2>2, <2>3, <2>4, ReadVoteFacts
<1> QED BY <1>2, <1>3, <1>6

\* What was gathered names the blocks: the permanent votes among it, which are
\* the round's, or else a temporary one.
LEMMA GatherDoneStep == ASSUME RoundInv, GatherDone PROVE RoundInv'
<1> USE DEF RoundInv
<1>1. /\ UNCHANGED <<now, issued, rmoment, rtemp, rperm, rstaple>> /\ UNCHANGED sendVars
      /\ rpc = "gather" /\ rpc' \in {"none", "more"} /\ rleft' \in SUBSET Reps /\ now \in Int
      /\ rpc' = "more" => /\ rperm # << >> \/ rtemp # << >>
                          /\ rblocks' = IF rperm # << >> THEN rperm[1].blocks ELSE rtemp[1].blocks
  BY DEF GatherDone, RoundTypes
<1>2. RoundVotes'
  BY <1>1, RoundFrame
<1>3. RoundsOwn' /\ Staples' /\ RoundTypes'
  BY <1>1 DEF RoundsOwn, Staples, RoundTypes, sendVars
<1>4. \A i \in 1..Len(rperm) : rperm[i].blocks = blocks
  <2> SUFFICES ASSUME NEW i \in 1..Len(rperm) PROVE rperm[i].blocks = blocks
    OBVIOUS
  <2>1. rperm[i] \in PermVotes
    BY DEF RoundTypes
  <2>2. rperm[i] \in issued /\ IsPerm(rperm[i])
    BY <1>1, <2>1, VoteFacts DEF RecoverVotes
  <2> QED BY <1>1, <2>2 DEF RoundsOwn
<1>5. RecoverVotes'
  <2>1. DistinctIssuers(rperm)'
    BY <1>1 DEF DistinctIssuers, RecoverVotes
  <2>2. Skew[Recoverer] <= rmoment' /\ rmoment' <= now' + Skew[Recoverer]
    BY <1>1 DEF RecoverVotes
  <2>3. CASE rpc' = "none"
    BY <2>1, <2>2, <2>3 DEF RecoverVotes
  <2>4. CASE rpc' = "more"
    <3>1. CASE rperm # << >>
      <4>1. 1 \in 1..Len(rperm)
        BY <3>1 DEF RoundTypes
      <4>2. rblocks' = blocks /\ blocks \in Early
        BY <1>1, <1>4, <2>4, <3>1, <4>1 DEF RoundTypes
      <4> QED BY <1>1, <1>4, <2>1, <2>2, <2>4, <4>2 DEF RecoverVotes
    <3>2. CASE rperm = << >>
      <4>1. rtemp # << >> /\ rblocks' = rtemp[1].blocks
        BY <1>1, <2>4, <3>2
      <4>2. rtemp[1] \in TempVotes
        BY <4>1 DEF RoundTypes
      <4>3. rblocks' \in Early
        BY <4>1, <4>2, VoteFacts
      <4>4. rperm' = << >> /\ Len(<< >>) = 0
        BY <1>1, <3>2
      <4> QED BY <2>1, <2>2, <2>4, <4>3, <4>4 DEF RecoverVotes
    <3> QED BY <3>1, <3>2
  <2> QED BY <1>1, <2>3, <2>4
<1> QED BY <1>2, <1>3, <1>5


\* A representative without a vote is asked for a temporary one.
LEMMA AskTempStep == ASSUME RoundInv, NEW r \in Reps, AskTemp(r) PROVE RoundInv'
<1> USE DEF RoundInv
<1>1. PICK v : v = TempVote(r, rblocks)
  OBVIOUS
<1>2. /\ UNCHANGED <<now, rpc, rmoment, rblocks, rperm, rstaple>> /\ UNCHANGED sendVars
      /\ rpc = "more" /\ rleft' = rleft \ {r} /\ now \in Int
      /\ issued' = issued \/ issued' = issued \cup {v}
      /\ rtemp' = rtemp \/ rtemp' = Append(rtemp, v)
  <2>1. /\ UNCHANGED <<now, rpc, rmoment, rblocks, rperm, rstaple>> /\ UNCHANGED sendVars
        /\ rpc = "more" /\ rleft' = rleft \ {r} /\ now \in Int
    BY DEF AskTemp, RoundTypes
  <2>2. CASE HasVoted(r, FALSE)
    BY <2>1, <2>2 DEF AskTemp
  <2>3. CASE ~HasVoted(r, FALSE)
    <3>1. issued' = issued \cup {v} /\ rtemp' \in {rtemp, Append(rtemp, v)}
      BY <1>1, <2>3 DEF AskTemp
    <3> QED BY <2>1, <3>1
  <2> QED BY <2>2, <2>3
<1>3. v \in TempVotes /\ ~IsPerm(v)
  BY <1>1, <1>2, GivenVotes, VoteFacts DEF RecoverVotes, RoundTypes
<1>4. issued \subseteq issued' /\ issued' \in SUBSET (TempVotes \cup PermVotes)
  BY <1>2, <1>3 DEF RoundTypes
<1>5. RoundVotes'
  BY <1>2, <1>4, RoundFrame
<1>6. RoundTypes'
  <2>1. rtemp \in Seq(TempVotes) /\ Append(rtemp, v) \in Seq(TempVotes)
    BY <1>3, AppendFacts DEF RoundTypes
  <2>2. rtemp' \in Seq(TempVotes)
    BY <1>2, <2>1
  <2> QED BY <1>2, <1>4, <2>2 DEF RoundTypes, sendVars
<1>7. RoundsOwn' /\ Staples'
  BY <1>2, <1>3 DEF RoundsOwn, Staples, sendVars
<1>8. RecoverVotes'
  <2>1. DistinctIssuers(rperm)'
    BY <1>2 DEF DistinctIssuers, RecoverVotes
  <2> QED BY <1>2, <2>1 DEF RecoverVotes
<1> QED BY <1>5, <1>6, <1>7, <1>8

\* A fee block joins the recovered blocks only when no permanent vote names
\* them.
LEMMA MoreDoneStep == ASSUME RoundInv, MoreDone PROVE RoundInv'
<1> USE DEF RoundInv
<1>1. /\ UNCHANGED <<now, issued, rmoment, rtemp, rperm, rstaple>> /\ UNCHANGED sendVars
      /\ rpc = "more" /\ now \in Int
      /\ \/ rpc' = "failed" /\ rperm = << >> /\ rleft' = rleft /\ rblocks' = rblocks
         \/ /\ rpc' = "topup" /\ rleft' = Reps \ IssuersOf(rperm)
            /\ rblocks' = rblocks \/ (rperm = << >> /\ rblocks' = Append(rblocks, "rfee"))
  BY DEF MoreDone, RoundTypes
<1>2. RoundVotes'
  BY <1>1, RoundFrame
<1>3. RoundTypes'
  BY <1>1 DEF RoundTypes, sendVars
<1>4. RoundsOwn' /\ Staples'
  BY <1>1 DEF RoundsOwn, Staples, sendVars
<1>5. RecoverVotes'
  <2>1. DistinctIssuers(rperm)'
    BY <1>1 DEF DistinctIssuers, RecoverVotes
  <2>2. Skew[Recoverer] <= rmoment' /\ rmoment' <= now' + Skew[Recoverer]
    BY <1>1 DEF RecoverVotes
  <2>3. CASE rpc' = "failed"
    BY <1>1, <2>1, <2>2, <2>3 DEF RecoverVotes
  <2>4. CASE rpc' = "topup"
    <3>1. rblocks \in Early /\ \A i \in 1..Len(rperm) : rperm[i].blocks = rblocks
      BY <1>1 DEF RecoverVotes
    <3>2. rblocks' \in Lists
      BY <1>1, <2>4, <3>1, AppendLists DEF Early, Lists
    <3>3. \A i \in 1..Len(rperm') : rperm'[i].blocks = rblocks'
      <4>1. rperm = << >> => Len(rperm) = 0
        OBVIOUS
      <4> QED BY <1>1, <2>4, <3>1, <4>1
    <3>4. \A i \in 1..Len(rperm') : rperm'[i].issuer \notin rleft'
      BY <1>1, <2>4 DEF IssuersOf, Elements
    <3> QED BY <2>1, <2>2, <2>4, <3>2, <3>3, <3>4 DEF RecoverVotes
  <2> QED BY <1>1, <2>3, <2>4
<1> QED BY <1>2, <1>3, <1>4, <1>5

\* A representative without a permanent vote is asked for one.
LEMMA TopUpStep == ASSUME RoundInv, NEW r \in Reps, TopUp(r) PROVE RoundInv'
<1> USE DEF RoundInv
<1>1. PICK v : v = PermVote(r, rblocks)
  OBVIOUS
<1>2. /\ UNCHANGED <<now, rpc, rmoment, rblocks, rtemp, rstaple>> /\ UNCHANGED sendVars
      /\ rpc = "topup" /\ r \in rleft /\ rleft' = rleft \ {r} /\ now \in Int
      /\ issued' = issued \/ issued' = issued \cup {v}
      /\ rperm' = rperm \/ rperm' = Append(rperm, v)
  <2>1. /\ UNCHANGED <<now, rpc, rmoment, rblocks, rtemp, rstaple>> /\ UNCHANGED sendVars
        /\ rpc = "topup" /\ r \in rleft /\ rleft' = rleft \ {r} /\ now \in Int
    BY DEF TopUp, RoundTypes
  <2>2. CASE HasVoted(r, FALSE) /\ ~HasVoted(r, TRUE)
    <3>1. issued' = issued \cup {v} /\ rperm' \in {rperm, Append(rperm, v)}
      BY <1>1, <2>2 DEF TopUp
    <3> QED BY <2>1, <3>1
  <2>3. CASE ~(HasVoted(r, FALSE) /\ ~HasVoted(r, TRUE))
    BY <2>1, <2>3 DEF TopUp
  <2> QED BY <2>2, <2>3
<1>3. v \in PermVotes /\ v.issuer = r /\ v.blocks = rblocks
  BY <1>1, <1>2, GivenVotes DEF RecoverVotes, RoundTypes
<1>4. issued \subseteq issued' /\ issued' \in SUBSET (TempVotes \cup PermVotes)
  BY <1>2, <1>3 DEF RoundTypes
<1>5. RoundVotes'
  BY <1>2, <1>4, RoundFrame
<1>6. /\ rperm \in Seq(PermVotes) /\ DistinctIssuers(rperm)
      /\ \A i \in 1..Len(rperm) : rperm[i].issuer \notin rleft /\ rperm[i].blocks = rblocks
  BY <1>2 DEF RoundTypes, RecoverVotes
<1>7. /\ Append(rperm, v) \in Seq(PermVotes) /\ DistinctIssuers(Append(rperm, v))
      /\ \A i \in 1..Len(Append(rperm, v)) :
           (i \in 1..Len(rperm) /\ Append(rperm, v)[i] = rperm[i]) \/ Append(rperm, v)[i] = v
  BY <1>2, <1>3, <1>6, AppendFacts
<1>8. /\ rperm' \in Seq(PermVotes) /\ DistinctIssuers(rperm')
      /\ \A i \in 1..Len(rperm') : (i \in 1..Len(rperm) /\ rperm'[i] = rperm[i]) \/ rperm'[i] = v
  <2>1. CASE rperm' = rperm
    BY <1>6, <2>1
  <2>2. CASE rperm' = Append(rperm, v)
    BY <1>7, <2>2
  <2> QED BY <1>2, <2>1, <2>2
<1>9. RoundTypes'
  BY <1>2, <1>4, <1>8 DEF RoundTypes, sendVars
<1>10. RoundsOwn' /\ Staples'
  BY <1>2 DEF RoundsOwn, Staples, sendVars
<1>11. RecoverVotes'
  <2>1. \A i \in 1..Len(rperm') : rperm'[i].issuer \notin rleft' /\ rperm'[i].blocks = rblocks'
    BY <1>2, <1>3, <1>6, <1>8
  <2> QED BY <1>2, <1>8, <2>1 DEF RecoverVotes
<1> QED BY <1>5, <1>9, <1>10, <1>11

\* At the moment that staple_moment picks, whatever permanent votes a recovery
\* holds assemble with its blocks.
LEMMA RecoveredAssemble ==
  ASSUME RoundInv, rpc = "topup"
  PROVE  /\ StapleMoment(rperm, rmoment) \in Int
         /\ rperm # << >> => TryNew(rblocks, rperm, StapleMoment(rperm, rmoment)).ok
<1>1. /\ rperm \in Seq(PermVotes) /\ rmoment \in Int /\ rblocks \in Lists /\ DistinctIssuers(rperm)
      /\ \A i \in 1..Len(rperm) : rperm[i].blocks = rblocks
  BY DEF RoundInv, RoundTypes, RecoverVotes
<1>2. CASE rperm = << >>
  <2>1. Elements(rperm) = {}
    BY <1>2 DEF Elements
  <2>2. ~Overlap(Elements(rperm))
    BY <2>1 DEF Overlap
  <2> QED BY <1>1, <1>2, <2>2 DEF StapleMoment
<1>3. CASE rperm # << >>
  <2>1. PICK E : E = Elements(rperm)
    OBVIOUS
  <2>2. /\ E \in SUBSET PermVotes /\ E # {}
        /\ \A i \in 1..Len(rperm) : rperm[i] \in E
    BY <1>1, <1>3, <2>1 DEF Elements
  <2>3. PICK m : m = LatestFrom(E)
    OBVIOUS
  <2>4. PICK v1 \in E : m = v1.from
    BY <2>2, <2>3, LatestFacts
  <2>5. /\ v1.issuer \in Reps /\ m \in Int /\ m <= MaxTime + Skew[v1.issuer]
    BY <2>2, <2>4, VoteFacts
  <2>6. \A v \in E : v.from <= m
    BY <2>2, <2>3, LatestFacts
  <2>7. \A v \in E : v.to - m > Threshold /\ m <= v.to + Slop
    BY <2>2, <2>5, StayPermanent
  <2>8. \A v \in E : v.from \in Int /\ v.to \in Int /\ v.fees = "none"
    BY <2>2, VoteFacts
  <2>9. \A v \in E : m <= v.to /\ v.from - Slop <= m
    BY <2>5, <2>6, <2>7, <2>8, ClockFacts
  <2>10. StapleMoment(rperm, rmoment) = m
    BY <2>1, <2>2, <2>3, <2>9 DEF StapleMoment, Overlap
  <2>11. \A i \in 1..Len(rperm) : /\ rperm[i].blocks = rblocks /\ rperm[i].fees # "quote"
                                  /\ rperm[i].from - Slop <= m /\ m <= rperm[i].to + Slop
    BY <1>1, <2>2, <2>7, <2>8, <2>9
  <2>12. \A i \in 1..Len(rperm) : rperm[i].to - m > Threshold /\ rperm[i].fees = "none"
    BY <2>2, <2>7, <2>8
  <2>13. TryNew(rblocks, rperm, m).ok
    BY <1>1, <1>3, <2>5, <2>11, <2>12, VoteSets, Assembles
  <2> QED BY <2>5, <2>10, <2>13
<1> QED BY <1>2, <1>3

\* The recovery assembles its staple.
LEMMA RecoverDoneStep == ASSUME RoundInv, RecoverDone PROVE RoundInv'
<1> USE DEF RoundInv
<1>1. PICK m : m = StapleMoment(rperm, rmoment)
  OBVIOUS
<1>2. /\ UNCHANGED <<now, issued, rmoment, rleft, rblocks, rtemp, rperm>> /\ UNCHANGED sendVars
      /\ rpc = "topup" /\ now \in Int /\ rstaple' = TryNew(rblocks, rperm, m)
      /\ rpc' = IF rstaple'.ok THEN "done" ELSE "failed"
  BY <1>1 DEF RecoverDone, RoundTypes
<1>3. m \in Int /\ (rperm # << >> => TryNew(rblocks, rperm, m).ok)
  BY <1>1, <1>2, RecoveredAssemble
<1>4. RoundVotes'
  BY <1>2, RoundFrame
<1>5. RoundTypes'
  BY <1>2 DEF RoundTypes, sendVars
<1>6. RoundsOwn'
  BY <1>2 DEF RoundsOwn
<1>7. Staples'
  <2>1. rblocks \in Lists /\ rperm \in Seq(PermVotes)
    BY <1>2 DEF RoundTypes, RecoverVotes
  <2>2. Made(rstaple')
    BY <1>2, <1>3, <2>1 DEF Made
  <2> QED BY <1>2, <2>2 DEF Staples, sendVars
<1>8. RecoverVotes'
  <2>1. DistinctIssuers(rperm)'
    BY <1>2 DEF DistinctIssuers, RecoverVotes
  <2>2. rpc' = "failed" => rperm' = << >>
    BY <1>2, <1>3
  <2>3. rpc' \in {"done", "failed"}
    BY <1>2
  <2>4. Skew[Recoverer] <= rmoment' /\ rmoment' <= now' + Skew[Recoverer]
    BY <1>2 DEF RecoverVotes
  <2> QED BY <2>1, <2>2, <2>3, <2>4 DEF RecoverVotes
<1> QED BY <1>4, <1>5, <1>6, <1>7, <1>8


-----------------------------------------------------------------------------
\* Every step of a round, of a recovery and of time keeps the invariant.
LEMMA RoundStep == ASSUME RoundInv, [Next]_vars PROVE RoundInv'
<1>1. CASE Tick
  BY <1>1, TickStep
<1>2. CASE StartRound \/ TempDone \/ PermDone
  BY <1>2, StartRoundStep, TempDoneStep, PermDoneStep
<1>3. ASSUME NEW r \in Reps, GiveTemp(r) \/ GivePerm(r) PROVE RoundInv'
  BY <1>3, GiveTempStep, GivePermStep
<1>4. CASE StartRecover \/ GatherDone \/ MoreDone \/ RecoverDone
  BY <1>4, StartRecoverStep, GatherDoneStep, MoreDoneStep, RecoverDoneStep
<1>5. ASSUME NEW r \in Reps, ReadVote(r) \/ AskTemp(r) \/ TopUp(r) PROVE RoundInv'
  BY <1>5, ReadVoteStep, AskTempStep, TopUpStep
<1>6. CASE UNCHANGED vars
  <2>1. /\ UNCHANGED <<now, issued>> /\ UNCHANGED sendVars /\ UNCHANGED recoverVars
        /\ now' \in Int /\ now <= now'
    BY <1>6 DEF vars, RoundInv, RoundTypes
  <2>2. RoundVotes' /\ RecoverVotes'
    BY <2>1, RoundFrame, RecoverFrame DEF RoundInv
  <2>3. RoundTypes'
    BY <2>1 DEF RoundInv, RoundTypes, sendVars, recoverVars
  <2>4. RoundsOwn' /\ Staples'
    BY <2>1 DEF RoundInv, RoundsOwn, Staples, sendVars, recoverVars
  <2> QED BY <2>2, <2>3, <2>4 DEF RoundInv
<1> QED BY <1>1, <1>2, <1>3, <1>4, <1>5, <1>6 DEF Next

\* A round and a recovery begin with nothing.
LEMMA RoundInit == Init => RoundInv
<1> SUFFICES ASSUME Init PROVE RoundInv
  OBVIOUS
<1>1. /\ now = 0 /\ issued = {} /\ pc = "start" /\ moment = 0 /\ blocks = <<"block">>
      /\ temp = << >> /\ perm = << >> /\ staple = Rejected
      /\ rpc = "start" /\ rmoment = 0 /\ rleft = {}
      /\ rtemp = << >> /\ rperm = << >> /\ rstaple = Rejected
  BY DEF Init
<1>2. << >> \in Seq(TempVotes) /\ << >> \in Seq(PermVotes) /\ Len(<< >>) = 0 /\ 0 \in 0..MaxTime
  BY ClockFacts
<1>3. RoundTypes
  BY <1>1, <1>2 DEF RoundTypes, Early
<1>4. RoundVotes
  BY <1>1, <1>2 DEF RoundVotes, Timely, DistinctIssuers
<1>5. RecoverVotes
  BY <1>1, <1>2 DEF RecoverVotes, DistinctIssuers
<1>6. RoundsOwn /\ Staples
  BY <1>1 DEF RoundsOwn, Staples, Made
<1> QED BY <1>3, <1>4, <1>5, <1>6 DEF RoundInv

\* The invariant holds of every round and recovery of the same account.
THEOREM ClocksInvariant == Spec => []RoundInv
<1>1. RoundInv /\ [Next]_vars => RoundInv'
  BY RoundStep
<1> QED BY <1>1, RoundInit, PTL DEF Spec

\* RecoveryAssembles: a recovery that holds a permanent vote assembles its
\* staple, however far apart the clocks are that the votes were dated by.
THEOREM RecoveryAssemblesHolds == Spec => []RecoveryAssembles
<1>1. RoundInv => RecoveryAssembles
  BY DEF RoundInv, RecoverVotes, RecoveryAssembles
<1> QED BY <1>1, ClocksInvariant, PTL

\* PeersAccept: the staples of a round and of a recovery are accepted by every
\* peer whose clock is not behind the last voter's by more than the slop.
THEOREM PeersAcceptHolds == Spec => []PeersAccept
<1>1. RoundInv => PeersAccept
  <2> SUFFICES ASSUME RoundInv, NEW w \in {staple, rstaple}, NEW p \in Peers, w.ok,
                      Clock(p) + Slop >= LatestFrom(Elements(w.votes))
               PROVE  Verify(w, Clock(p))
    BY DEF PeersAccept
  <2>1. PICK x : x = w
    OBVIOUS
  <2>2. Made(x)
    BY <2>1 DEF RoundInv, Staples
  <2>3. now \in 0..MaxTime
    BY DEF RoundInv, RoundTypes
  <2> QED BY <2>1, <2>2, <2>3, AcceptedByPeers
<1> QED BY <1>1, ClocksInvariant, PTL

\* The votes of a round assemble when no voter's clock is ahead of its moment
\* by more than the slop.
LEMMA RoundAssembles ==
  ASSUME RoundInv, pc # "start", \A r \in IssuersOf(temp) : Clock(r) <= moment + Slop
  PROVE  /\ temp # << >> /\ pc = "temp" => TryNew(blocks, temp, moment).ok
         /\ perm # << >> => TryNew(blocks, perm, moment).ok
<1>1. /\ temp \in Seq(TempVotes) /\ perm \in Seq(PermVotes) /\ moment \in Int /\ now \in Int
      /\ blocks \in Lists /\ Skew[Sender] \in Int /\ now <= MaxTime
      /\ DistinctIssuers(temp) /\ DistinctIssuers(perm) /\ Timely(temp) /\ Timely(perm)
      /\ Skew[Sender] <= moment /\ moment <= now + Skew[Sender]
  BY ListsFacts, ClockFacts DEF RoundInv, RoundTypes, RoundVotes
<1>2. moment <= MaxTime + Skew[Sender]
  BY <1>1, ClockFacts
<1>3. ASSUME NEW v \in TempVotes \cup PermVotes, v.issuer \in IssuersOf(temp),
             v.from - Skew[v.issuer] <= now
      PROVE  v.from - Slop <= moment
  <2>1. v.from \in Int /\ Skew[v.issuer] \in Int
    BY VoteFacts
  <2>2. now + Skew[v.issuer] <= moment + Slop
    BY <1>3 DEF Clock
  <2> QED BY <1>1, <1>3, <2>1, <2>2, ClockFacts
<1>4. ASSUME temp # << >>, pc = "temp" PROVE TryNew(blocks, temp, moment).ok
  <2>1. ASSUME NEW i \in 1..Len(temp)
        PROVE  /\ temp[i].blocks = blocks /\ temp[i].fees # "quote" /\ temp[i].to - moment <= Threshold
               /\ temp[i].from - Slop <= moment /\ moment <= temp[i].to + Slop
    <3>1. PICK v : v = temp[i]
      OBVIOUS
    <3>2. v \in TempVotes
      BY <1>1, <3>1
    <3>3. moment - Skew[Sender] <= v.from - Skew[v.issuer] /\ v.from - Skew[v.issuer] <= now
      BY <1>1, <3>1 DEF Timely
    <3>4. v.issuer \in IssuersOf(temp)
      BY <3>1 DEF IssuersOf, Elements
    <3>5. v.blocks = blocks
      BY <1>4, <3>1 DEF RoundInv, RoundVotes
    <3>6. v.from - Slop <= moment
      BY <1>3, <3>2, <3>3, <3>4
    <3>7. v.to - moment <= Threshold
      BY <1>1, <3>2, StayTemporary
    <3>8. /\ v.issuer \in Reps /\ v.from \in Int /\ v.to = v.from + TempLife
          /\ Skew[v.issuer] \in Int /\ v.fees # "quote"
      BY <3>2, VoteFacts
    <3>9. Skew[Sender] <= Skew[v.issuer] + TempLife + Slop
      BY <3>8, LifeAssumption
    <3>10. moment <= v.to + Slop
      <4>1. /\ TempLife \in Int /\ Slop \in Int /\ moment \in Int /\ Skew[Sender] \in Int
            /\ v.from \in Int /\ Skew[v.issuer] \in Int
        BY <1>1, <3>8, ClockFacts
      <4>2. moment <= v.from + TempLife + Slop
        BY <3>3, <3>9, <4>1
      <4> QED BY <3>8, <4>2
    <3> QED BY <3>1, <3>5, <3>6, <3>7, <3>8, <3>10
  <2>2. /\ \A i \in 1..Len(temp) : /\ temp[i].blocks = blocks /\ temp[i].fees # "quote"
                                   /\ temp[i].from - Slop <= moment /\ moment <= temp[i].to + Slop
        /\ \A i \in 1..Len(temp) : temp[i].to - moment <= Threshold
    BY <2>1
  <2> QED BY <1>1, <1>4, <2>2, VoteSets, Assembles
<1>5. ASSUME perm # << >> PROVE TryNew(blocks, perm, moment).ok
  <2>1. ASSUME NEW i \in 1..Len(perm)
        PROVE  /\ perm[i].blocks = blocks /\ perm[i].fees = "none" /\ perm[i].to - moment > Threshold
               /\ perm[i].from - Slop <= moment /\ moment <= perm[i].to + Slop
    <3>1. PICK v : v = perm[i]
      OBVIOUS
    <3>2. v \in PermVotes
      BY <1>1, <3>1
    <3>3. v.from - Skew[v.issuer] <= now
      BY <1>1, <3>1 DEF Timely
    <3>4. v.issuer \in IssuersOf(temp) /\ v.blocks = blocks
      BY <3>1 DEF RoundInv, RoundVotes
    <3>5. v.from - Slop <= moment
      BY <1>3, <3>2, <3>3, <3>4
    <3>6. v.to - moment > Threshold /\ moment <= v.to + Slop
      BY <1>1, <1>2, <3>2, StayPermanent
    <3>7. v.fees = "none"
      BY <3>2, VoteFacts
    <3> QED BY <3>1, <3>4, <3>5, <3>6, <3>7
  <2>2. /\ \A i \in 1..Len(perm) : /\ perm[i].blocks = blocks /\ perm[i].fees # "quote"
                                   /\ perm[i].from - Slop <= moment /\ moment <= perm[i].to + Slop
        /\ \A i \in 1..Len(perm) : perm[i].to - moment > Threshold /\ perm[i].fees = "none"
    BY <2>1
  <2> QED BY <1>1, <1>5, <2>2, VoteSets, Assembles
<1> QED BY <1>4, <1>5

\* OnlySlowRoundsFail: a round fails to assemble a staple only when the clock
\* of a voter is ahead of its moment, taken before both rounds, by more than
\* the slop.
THEOREM OnlySlowRoundsFailHolds == Spec => OnlySlowRoundsFail
<1> DEFINE A == (pc' = "failed" /\ pc # "failed") =>
                  \E r \in IssuersOf(temp) : Clock(r) > moment + Slop
<1>1. RoundInv /\ [Next]_vars => [A]_vars
  <2> SUFFICES ASSUME RoundInv, Next, pc' = "failed", pc # "failed",
                      ~ \E r \in IssuersOf(temp) : Clock(r) > moment + Slop
               PROVE  FALSE
    OBVIOUS
  <2>1. \A r \in IssuersOf(temp) : Clock(r) <= moment + Slop
    <3> SUFFICES ASSUME NEW r \in IssuersOf(temp) PROVE Clock(r) <= moment + Slop
      OBVIOUS
    <3>1. PICK v \in TempVotes : v.issuer = r
      BY DEF IssuersOf, Elements, RoundInv, RoundTypes
    <3>2. Skew[r] \in Int
      BY <3>1, VoteFacts
    <3>3. Clock(r) \in Int /\ moment + Slop \in Int
      BY <3>2, ClockFacts DEF Clock, RoundInv, RoundTypes
    <3> QED BY <3>3
  <2>2. CASE TempDone
    <3>1. pc = "temp" /\ temp # << >> /\ ~TryNew(blocks, temp, moment).ok
      BY <2>2 DEF TempDone
    <3> QED BY <2>1, <3>1, RoundAssembles
  <2>3. CASE PermDone
    <3>1. pc = "perm" /\ perm # << >> /\ ~TryNew(blocks, perm, moment).ok
      BY <2>3 DEF PermDone
    <3> QED BY <2>1, <3>1, RoundAssembles
  <2>4. TempDone \/ PermDone
    BY DEF Next, Tick, StartRound, GiveTemp, GivePerm, StartRecover, GatherDone, MoreDone,
           RecoverDone, ReadVote, AskTemp, TopUp, sendVars, vars
  <2> QED BY <2>2, <2>3, <2>4
<1>2. OnlySlowRoundsFail <=> [][A]_vars
  BY DEF OnlySlowRoundsFail
<1> HIDE DEF A
<1> QED BY <1>1, <1>2, ClocksInvariant, PTL DEF Spec
-----------------------------------------------------------------------------
(* Quotes and fees.                                                        *)

Certs == {[issuer |-> r, quote |-> q, fees |-> fees] :
            r \in FeeReps, q \in BOOLEAN, fees \in Schedules \cup {Paying!NoFees}}
QuotersOf(cs) == {cs[i].issuer : i \in DOMAIN cs}

\* meets_quorum, over the sum of the weights.
Enough(w) == SumOf(Weight, FeeReps) # 0 /\ 100 * w >= Quorum * SumOf(Weight, FeeReps)

\* The client knows its representatives by their accounts.
Keyed == \A r \in FeeReps : Key[r] = r

\* What a round of quotes and votes keeps: nobody is counted twice, nor while its
\* answer is awaited, the weight is that of the quotes held, and whoever quoted
\* charges what it quoted.
FeeInv ==
  /\ waiting \subseteq FeeReps /\ quotes \in Seq(Certs) /\ fVotes \in Seq(Certs)
  /\ phase \in {"idle", "quoting", "quoted", "voting", "paid", "failed"}
  /\ \A i, j \in DOMAIN quotes : quotes[i].issuer = quotes[j].issuer => i = j
  /\ accumulated = SumOf(Weight, QuotersOf(quotes))
  /\ phase = "idle" => quotes = << >>
  /\ phase = "quoting" => QuotersOf(quotes) \cap waiting = {}
  /\ phase = "quoted" /\ waiting # {} => ~collectAll /\ Enough(accumulated)
  /\ \A i \in DOMAIN fVotes : Paying!VerifyVote(fVotes[i])
  /\ phase \in {"idle", "quoting", "quoted"} => fVotes = << >>
  /\ Keyed => \A i \in DOMAIN fVotes, j \in DOMAIN quotes :
                fVotes[i].issuer = quotes[j].issuer => fVotes[i].fees = quotes[j].fees
  /\ phase \in {"voting", "paid"} => priority \in Priorities
  /\ phase = "paid" => sends = Paying!FeeOperations(fVotes, priority)

\* The weight of a set is a sum.
LEMMA WeightIsSum == ASSUME NEW S PROVE Paying!WeightOf(S) = SumOf(Weight, S)
BY DEF Paying!WeightOf, Paying!MapThenSumSet, Paying!MapThenFoldSet,
       SumOf, MapThenSumSet, MapThenFoldSet

\* A quorum is met by enough weight.
LEMMA QuorumIsEnough == ASSUME NEW w PROVE Paying!MeetsQuorum(w) <=> Enough(w)
BY WeightIsSum DEF Paying!MeetsQuorum, Enough

\* A further quote adds the weight of its issuer.
LEMMA WeightAdds ==
  ASSUME NEW cs \in Seq(Certs), NEW c \in Certs, c.issuer \notin QuotersOf(cs)
  PROVE  /\ QuotersOf(Append(cs, c)) = QuotersOf(cs) \cup {c.issuer}
         /\ SumOf(Weight, QuotersOf(Append(cs, c))) = SumOf(Weight, QuotersOf(cs)) + Weight[c.issuer]
<1>1. c.issuer \in FeeReps /\ QuotersOf(cs) \in SUBSET FeeReps
  BY DEF Certs, QuotersOf
<1>2. QuotersOf(Append(cs, c)) = QuotersOf(cs) \cup {c.issuer}
  <2>1. /\ DOMAIN Append(cs, c) = DOMAIN cs \cup {Len(cs) + 1}
        /\ \A i \in DOMAIN cs : Append(cs, c)[i] = cs[i]
        /\ Append(cs, c)[Len(cs) + 1] = c
    OBVIOUS
  <2>2. PICK ds : ds = Append(cs, c)
    OBVIOUS
  <2> QED BY <2>1, <2>2 DEF QuotersOf
<1>3. IsFiniteSet(QuotersOf(cs))
  BY <1>1, FeesAssumption, FS_Subset
<1>4. SumOf(Weight, QuotersOf(cs) \cup {c.issuer}) = SumOf(Weight, QuotersOf(cs)) + Weight[c.issuer]
  BY <1>1, <1>3, FeesAssumption, SumAdds
<1> QED BY <1>2, <1>4

\* Further certificates keep the sequences.
LEMMA CertsGrow ==
  ASSUME NEW cs \in Seq(Certs), NEW c \in Certs
  PROVE  /\ Append(cs, c) \in Seq(Certs)
         /\ DOMAIN Append(cs, c) = DOMAIN cs \cup {Len(cs) + 1}
         /\ Len(cs) + 1 \notin DOMAIN cs
         /\ \A i \in DOMAIN cs : Append(cs, c)[i] = cs[i]
         /\ Append(cs, c)[Len(cs) + 1] = c
OBVIOUS

-----------------------------------------------------------------------------
\* ops settle the votes vs[k], k \in 1..n, that are to be paid, in their order.
Settling(vs, ranked, n, ops, settled) ==
  LET owing == {k \in 1..n : Paying!Payable(vs[k])} IN
  /\ settled \in [DOMAIN ops -> owing]
  /\ owing = {settled[i] : i \in DOMAIN ops}
  /\ \A i, j \in DOMAIN ops : i < j => settled[i] < settled[j]
  /\ \A i \in DOMAIN ops : ops[i] = Paying!ToSend(vs[settled[i]], ranked)

\* fee_operations is a fold over the votes c[2], for the preferences c[1].
PayStep(c, ops, v) ==
  IF Paying!Payable(v) THEN Append(ops, Paying!ToSend(v, c[1])) ELSE ops
Paid(c, n, ops) ==
  /\ ops \in Seq({Paying!ToSend(c[2][k], c[1]) : k \in DOMAIN c[2]})
  /\ \E settled : Settling(c[2], c[1], n, ops, settled)
PayFold == INSTANCE FoldFacts WITH Step <- PayStep, Inv <- Paid

\* One more vote is settled as the ones before it.
LEMMA PaidStep ==
  ASSUME NEW vs \in Seq(Certs), NEW ranked, NEW n \in Nat, n + 1 <= Len(vs), NEW ops,
         Paid(<<ranked, vs>>, n, ops)
  PROVE  Paid(<<ranked, vs>>, n + 1, PayStep(<<ranked, vs>>, ops, vs[n + 1]))
<1> DEFINE T == {Paying!ToSend(vs[k], ranked) : k \in DOMAIN vs}
<1>1. PICK settled : ops \in Seq(T) /\ Settling(vs, ranked, n, ops, settled)
  BY DEF Paid
<1>2. n + 1 \in DOMAIN vs
  OBVIOUS
<1> SUFFICES ASSUME NEW after, after = PayStep(<<ranked, vs>>, ops, vs[n + 1])
             PROVE  after \in Seq(T) /\ \E x : Settling(vs, ranked, n + 1, after, x)
  BY DEF Paid
<1> HIDE DEF T
<1>3. CASE ~Paying!Payable(vs[n + 1])
  <2>1. after = ops
    BY <1>3 DEF PayStep
  <2>2. {k \in 1..(n + 1) : Paying!Payable(vs[k])} = {k \in 1..n : Paying!Payable(vs[k])}
    BY <1>3
  <2>3. Settling(vs, ranked, n + 1, ops, settled)
    BY <1>1, <2>2 DEF Settling
  <2> QED BY <1>1, <2>1, <2>3
<1>4. CASE Paying!Payable(vs[n + 1])
  <2> DEFINE send == Paying!ToSend(vs[n + 1], ranked)
             more == Append(ops, send)
             wider == [i \in DOMAIN more |-> IF i \in DOMAIN ops THEN settled[i] ELSE n + 1]
             owing == {k \in 1..n : Paying!Payable(vs[k])}
             owing1 == {k \in 1..(n + 1) : Paying!Payable(vs[k])}
  <2>1. after = more
    BY <1>4 DEF PayStep
  <2>2. send \in T
    BY <1>2 DEF T
  <2>3. /\ more \in Seq(T) /\ DOMAIN more = DOMAIN ops \cup {Len(ops) + 1}
        /\ Len(ops) \in Nat /\ DOMAIN ops = 1..Len(ops)
        /\ \A i \in DOMAIN ops : more[i] = ops[i]
        /\ more[Len(ops) + 1] = send
    BY <1>1, <2>2
  <2>4. owing1 = owing \cup {n + 1}
    BY <1>4
  <2>5. /\ settled \in [DOMAIN ops -> owing]
        /\ owing = {settled[i] : i \in DOMAIN ops}
        /\ \A i, j \in DOMAIN ops : i < j => settled[i] < settled[j]
        /\ \A i \in DOMAIN ops : ops[i] = Paying!ToSend(vs[settled[i]], ranked)
    BY <1>1 DEF Settling
  <2> HIDE DEF more, send, owing, owing1
  <2>6. /\ \A i \in DOMAIN ops : wider[i] = settled[i]
        /\ wider[Len(ops) + 1] = n + 1
    BY <2>3
  <2>7. wider \in [DOMAIN more -> owing1]
    BY <2>3, <2>4, <2>5
  <2> HIDE DEF wider
  <2>8. owing1 = {wider[i] : i \in DOMAIN more}
    <3>1. ASSUME NEW k \in owing1 PROVE \E i \in DOMAIN more : wider[i] = k
      <4>1. CASE k = n + 1
        BY <2>3, <2>6, <4>1
      <4>2. CASE k \in owing
        <5>1. PICK i \in DOMAIN ops : settled[i] = k
          BY <2>5, <4>2
        <5> QED BY <2>3, <2>6, <5>1
      <4> QED BY <2>4, <4>1, <4>2
    <3>2. \A i \in DOMAIN more : wider[i] \in owing1
      BY <2>7
    <3> QED BY <3>1, <3>2
  <2>9. ASSUME NEW i \in DOMAIN more, NEW j \in DOMAIN more, i < j PROVE wider[i] < wider[j]
    <3>1. i \in DOMAIN ops /\ wider[i] = settled[i] /\ settled[i] \in 1..n
      <4>1. i \in DOMAIN ops
        BY <2>3, <2>9
      <4> QED BY <2>5, <2>6, <4>1 DEF owing
    <3>2. CASE j \in DOMAIN ops
      BY <2>5, <2>6, <2>9, <3>1, <3>2
    <3>3. CASE j = Len(ops) + 1
      BY <2>6, <3>1, <3>3
    <3> QED BY <2>3, <3>2, <3>3
  <2>10. ASSUME NEW i \in DOMAIN more PROVE more[i] = Paying!ToSend(vs[wider[i]], ranked)
    <3>1. CASE i \in DOMAIN ops
      BY <2>3, <2>5, <2>6, <3>1
    <3>2. CASE i = Len(ops) + 1
      BY <2>3, <2>6, <3>2 DEF send
    <3> QED BY <2>3, <3>1, <3>2
  <2>11. Settling(vs, ranked, n + 1, more, wider)
    BY <2>7, <2>8, <2>9, <2>10 DEF Settling, owing1
  <2> QED BY <2>1, <2>3, <2>11
<1> QED BY <1>3, <1>4

\* The operations of the fee block settle the votes.
LEMMA OperationsSettle ==
  ASSUME NEW vs \in Seq(Certs), NEW ranked
  PROVE  Paid(<<ranked, vs>>, Len(vs), Paying!FeeOperations(vs, ranked))
<1> DEFINE c == <<ranked, vs>>
<1>1. Paying!FeeOperations(vs, ranked) = PayFold!Fold(c, << >>, vs)
  BY DEF Paying!FeeOperations, Paying!FoldLeft, Paying!MapThenFoldSet, Paying!Max,
         PayFold!Fold, PayFold!FoldLeft, PayFold!MapThenFoldSet, PayFold!Max, PayStep
<1>2. Paid(c, 0, << >>)
  <2>1. Settling(vs, ranked, 0, << >>, << >>)
    BY DEF Settling
  <2> DEFINE T == {Paying!ToSend(vs[k], ranked) : k \in DOMAIN vs}
  <2>2. << >> \in Seq(T)
    <3> HIDE DEF T
    <3> QED OBVIOUS
  <2> QED BY <2>1, <2>2 DEF Paid
<1>3. ASSUME NEW i \in 1..Len(vs), NEW ops, Paid(c, i - 1, ops)
      PROVE  Paid(c, i, PayStep(c, ops, vs[i]))
  <2>1. i - 1 \in Nat /\ (i - 1) + 1 = i /\ i <= Len(vs)
    OBVIOUS
  <2> HIDE DEF c
  <2> QED BY <1>3, <2>1, PaidStep DEF c
<1> HIDE DEF c
<1>4. Paid(c, Len(vs), PayFold!Fold(c, << >>, vs))
  BY <1>2, <1>3, PayFold!FoldKeeps
<1> QED BY <1>1, <1>4 DEF c

\* Where no vote is to be paid there is no operation.
LEMMA NothingToPay ==
  ASSUME NEW vs \in Seq(Certs), NEW ranked, \A i \in DOMAIN vs : ~Paying!Payable(vs[i])
  PROVE  Paying!FeeOperations(vs, ranked) = << >>
<1> DEFINE ops == Paying!FeeOperations(vs, ranked)
<1>1. PICK T, settled : ops \in Seq(T) /\ Settling(vs, ranked, Len(vs), ops, settled)
  BY OperationsSettle DEF Paid
<1> HIDE DEF ops
<1>2. {k \in 1..Len(vs) : Paying!Payable(vs[k])} = {}
  OBVIOUS
<1>3. DOMAIN ops = {}
  BY <1>1, <1>2 DEF Settling
<1>4. Len(ops) = 0
  BY <1>1, <1>3
<1>5. ops = << >>
  BY <1>1, <1>4
<1> QED BY <1>5 DEF ops

\* An idle client has no quotes and no votes.
LEMMA FeeInit == Paying!Init => FeeInv
<1> SUFFICES ASSUME Paying!Init PROVE FeeInv
  OBVIOUS
<1>1. QuotersOf(<< >>) = {}
  BY DEF QuotersOf
<1>2. SumOf(Weight, {}) = 0
  BY SumEmpty
<1>3. /\ phase = "idle" /\ waiting = {} /\ quotes = << >> /\ fVotes = << >> /\ accumulated = 0
  BY DEF Paying!Init
<1>4. << >> \in Seq(Certs) /\ DOMAIN << >> = {}
  OBVIOUS
<1> HIDE DEF Certs
<1> QED BY <1>1, <1>2, <1>3, <1>4 DEF FeeInv

\* Every answer, and the payment, keeps the invariant of the round.
LEMMA FeeStep == ASSUME FeeInv, [Paying!Next]_(Paying!vars) PROVE FeeInv'
<1> DEFINE made(r, fees) == Paying!BuildQuote(r, fees) \cup {Paying!BuildSigned(r, FALSE, fees)}
<1>0. ASSUME NEW r \in FeeReps, NEW fees \in Schedules \cup {Paying!NoFees}, NEW c \in made(r, fees)
      PROVE  c \in Certs /\ c.issuer = r /\ c.fees = fees
  <2>1. \E q \in BOOLEAN : c = [issuer |-> r, quote |-> q, fees |-> fees]
    BY <1>0 DEF Paying!BuildQuote, Paying!BuildSigned
  <2> QED BY <2>1 DEF Certs
<1> HIDE DEF made
<1>1. CASE Paying!RequestQuotes
  <2>1. /\ phase = "idle" /\ phase' = "quoting" /\ waiting' = FeeReps
        /\ UNCHANGED <<quotes, accumulated, fVotes, priority, sends>>
    BY <1>1 DEF Paying!RequestQuotes
  <2>2. QuotersOf(quotes') = {}
    BY <2>1 DEF QuotersOf, FeeInv
  <2> QED BY <2>1, <2>2 DEF FeeInv, QuotersOf, Enough, Paying!MeetsQuorum
<1>2. ASSUME NEW r \in FeeReps, Paying!QuoteArrives(r) PROVE FeeInv'
  <2>1. /\ phase = "quoting" /\ r \in waiting /\ waiting' = waiting \ {r}
        /\ UNCHANGED <<collectAll, fVotes, priority, sends>>
        /\ phase' = IF \/ waiting' = {}
                       \/ quotes' # quotes /\ ~collectAll /\ Paying!MeetsQuorum(accumulated')
                    THEN "quoted" ELSE phase
    BY <1>2 DEF Paying!QuoteArrives
  <2>2. PICK fees \in Schedules \cup {Paying!NoFees} : \E c \in made(r, fees) :
          IF Paying!VerifyQuote(c)
            THEN quotes' = Append(quotes, c) /\ accumulated' = accumulated + Weight[r]
            ELSE UNCHANGED <<quotes, accumulated>>
    BY <1>2 DEF Paying!QuoteArrives, made
  <2>3. PICK c \in made(r, fees) :
          IF Paying!VerifyQuote(c)
            THEN quotes' = Append(quotes, c) /\ accumulated' = accumulated + Weight[r]
            ELSE UNCHANGED <<quotes, accumulated>>
    BY <2>2
  <2>4. c \in Certs /\ c.issuer = r
    BY <1>0
  <2>5. phase' \in {"quoting", "quoted"} /\ fVotes' = << >>
    BY <2>1 DEF FeeInv
  <2>6. CASE UNCHANGED <<quotes, accumulated>>
    BY <2>1, <2>5, <2>6 DEF FeeInv, QuotersOf, Enough
  <2>7. CASE quotes' = Append(quotes, c) /\ accumulated' = accumulated + Weight[r]
    <3>1. /\ quotes \in Seq(Certs) /\ QuotersOf(quotes) \cap waiting = {}
          /\ accumulated = SumOf(Weight, QuotersOf(quotes))
      BY <2>1 DEF FeeInv
    <3>2. /\ QuotersOf(quotes') = QuotersOf(quotes) \cup {r}
          /\ accumulated' = SumOf(Weight, QuotersOf(quotes'))
      BY <2>1, <2>4, <2>7, <3>1, WeightAdds
    <3>3. /\ quotes' \in Seq(Certs)
          /\ DOMAIN quotes' = DOMAIN quotes \cup {Len(quotes) + 1}
          /\ \A i \in DOMAIN quotes : quotes'[i] = quotes[i]
          /\ quotes'[Len(quotes) + 1] = c
      BY <2>4, <2>7, <3>1, CertsGrow
    <3>4. \A i, j \in DOMAIN quotes' : quotes'[i].issuer = quotes'[j].issuer => i = j
      <4>1. \A i \in DOMAIN quotes : quotes[i].issuer # r
        BY <2>1, <3>1 DEF QuotersOf
      <4> QED BY <2>4, <3>3, <4>1 DEF FeeInv
    <3>5. phase' = "quoting" => QuotersOf(quotes') \cap waiting' = {}
      BY <2>1, <3>1, <3>2
    <3>6. phase' = "quoted" /\ waiting' # {} => ~collectAll' /\ Enough(accumulated')
      BY <2>1, QuorumIsEnough
    <3>7. waiting' \subseteq FeeReps /\ fVotes' \in Seq(Certs)
      BY <2>1 DEF FeeInv
    <3>8. (accumulated = SumOf(Weight, QuotersOf(quotes)))'
      BY <3>2 DEF QuotersOf
    <3>9. (phase = "quoted" /\ waiting # {} => ~collectAll /\ Enough(accumulated))'
      BY <3>6 DEF Enough
    <3>10. (phase = "quoting" => QuotersOf(quotes) \cap waiting = {})'
      BY <3>5 DEF QuotersOf
    <3> QED BY <2>1, <2>5, <3>3, <3>4, <3>7, <3>8, <3>9, <3>10 DEF FeeInv
  <2> QED BY <2>3, <2>6, <2>7
<1>3. ASSUME NEW r \in FeeReps, Paying!QuoteFails(r) PROVE FeeInv'
  <2>1. /\ phase = "quoting" /\ waiting' = waiting \ {r}
        /\ phase' = IF waiting' = {} THEN "quoted" ELSE phase
        /\ UNCHANGED <<collectAll, quotes, accumulated, fVotes, priority, sends>>
    BY <1>3 DEF Paying!QuoteFails
  <2> QED BY <2>1 DEF FeeInv, QuotersOf, Enough
<1>4. CASE Paying!RequestVotes
  <2>1. /\ phase' = "voting" /\ waiting' = FeeReps /\ phase \in {"quoted", "idle"}
        /\ priority' \in Priorities
        /\ UNCHANGED <<collectAll, quotes, accumulated, fVotes, sends>>
    BY <1>4 DEF Paying!RequestVotes
  <2> QED BY <2>1 DEF FeeInv, QuotersOf, Enough
<1>5. CASE Paying!NoQuote
  <2>1. /\ phase = "quoted" /\ phase' = "failed"
        /\ UNCHANGED <<collectAll, waiting, quotes, accumulated, fVotes, priority, sends>>
    BY <1>5 DEF Paying!NoQuote
  <2> QED BY <2>1 DEF FeeInv, QuotersOf, Enough
<1>6. ASSUME NEW r \in FeeReps, Paying!VoteArrives(r) PROVE FeeInv'
  <2>1. /\ phase = "voting" /\ r \in waiting /\ waiting' = waiting \ {r}
        /\ UNCHANGED <<phase, collectAll, quotes, accumulated, priority, sends>>
    BY <1>6 DEF Paying!VoteArrives
  <2>2. PICK fees \in Paying!Charged(r, Paying!Attached(r)) : \E c \in made(r, fees) :
          fVotes' = IF Paying!VerifyVote(c) THEN Append(fVotes, c) ELSE fVotes
    BY <1>6 DEF Paying!VoteArrives, made
  <2>3. PICK c \in made(r, fees) :
          fVotes' = IF Paying!VerifyVote(c) THEN Append(fVotes, c) ELSE fVotes
    BY <2>2
  <2>4. /\ fees \in Schedules \cup {Paying!NoFees}
        /\ Keyed => \A j \in DOMAIN quotes : quotes[j].issuer = r => fees = quotes[j].fees
    <3> DEFINE own == {x \in Paying!Attached(r) : x.issuer = r}
    <3>1. \A x \in Paying!Attached(r) : \E k \in DOMAIN quotes : x = quotes[k]
      <4>1. CASE Paying!QuotesOf(r) = {}
        BY <4>1 DEF Paying!Attached
      <4>2. CASE Paying!QuotesOf(r) # {}
        <5>1. PICK j \in DOMAIN quotes : Paying!QuotesOf(r) = {j}
          BY <4>2 DEF Paying!QuotesOf, FeeInv
        <5>2. j \in Nat
          BY <5>1 DEF FeeInv
        <5>3. Paying!Max({j}) = j
          BY <5>2 DEF Paying!Max
        <5> QED BY <4>2, <5>1, <5>3 DEF Paying!Attached
      <4> QED BY <4>1, <4>2
    <3>2. \A k \in DOMAIN quotes : quotes[k] \in Certs
      BY DEF FeeInv
    <3>3. fees \in Schedules \cup {Paying!NoFees}
      <4>1. CASE own = {}
        BY <2>2, <4>1 DEF Paying!Charged
      <4>2. CASE own # {}
        <5>1. PICK x \in own : fees = x.fees
          BY <2>2, <4>2 DEF Paying!Charged
        <5>2. x \in Certs
          BY <3>1, <3>2
        <5> QED BY <5>1, <5>2 DEF Certs
      <4> QED BY <4>1, <4>2
    <3>4. ASSUME Keyed, NEW j \in DOMAIN quotes, quotes[j].issuer = r
          PROVE  fees = quotes[j].fees
      <4>1. Paying!QuotesOf(r) = {j}
        BY <3>4 DEF Paying!QuotesOf, FeeInv, Keyed
      <4>2. j \in Nat
        BY DEF FeeInv
      <4>3. Paying!Max({j}) = j
        BY <4>2 DEF Paying!Max
      <4>4. Paying!Attached(r) = {quotes[j]}
        BY <4>1, <4>3 DEF Paying!Attached
      <4>5. own = {quotes[j]}
        BY <3>4, <4>4
      <4> QED BY <2>2, <4>5 DEF Paying!Charged
    <3> QED BY <3>3, <3>4
  <2>5. c \in Certs /\ c.issuer = r /\ c.fees = fees
    BY <1>0, <2>3, <2>4
  <2>6. CASE fVotes' = fVotes
    BY <2>1, <2>6 DEF FeeInv, QuotersOf, Enough
  <2>7. CASE Paying!VerifyVote(c) /\ fVotes' = Append(fVotes, c)
    <3>1. /\ fVotes' \in Seq(Certs)
          /\ DOMAIN fVotes' = DOMAIN fVotes \cup {Len(fVotes) + 1}
          /\ \A i \in DOMAIN fVotes : fVotes'[i] = fVotes[i]
          /\ fVotes'[Len(fVotes) + 1] = c
      BY <2>5, <2>7, CertsGrow DEF FeeInv
    <3>2. \A i \in DOMAIN fVotes' : Paying!VerifyVote(fVotes'[i])
      BY <2>7, <3>1 DEF FeeInv
    <3>3. Keyed => \A i \in DOMAIN fVotes', j \in DOMAIN quotes :
                     fVotes'[i].issuer = quotes[j].issuer => fVotes'[i].fees = quotes[j].fees
      BY <2>4, <2>5, <3>1 DEF FeeInv
    <3> QED BY <2>1, <3>1, <3>2, <3>3 DEF FeeInv, QuotersOf, Enough,
                                         Paying!VerifyVote, Paying!AssertQuoteFlag
  <2> QED BY <2>3, <2>6, <2>7
<1>7. ASSUME NEW r \in FeeReps, Paying!VoteFails(r) PROVE FeeInv'
  <2>1. /\ phase = "voting" /\ waiting' = waiting \ {r}
        /\ UNCHANGED <<phase, collectAll, quotes, accumulated, fVotes, priority, sends>>
    BY <1>7 DEF Paying!VoteFails
  <2> QED BY <2>1 DEF FeeInv, QuotersOf, Enough
<1>8. CASE Paying!Pay
  <2>1. /\ phase = "voting" /\ phase' \in {"failed", "paid"}
        /\ UNCHANGED <<collectAll, waiting, quotes, accumulated, fVotes, priority>>
        /\ sends' = IF Paying!FeesRequired(fVotes) THEN Paying!FeeOperations(fVotes, priority) ELSE << >>
    BY <1>8 DEF Paying!Pay
  <2>2. sends' = Paying!FeeOperations(fVotes, priority)
    <3>1. CASE ~Paying!FeesRequired(fVotes)
      <4>1. \A i \in DOMAIN fVotes : ~Paying!Payable(fVotes[i])
        BY <3>1 DEF Paying!FeesRequired
      <4> QED BY <2>1, <3>1, <4>1, NothingToPay DEF FeeInv
    <3> QED BY <2>1, <3>1
  <2>3. (sends = Paying!FeeOperations(fVotes, priority))'
    BY <2>1, <2>2
  <2> QED BY <2>1, <2>3 DEF FeeInv, QuotersOf, Enough
<1>9. CASE UNCHANGED Paying!vars
  BY <1>9 DEF FeeInv, QuotersOf, Enough, Paying!vars
<1> QED BY <1>1, <1>2, <1>3, <1>4, <1>5, <1>6, <1>7, <1>8, <1>9 DEF Paying!Next

-----------------------------------------------------------------------------
\* The first of some positions.
LEMMA FirstIs ==
  ASSUME NEW T \in SUBSET Nat, T # {}
  PROVE  Paying!Min(T) \in T /\ \A x \in T : Paying!Min(T) <= x
<1>1. \E x \in T : \A y \in T : x <= y
  BY LeastNat
<1> QED BY <1>1 DEF Paying!Min

\* first_for: the first entry in a token, if there is one.
LEMMA FirstForFinds ==
  ASSUME NEW F, NEW fees \in Seq(F), NEW token
  PROVE  LET at == Paying!FirstFor(fees, token)
         IN  \/ at = 0 /\ \A j \in DOMAIN fees : Paying!TokenOr(fees[j]) # token
             \/ at \in DOMAIN fees /\ Paying!TokenOr(fees[at]) = token /\ at # 0
<1> DEFINE I == {i \in 1..Len(fees) : Paying!TokenOr(fees[i]) = token}
<1>1. Paying!FirstFor(fees, token) = IF I # {} THEN Paying!Min(I) ELSE 0
  BY DEF Paying!FirstFor, Paying!SelectInSeq
<1>2. I \in SUBSET Nat /\ DOMAIN fees = 1..Len(fees) /\ 0 \notin DOMAIN fees
  OBVIOUS
<1>3. CASE I = {}
  BY <1>1, <1>2, <1>3
<1>4. CASE I # {}
  <2>1. Paying!Min(I) \in I
    BY <1>2, <1>4, FirstIs
  <2> QED BY <1>1, <1>2, <1>4, <2>1
<1> QED BY <1>3, <1>4

\* The rank of a token: its first place in the order of preference, then the
\* base token, then any other.
LEMMA RankIs ==
  ASSUME NEW P, NEW ranked \in Seq(P), NEW token
  PROVE  LET rank == Paying!Rank(token, ranked)
         IN  \/ /\ rank \in DOMAIN ranked /\ ranked[rank] = token
                /\ \A p \in DOMAIN ranked : ranked[p] = token => rank <= p
             \/ /\ \A p \in DOMAIN ranked : ranked[p] # token
                /\ rank = IF token = Base THEN Len(ranked) + 1 ELSE Len(ranked) + 2
<1> DEFINE I == {p \in DOMAIN ranked : ranked[p] = token}
<1>1. I \in SUBSET Nat
  OBVIOUS
<1>2. CASE I = {}
  <2>1. token \notin Paying!ToSet(ranked)
    BY <1>2 DEF Paying!ToSet
  <2> QED BY <1>2, <2>1 DEF Paying!Rank
<1>3. CASE I # {}
  <2>1. token \in Paying!ToSet(ranked)
    BY <1>3 DEF Paying!ToSet
  <2>2. Paying!Min(I) \in I /\ \A p \in I : Paying!Min(I) <= p
    BY <1>1, <1>3, FirstIs
  <2>3. Paying!Rank(token, ranked) = Paying!Min(I)
    BY <2>1 DEF Paying!Rank
  <2> HIDE DEF I
  <2>4. \A p \in DOMAIN ranked : ranked[p] = token => p \in I
    BY DEF I
  <2>5. Paying!Min(I) \in DOMAIN ranked /\ ranked[Paying!Min(I)] = token
    BY <2>2 DEF I
  <2> QED BY <2>2, <2>3, <2>4, <2>5
<1> QED BY <1>2, <1>3

\* select takes an entry in the token that ranks first.
LEMMA SelectPrefers ==
  ASSUME NEW F, NEW fees \in Seq(F), fees # << >>, NEW P, NEW ranked \in Seq(P)
  PROVE  \E i \in DOMAIN fees :
           /\ Paying!Select(fees, ranked) = fees[i]
           /\ \A j \in DOMAIN fees : Paying!Rank(Paying!TokenOr(fees[i]), ranked)
                                       <= Paying!Rank(Paying!TokenOr(fees[j]), ranked)
<1> DEFINE I == {p \in 1..Len(ranked) : Paying!FirstFor(fees, ranked[p]) # 0}
           chosen == IF I # {} THEN Paying!FirstFor(fees, ranked[Paying!Min(I)])
                     ELSE IF Paying!FirstFor(fees, Base) # 0 THEN Paying!FirstFor(fees, Base) ELSE 1
           rank(j) == Paying!Rank(Paying!TokenOr(fees[j]), ranked)
<1>1. /\ I \in SUBSET Nat /\ 0 \notin I /\ Len(ranked) \in Nat
      /\ DOMAIN ranked = 1..Len(ranked) /\ 1 \in DOMAIN fees
  OBVIOUS
<1>2. I # {} => Paying!Min(I) \in I /\ \A p \in I : Paying!Min(I) <= p
  BY <1>1, FirstIs
<1>3. Paying!Select(fees, ranked) = fees[chosen]
  <2> DEFINE preferred == IF I # {} THEN Paying!Min(I) ELSE 0
  <2>1. preferred # 0 <=> I # {}
    BY <1>1, <1>2
  <2> QED BY <2>1 DEF Paying!Select, Paying!SelectInSeq
<1>4. ASSUME NEW j \in DOMAIN fees, NEW p \in DOMAIN ranked, ranked[p] = Paying!TokenOr(fees[j])
      PROVE  p \in I
  <2>1. Paying!FirstFor(fees, ranked[p]) # 0
    BY <1>4, FirstForFinds
  <2> QED BY <1>1, <2>1
<1>5. CASE I # {}
  <2>1. PICK w \in I : w = Paying!Min(I) /\ \A p \in I : w <= p
    BY <1>2, <1>5
  <2>2. PICK i : i = Paying!FirstFor(fees, ranked[w])
    OBVIOUS
  <2>3. i # 0
    BY <2>1, <2>2
  <2>4. i \in DOMAIN fees /\ Paying!TokenOr(fees[i]) = ranked[w] /\ chosen = i
    BY <1>5, <2>1, <2>2, <2>3, FirstForFinds
  <2>5. w \in DOMAIN ranked /\ w \in Nat
    BY <1>1
  <2> HIDE DEF I
  <2>6. rank(i) = w
    <3>1. rank(i) \in DOMAIN ranked /\ ranked[rank(i)] = Paying!TokenOr(fees[i]) /\ rank(i) <= w
      BY <2>4, <2>5, RankIs
    <3>2. rank(i) \in I
      BY <1>4, <2>4, <3>1
    <3>3. w <= rank(i)
      BY <2>1, <3>2
    <3> QED BY <1>1, <2>5, <3>1, <3>3
  <2>7. ASSUME NEW j \in DOMAIN fees PROVE w <= rank(j)
    <3>1. CASE rank(j) \in DOMAIN ranked /\ ranked[rank(j)] = Paying!TokenOr(fees[j])
      BY <1>4, <2>1, <3>1
    <3>2. CASE rank(j) \in {Len(ranked) + 1, Len(ranked) + 2}
      BY <1>1, <2>5, <3>2
    <3>3. \/ rank(j) \in DOMAIN ranked /\ ranked[rank(j)] = Paying!TokenOr(fees[j])
          \/ rank(j) \in {Len(ranked) + 1, Len(ranked) + 2}
      BY RankIs
    <3> QED BY <3>1, <3>2, <3>3
  <2> HIDE DEF chosen
  <2>8. Paying!Select(fees, ranked) = fees[i]
    BY <1>3, <2>4
  <2> QED BY <2>4, <2>6, <2>7, <2>8
<1>6. CASE I = {}
  <2>1. \A j \in DOMAIN fees, p \in DOMAIN ranked : ranked[p] # Paying!TokenOr(fees[j])
    BY <1>4, <1>6
  <2>2. \A j \in DOMAIN fees :
          rank(j) = IF Paying!TokenOr(fees[j]) = Base THEN Len(ranked) + 1 ELSE Len(ranked) + 2
    BY <2>1, RankIs
  <2>3. CASE Paying!FirstFor(fees, Base) # 0
    <3>1. PICK i \in DOMAIN fees : i = Paying!FirstFor(fees, Base) /\ Paying!TokenOr(fees[i]) = Base
      BY <2>3, FirstForFinds
    <3>2. Paying!Select(fees, ranked) = fees[i]
      BY <1>3, <1>6, <2>3, <3>1
    <3>3. \A j \in DOMAIN fees : rank(i) <= rank(j)
      BY <1>1, <2>2, <3>1
    <3> QED BY <3>2, <3>3
  <2>4. CASE Paying!FirstFor(fees, Base) = 0
    <3>1. \A j \in DOMAIN fees : Paying!TokenOr(fees[j]) # Base
      BY <2>4, FirstForFinds
    <3>2. \A j \in DOMAIN fees : rank(1) <= rank(j)
      BY <1>1, <2>2, <3>1
    <3>3. Paying!Select(fees, ranked) = fees[1]
      BY <1>3, <1>6, <2>4
    <3> QED BY <1>1, <3>2, <3>3
  <2> QED BY <2>3, <2>4
<1> QED BY <1>5, <1>6

\* to_send pays an entry of the vote as the payer prefers.
LEMMA SendSettles ==
  ASSUME NEW c \in Certs, c.fees # << >>, NEW ranked \in Priorities
  PROVE  Paying!Settles(Paying!ToSend(c, ranked), c, ranked)
<1>1. c.fees \in Seq({c.fees[i] : i \in DOMAIN c.fees})
  BY FeesAssumption DEF Certs, Paying!NoFees
<1>2. ranked \in Seq({ranked[i] : i \in DOMAIN ranked})
  BY FeesAssumption
<1>3. PICK i \in DOMAIN c.fees :
        /\ Paying!Select(c.fees, ranked) = c.fees[i]
        /\ \A j \in DOMAIN c.fees : Paying!Rank(Paying!TokenOr(c.fees[i]), ranked)
                                      <= Paying!Rank(Paying!TokenOr(c.fees[j]), ranked)
  BY <1>1, <1>2, SelectPrefers
<1> QED BY <1>3 DEF Paying!ToSend, Paying!Settles

\* A fee block made by fee_operations settles the votes of the round.
LEMMA FeeInvSettles == FeeInv => Paying!FeesSettled
<1> SUFFICES ASSUME FeeInv, phase = "paid" PROVE Paying!FeesSettled
  BY DEF Paying!FeesSettled
<1> DEFINE charging == {v \in DOMAIN fVotes :
             /\ fVotes[v].fees # << >>
             /\ \A i \in DOMAIN fVotes[v].fees : fVotes[v].fees[i].amount > 0}
           owing == {k \in 1..Len(fVotes) : Paying!Payable(fVotes[k])}
<1>1. fVotes \in Seq(Certs) /\ DOMAIN fVotes = 1..Len(fVotes)
  BY DEF FeeInv
<1>2. charging = owing
  <2>1. ASSUME NEW v \in DOMAIN fVotes
        PROVE  v \in charging <=> Paying!Payable(fVotes[v])
    <3>1. \A i \in DOMAIN fVotes[v].fees : fVotes[v].fees[i].amount \in Nat
      <4>1. fVotes[v].fees \in Schedules \cup {<< >>}
        BY <1>1 DEF Certs, Paying!NoFees
      <4>2. CASE fVotes[v].fees = << >>
        <5>1. DOMAIN << >> = {}
          OBVIOUS
        <5> QED BY <4>2, <5>1
      <4> QED BY <4>1, <4>2, FeesAssumption
    <3> QED BY <3>1 DEF Paying!Payable, Paying!Required, Paying!NoFees
  <2> QED BY <1>1, <2>1
<1> HIDE DEF charging
<1>3. priority \in Priorities /\ sends = Paying!FeeOperations(fVotes, priority)
  BY DEF FeeInv
<1>4. PICK settled : Settling(fVotes, priority, Len(fVotes), sends, settled)
  BY <1>1, <1>3, OperationsSettle DEF Paid
<1>5. /\ settled \in [DOMAIN sends -> charging]
      /\ charging = {settled[i] : i \in DOMAIN sends}
      /\ \A i, j \in DOMAIN sends : i < j => settled[i] < settled[j]
      /\ \A i \in DOMAIN sends : sends[i] = Paying!ToSend(fVotes[settled[i]], priority)
  BY <1>2, <1>4 DEF Settling
<1>6. ASSUME NEW i \in DOMAIN sends
      PROVE  Paying!Settles(sends[i], fVotes[settled[i]], priority)
  <2>1. settled[i] \in DOMAIN fVotes /\ fVotes[settled[i]].fees # << >>
    BY <1>5 DEF charging
  <2> QED BY <1>1, <1>3, <1>5, <2>1, SendSettles
<1> QED BY <1>5, <1>6 DEF Paying!FeesSettled, charging, Paying!NoFees

\* Votes are charged as quoted, and are no quotes.
LEMMA FeeInvHonoured == ASSUME Keyed PROVE FeeInv => Paying!QuotesHonoured
BY DEF FeeInv, Paying!QuotesHonoured, Paying!VerifyVote, Paying!AssertQuoteFlag, Paying!IsQuote

\* A round that stopped early holds quotes of enough weight.
LEMMA FeeInvSuffices == FeeInv => Paying!QuotesSuffice
<1> SUFFICES ASSUME FeeInv, phase = "quoted", waiting # {}
             PROVE  ~collectAll /\ Paying!MeetsQuorum(Paying!WeightOf(QuotersOf(quotes)))
  BY DEF Paying!QuotesSuffice, QuotersOf
<1> QED BY WeightIsSum, QuorumIsEnough DEF FeeInv

\* Only the steps of quotes and fees touch their state.
LEMMA OnlyPaying == ASSUME [VotingNext]_votingVars PROVE [Paying!Next]_(Paying!vars)
BY DEF VotingNext, RoundSteps, BuilderSteps, FeeSteps, ReadSteps, votingVars, feeVars, Paying!vars

\* The invariant of quotes and fees holds throughout.
LEMMA FeeInvHolds == VotingSpec => []FeeInv
<1>1. VotingInit => FeeInv
  BY FeeInit DEF VotingInit
<1>2. FeeInv /\ [VotingNext]_votingVars => FeeInv'
  BY FeeStep, OnlyPaying
<1> QED BY <1>1, <1>2, PTL DEF VotingSpec

\* Whatever the representatives quote and charge, and in whichever order they
\* answer, the fee block pays each vote that charges once, from an entry of its
\* own schedule in the token the payer ranks first (fee_operations, select).
THEOREM FeesSettledHolds == VotingSpec => []FeesSettled
<1>1. FeeInv => FeesSettled
  BY FeeInvSettles DEF FeesSettled
<1> QED BY <1>1, FeeInvHolds, PTL

\* Where the book names representatives by their accounts, whoever quoted charges
\* what it quoted, whatever the order of the answers: the request to it carries
\* its own quote (quotes_by_issuer, request_votes).
THEOREM QuotesHonouredHolds == ASSUME Keyed PROVE VotingSpec => []QuotesHonoured
<1>1. FeeInv => QuotesHonoured
  BY FeeInvHonoured DEF QuotesHonoured
<1> QED BY <1>1, FeeInvHolds, PTL

\* request_quote stops early only with quotes of the quorum's weight, for any
\* weights and any refusals (request_quotes, meets_quorum).
THEOREM QuotesSufficeHolds == VotingSpec => []QuotesSuffice
<1>1. FeeInv => QuotesSuffice
  BY FeeInvSuffices DEF QuotesSuffice
<1> QED BY <1>1, FeeInvHolds, PTL

-----------------------------------------------------------------------------
(* Reads of several answers.                                               *)

ReadTypes ==
  /\ height \in [Reps -> Nat] /\ known \in [Reps -> Nat]
  /\ readPc \in {"idle", "paging", "asking", "done", "absent", "failed"}
  /\ limit \in Nat /\ cursor \in Nat /\ wanted \in Nat
  /\ items \in Seq(Nat)
  /\ picks \in SUBSET Reps
  /\ lastError \in BOOLEAN

\* The entries of s are consecutive, most recent first, down to entry low.
Falls(s, low) == \A k \in 1..Len(s) : s[k] = low + Len(s) - k

\* The lowest height any representative had when the call began.
Floor == Reading!Min({known[r] : r \in Reps})

\* No representative loses an entry.
Grown == \A r \in Reps : known[r] <= height[r]

\* Before a call nothing is held of one.
Fresh == readPc = "idle" => cursor = 0 /\ items = << >> /\ wanted = 0

\* While pages are drained: what is held falls from above the floor to the cursor.
Drained ==
  readPc = "paging" =>
    /\ wanted = 0 /\ limit >= 1
    /\ cursor = 0 => items = << >>
    /\ cursor # 0 => Falls(items, cursor) /\ cursor + Len(items) > Floor

\* A finished drain holds everything down to the first entry.
Whole == (readPc = "done" /\ wanted = 0) => Falls(items, 1) /\ Len(items) >= Floor

\* Of the representatives asked for a staple, each lacked it when the call
\* began, or an error is remembered.
Asked ==
  /\ readPc = "asking" =>
       /\ wanted >= 1
       /\ \A r \in Reps \ picks : lastError \/ known[r] < wanted
  /\ readPc = "absent" => \A r \in Reps : known[r] < wanted

ReadInv == ReadTypes /\ Grown /\ Fresh /\ Drained /\ Whole /\ Asked

-----------------------------------------------------------------------------
\* The floor is a natural and no height known is below it.
LEMMA FloorFacts ==
  ASSUME ReadTypes
  PROVE  Floor \in Nat /\ \A r \in Reps : Floor <= known[r]
<1> DEFINE S == {known[r] : r \in Reps}
<1>1. S \in SUBSET Nat /\ S # {} /\ \A r \in Reps : known[r] \in S
  BY ReadsAssumption DEF ReadTypes
<1>2. Floor = CHOOSE x \in S : \A y \in S : x <= y
  BY DEF Floor, Reading!Min
<1> HIDE DEF S
<1>3. \E x \in S : \A y \in S : x <= y
  BY <1>1, LeastNat
<1>4. Floor \in S /\ \A y \in S : Floor <= y
  BY <1>2, <1>3
<1> QED BY <1>1, <1>4

\* Consecutive entries down to low, followed by consecutive entries from just
\* below low down to bottom, are consecutive.
LEMMA FallsOn ==
  ASSUME NEW s \in Seq(Nat), NEW t \in Seq(Nat), NEW low \in Nat, NEW bottom \in Nat,
         Falls(s, low), Falls(t, bottom), low = bottom + Len(t)
  PROVE  Falls(s \o t, bottom)
<1>1. Len(s) \in Nat /\ Len(t) \in Nat /\ Len(s \o t) = Len(s) + Len(t)
  OBVIOUS
<1> SUFFICES ASSUME NEW k \in 1..(Len(s) + Len(t))
             PROVE  (s \o t)[k] = bottom + (Len(s) + Len(t)) - k
  BY <1>1 DEF Falls
<1>2. CASE k <= Len(s)
  <2>1. (s \o t)[k] = s[k] /\ k \in 1..Len(s)
    BY <1>1, <1>2
  <2>2. s[k] = low + Len(s) - k
    BY <2>1 DEF Falls
  <2> QED BY <1>1, <2>1, <2>2
<1>3. CASE k > Len(s)
  <2>1. (s \o t)[k] = t[k - Len(s)] /\ k - Len(s) \in 1..Len(t)
    BY <1>1, <1>3
  <2>2. t[k - Len(s)] = bottom + Len(t) - (k - Len(s))
    BY <2>1 DEF Falls
  <2> QED BY <1>1, <2>1, <2>2
<1> QED BY <1>1, <1>2, <1>3

\* An answer: empty when there is nothing below the cursor, and otherwise
\* consecutive entries from the top down to the last one.
Top(r) == IF cursor = 0 THEN height[r] ELSE cursor - 1

\* A page falls from its top without a gap; only the end of the chain is empty.
LEMMA PageFacts ==
  ASSUME ReadTypes, limit >= 1, NEW r \in Reps
  PROVE  /\ Reading!Page(r) \in Seq(Nat)
         /\ Top(r) \in Nat
         /\ Reading!Page(r) = << >> <=> Top(r) = 0
         /\ Reading!Page(r) # << >> =>
              /\ Reading!Page(r)[Len(Reading!Page(r))] \in Nat \ {0}
              /\ Falls(Reading!Page(r), Reading!Page(r)[Len(Reading!Page(r))])
              /\ Top(r) = Reading!Page(r)[Len(Reading!Page(r))] + Len(Reading!Page(r)) - 1
<1> DEFINE top == Top(r)
           size == IF top < limit THEN top ELSE limit
<1>1. top \in Nat /\ limit \in Nat /\ size \in Nat /\ size <= top /\ (size = 0 <=> top = 0)
  BY DEF ReadTypes, Top
<1>2. Reading!Page(r) = [k \in 1..size |-> top + 1 - k]
  BY DEF Reading!Page, Top
<1> HIDE DEF top, size
<1>3. \A k \in 1..size : top + 1 - k \in Nat \ {0}
  BY <1>1
<1>4. Reading!Page(r) \in Seq(Nat) /\ Len(Reading!Page(r)) = size
  BY <1>1, <1>2, <1>3
<1>5. Reading!Page(r) = << >> <=> size = 0
  BY <1>1, <1>4
<1>6. ASSUME size # 0
      PROVE  /\ Reading!Page(r)[size] = top + 1 - size
             /\ \A k \in 1..size : Reading!Page(r)[k] = (top + 1 - size) + size - k
  <2>1. size \in 1..size
    BY <1>1, <1>6
  <2>2. \A k \in 1..size : Reading!Page(r)[k] = top + 1 - k
    BY <1>2
  <2> QED BY <1>1, <2>1, <2>2
<1>7. size # 0 => top + 1 - size \in Nat \ {0}
  BY <1>1
<1>8. top = (top + 1 - size) + size - 1
  BY <1>1
<1> QED BY <1>1, <1>4, <1>5, <1>6, <1>7, <1>8 DEF top, Falls

-----------------------------------------------------------------------------
\* The invariant holds before any call.
LEMMA ReadInit == Reading!Init => ReadInv
<1> SUFFICES ASSUME Reading!Init PROVE ReadInv
  OBVIOUS
<1>1. height \in [Reps -> Nat] /\ known = height
  BY ReadsAssumption DEF Reading!Init
<1>2. ReadTypes /\ Grown
  <2>1. \A r \in Reps : height[r] \in Nat
    BY <1>1
  <2>2. << >> \in Seq(Nat)
    OBVIOUS
  <2>3. Grown
    BY <1>1, <2>1 DEF Grown
  <2> QED BY <1>1, <2>2, <2>3 DEF Reading!Init, ReadTypes
<1> QED BY <1>2 DEF Reading!Init, ReadInv, Fresh, Drained, Whole, Asked

\* The floor moves only with what is known.
LEMMA SameFloor == UNCHANGED known => Floor' = Floor
  BY DEF Floor

\* A page keeps it: the entries received stay consecutive, and the first page
\* begins at or above the floor, whoever answers.
LEMMA FetchKeeps ==
  ASSUME ReadInv, NEW r \in Reps, Reading!Fetch(r)
  PROVE  ReadInv'
<1> DEFINE page == Reading!Page(r)
           last == page[Len(page)]
           drained == items \o page
<1>1. ReadTypes /\ Grown /\ readPc = "paging" /\ wanted = 0 /\ limit >= 1
  BY DEF ReadInv, Reading!Fetch, Drained
<1>2. UNCHANGED <<height, known, limit, wanted, picks, lastError>> /\ items' = drained
  BY DEF Reading!Fetch
<1>3. /\ page \in Seq(Nat) /\ Top(r) \in Nat /\ (page = << >> <=> Top(r) = 0)
      /\ page # << >> => /\ last \in Nat \ {0} /\ Falls(page, last)
                         /\ Top(r) = last + Len(page) - 1
  BY <1>1, PageFacts
<1>4. PICK key \in Reading!NextKeys(page) :
        IF page = << >> \/ key = 0 THEN readPc' = "done" /\ UNCHANGED cursor
        ELSE cursor' = key /\ UNCHANGED readPc
  BY DEF Reading!Fetch
<1>5. /\ page # << >> => key \in {0, last} /\ (key = 0 => last = 1)
      /\ page = << >> => key = 0
  <2>1. Reading!NextKeys(page) = IF page = << >> THEN {0} ELSE IF last = 1 THEN {0, 1} ELSE {last}
    BY DEF Reading!NextKeys
  <2> HIDE DEF page, last
  <2> QED BY <1>3, <1>4, <2>1
<1>6. Floor \in Nat /\ Floor <= known[r] /\ Floor' = Floor
  BY <1>1, <1>2, FloorFacts, SameFloor
<1>7. /\ cursor \in Nat /\ known[r] \in Nat /\ height[r] \in Nat /\ known[r] <= height[r]
      /\ items \in Seq(Nat) /\ limit \in Nat
  BY <1>1 DEF ReadTypes, Grown
<1>8. /\ cursor = 0 => items = << >>
      /\ cursor # 0 => Falls(items, cursor) /\ cursor + Len(items) > Floor
  BY <1>1 DEF ReadInv, Drained
<1> HIDE DEF page, last
<1>9. drained \in Seq(Nat) /\ Len(drained) = Len(items) + Len(page)
      /\ Len(items) \in Nat /\ Len(page) \in Nat
  BY <1>3, <1>7
<1>10. ASSUME page # << >>
       PROVE  Falls(drained, last) /\ last + Len(drained) > Floor
  <2>1. CASE cursor = 0
    <3>1. Top(r) = height[r] /\ items = << >> /\ drained = page
      BY <1>3, <1>8, <2>1 DEF Top
    <3> HIDE DEF drained
    <3>2. last + Len(page) - 1 = height[r]
      BY <1>3, <1>10, <3>1
    <3> QED BY <1>3, <1>6, <1>7, <1>9, <1>10, <3>1, <3>2
  <2>2. CASE cursor # 0
    <3>1. Top(r) = cursor - 1
      BY <2>2 DEF Top
    <3>2. cursor = last + Len(page)
      <4>1. cursor - 1 = last + Len(page) - 1 /\ last \in Nat
        BY <1>3, <1>10, <3>1
      <4> QED BY <1>7, <1>9, <4>1
    <3>3. Falls(drained, last)
      BY <1>3, <1>7, <1>8, <1>10, <2>2, <3>2, FallsOn
    <3> QED BY <1>3, <1>6, <1>7, <1>8, <1>9, <1>10, <2>2, <3>2, <3>3
  <2> QED BY <2>1, <2>2
<1>11. ASSUME page = << >>
       PROVE  Falls(drained, 1) /\ Len(drained) >= Floor
  <2>1. drained = items /\ Top(r) = 0
    BY <1>3, <1>7, <1>11
  <2>2. CASE cursor = 0
    <3>1. height[r] = 0 /\ drained = << >>
      BY <1>8, <2>1, <2>2 DEF Top
    <3> QED BY <1>6, <1>7, <3>1 DEF Falls
  <2>3. CASE cursor # 0
    <3>1. cursor = 1
      BY <1>7, <2>1, <2>3 DEF Top
    <3> QED BY <1>6, <1>8, <1>9, <2>1, <3>1
  <2> QED BY <2>2, <2>3
<1>12. readPc' = "done" => Falls(drained, 1) /\ Len(drained) >= Floor
  <2>1. CASE page = << >>
    BY <1>11, <2>1
  <2>2. CASE page # << >> /\ readPc' = "done"
    <3>1. last = 1
      BY <1>1, <1>4, <1>5, <2>2
    <3> HIDE DEF drained
    <3> QED BY <1>6, <1>9, <1>10, <2>2, <3>1
  <2> QED BY <2>1, <2>2
<1>13. readPc' = "paging" => /\ cursor' = last /\ cursor' \in Nat \ {0}
                         /\ Falls(drained, last) /\ last + Len(drained) > Floor
  BY <1>1, <1>3, <1>4, <1>5, <1>10
<1>14. readPc' \in {"done", "paging"} /\ cursor' \in Nat
  BY <1>1, <1>3, <1>4, <1>5, <1>7
<1> HIDE DEF drained
<1>15. ReadTypes' /\ Grown'
  BY <1>1, <1>2, <1>9, <1>14 DEF ReadTypes, Grown
<1>16. Drained'
  BY <1>1, <1>2, <1>6, <1>13, <1>14 DEF Drained, Falls
<1>17. Whole'
  BY <1>2, <1>6, <1>12 DEF Whole, Falls
<1> QED BY <1>14, <1>15, <1>16, <1>17 DEF ReadInv, Fresh, Asked

\* Every step keeps it.
LEMMA ReadStep == ReadInv /\ [Reading!Next]_(Reading!vars) => ReadInv'
<1> SUFFICES ASSUME ReadInv, [Reading!Next]_(Reading!vars) PROVE ReadInv'
  OBVIOUS
<1> USE DEF ReadInv
<1>0. UNCHANGED known => Floor' = Floor
  BY SameFloor
<1>1. ASSUME NEW r \in Reps, Reading!Commits(r) PROVE ReadInv'
  <2>1. ReadTypes' /\ Grown'
    BY <1>1 DEF Reading!Commits, Reading!callVars, ReadTypes, Grown
  <2> QED BY <1>0, <1>1, <2>1
      DEF Reading!Commits, Reading!callVars, Fresh, Drained, Whole, Asked, Falls
<1>2. ASSUME NEW r \in Reps, Reading!Fetch(r) PROVE ReadInv'
  BY <1>2, FetchKeeps
<1>3. ASSUME NEW r \in Reps, Reading!Composes(r) PROVE ReadInv'
  <2>1. wanted \in Nat /\ wanted >= 1 /\ known[r] \in Nat /\ height[r] \in Nat
        /\ known[r] <= height[r]
    BY <1>3 DEF Reading!Composes, Asked, ReadTypes, Grown
  <2>2. ReadTypes'
    <3>1. items' \in Seq(Nat)
      <4>1. items' = items \/ items' = <<wanted>>
        BY <1>3 DEF Reading!Composes
      <4>2. <<wanted>> \in Seq(Nat)
        BY <2>1
      <4> QED BY <4>1, <4>2 DEF ReadTypes
    <3> QED BY <1>3, <3>1 DEF Reading!Composes, ReadTypes
  <2>3. Asked'
    BY <1>3, <2>1 DEF Reading!Composes, Asked
  <2> QED BY <1>3, <2>1, <2>2, <2>3 DEF Reading!Composes, Grown, Fresh, Drained, Whole
<1>4. ASSUME NEW r \in Reps, Reading!ComposeFails(r) PROVE ReadInv'
  BY <1>4 DEF Reading!ComposeFails, ReadTypes, Grown, Fresh, Drained, Whole, Asked
<1>5. ASSUME NEW n \in Limits, Reading!ReadAll(n) PROVE ReadInv'
  <2>1. Reading!PageLimit(n) \in Nat /\ Reading!PageLimit(n) >= 1
    BY ReadsAssumption DEF Reading!PageLimit
  <2>2. ReadTypes' /\ Grown'
    BY <1>5, <2>1 DEF Reading!ReadAll, ReadTypes, Grown
  <2> QED BY <1>5, <2>1, <2>2 DEF Reading!ReadAll, Fresh, Drained, Whole, Asked
<1>6. ASSUME NEW n \in 1..MaxHeight, Reading!AskStaple(n) PROVE ReadInv'
  <2>1. ReadTypes' /\ Grown'
    BY <1>6, ReadsAssumption DEF Reading!AskStaple, ReadTypes, Grown
  <2> QED BY <1>6, <2>1, ReadsAssumption DEF Reading!AskStaple, Fresh, Drained, Whole, Asked
<1>7. CASE Reading!FetchFails
  BY <1>7 DEF Reading!FetchFails, ReadTypes, Grown, Fresh, Drained, Whole, Asked
<1>8. CASE Reading!Exhausted
  BY <1>8 DEF Reading!Exhausted, Reading!WhenExhausted, ReadTypes, Grown, Fresh, Drained,
              Whole, Asked
<1>9. CASE UNCHANGED Reading!vars
  BY <1>0, <1>9 DEF Reading!vars, Reading!callVars, ReadTypes, Grown, Fresh, Drained, Whole,
                    Asked, Falls
<1> QED BY <1>1, <1>2, <1>3, <1>4, <1>5, <1>6, <1>7, <1>8, <1>9 DEF Reading!Next

\* What is held of a read falls without gap from above what everybody had, and
\* whoever was asked for a staple lacked it (drain_cursor_pages, vote_staple).
THEOREM ReadInvariant == VotingSpec => []ReadInv
<1>1. VotingInit => ReadInv
  BY ReadInit DEF VotingInit
<1>2. ASSUME ReadInv, [VotingNext]_votingVars PROVE ReadInv'
  <2>1. UNCHANGED readVars <=> UNCHANGED Reading!vars
    BY DEF readVars, Reading!vars, Reading!callVars
  <2>2. [Reading!Next]_(Reading!vars)
    BY <1>2, <2>1 DEF votingVars, VotingNext, RoundSteps, BuilderSteps, FeeSteps, ReadSteps
  <2> QED BY <1>2, <2>2, ReadStep
<1> QED BY <1>1, <1>2, PTL DEF VotingSpec

\* chain_all, history_all and global_history_all return every entry once, down
\* to the first, and all that everybody had when the call began; vote_staple
\* says there is none only when nobody had it (ReadsComplete).
THEOREM ReadsCompleteHolds == VotingSpec => []ReadsComplete
<1>1. ASSUME ReadInv PROVE ReadsComplete
  <2>1. ASSUME Falls(items, 1) PROVE items = [k \in 1..Len(items) |-> Len(items) + 1 - k]
    <3>1. items \in Seq(Nat) /\ Len(items) \in Nat
      BY <1>1 DEF ReadInv, ReadTypes
    <3>2. \A k \in 1..Len(items) : items[k] = Len(items) + 1 - k
      BY <2>1, <3>1 DEF Falls
    <3>3. items = [k \in 1..Len(items) |-> items[k]]
      BY <3>1
    <3> QED BY <3>2, <3>3
  <2> QED BY <1>1, <2>1 DEF ReadsComplete, Reading!ReadsComplete, ReadInv, Whole, Asked, Floor
<1> QED BY <1>1, ReadInvariant, PTL
=============================================================================
