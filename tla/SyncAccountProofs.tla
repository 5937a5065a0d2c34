------------------------- MODULE SyncAccountProofs -------------------------
(***************************************************************************)
(* Proofs about SyncAccount: the types and NeverAhead, for every number of *)
(* representatives, accounts, staples, callers and losses.                 *)
(*                                                                         *)
(* Ledgers only grow, so a head that was read stays a lower bound          *)
(* (HeadsBelow) although writers and other callers go on publishing; the   *)
(* staple fetched is the successor of the lowest head read (StapleNext),   *)
(* and it exists because some head read was higher.                        *)
(***************************************************************************)
EXTENDS SyncAccount, OrderFacts, FiniteSetTheorems

\* How many of the staples 1..i touch account a.
Upto(a, i) == Cardinality({j \in 1..i : a \in Staples[j]})

\* A head read is not above the head of its representative.
HeadsBelow(c) == \A i \in 1..Len(heads[c]) : heads[c][i] <= Height(RepOrder[i], A(c))

\* A call fetches and publishes only when it read every head, and some differ.
AllRead(c) ==
  /\ pc[c] # "read" => Len(heads[c]) = Len(RepOrder)
  /\ pc[c] = "fetch" => Lagging(c) # 1..Len(RepOrder)

\* The staple being published is next to the head read of everyone it is for.
StapleNext(c) ==
  /\ pc[c] = "publish" => staple[c] \in 1..Len(Staples)
  /\ pc[c] # "publish" => todo[c] = {}
  /\ \A i \in todo[c] : Upto(A(c), staple[c]) <= heads[c][i] + 1

CallInv(c) == HeadsBelow(c) /\ AllRead(c) /\ StapleNext(c)

SyncInv ==
  /\ TypeOK /\ heads \in [Callers -> Seq(Nat)]
  /\ \A c \in Callers : CallInv(c)

-----------------------------------------------------------------------------
(* Counting staples.                                                       *)

\* The constants have their shapes.
LEMMA ConstantsTyped ==
  /\ Len(RepOrder) \in Nat /\ Len(RepOrder) >= 1 /\ \A i \in 1..Len(RepOrder) : RepOrder[i] \in Reps
  /\ Len(Accounts) \in Nat /\ Len(Accounts) >= 1
  /\ Len(Staples) \in Nat /\ MaxFaults \in Nat
  BY SyncAssumption DEF Reps

\* How many staples of S touch account a.
Count(S, a) == Cardinality({i \in S : a \in Staples[i]})

\* Fewer staples touch an account fewer times.
LEMMA CountGrows ==
  ASSUME NEW a, NEW S, NEW T, S \subseteq T, T \subseteq 1..Len(Staples)
  PROVE  Count(S, a) \in Nat /\ Count(T, a) \in Nat /\ Count(S, a) <= Count(T, a)
<1> DEFINE U == {i \in T : a \in Staples[i]}
           V == {i \in S : a \in Staples[i]}
<1>1. IsFiniteSet(1..Len(Staples)) /\ U \in SUBSET (1..Len(Staples)) /\ V \in SUBSET U
  <2>1. Len(Staples) \in Int /\ 1 \in Int
    BY ConstantsTyped
  <2>2. IsFiniteSet(1..Len(Staples))
    BY <2>1, FS_Interval
  <2> QED BY <2>2
<1> HIDE DEF U, V
<1>2. IsFiniteSet(U)
  BY <1>1, FS_Subset
<1>3. IsFiniteSet(V) /\ Cardinality(V) <= Cardinality(U)
  BY <1>1, <1>2, FS_Subset
<1>4. Cardinality(U) \in Nat /\ Cardinality(V) \in Nat
  BY <1>2, <1>3, FS_CardinalityType
<1> QED BY <1>3, <1>4 DEF Count, U, V

\* The count of the first staples starts at zero and goes up by at most one.
LEMMA UptoSteps ==
  ASSUME NEW a
  PROVE  /\ Upto(a, 0) = 0
         /\ \A i \in Nat : /\ Upto(a, i) \in Nat
                           /\ a \in Staples[i + 1] => Upto(a, i + 1) = Upto(a, i) + 1
                           /\ a \notin Staples[i + 1] => Upto(a, i + 1) = Upto(a, i)
<1> DEFINE U(i) == {j \in 1..i : a \in Staples[j]}
<1>1. U(0) = {}
  OBVIOUS
<1>2. ASSUME NEW i \in Nat
      PROVE  /\ IsFiniteSet(U(i)) /\ i + 1 \notin U(i)
             /\ a \in Staples[i + 1] => U(i + 1) = U(i) \cup {i + 1}
             /\ a \notin Staples[i + 1] => U(i + 1) = U(i)
  <2>1. IsFiniteSet(1..i) /\ U(i) \in SUBSET (1..i)
    BY FS_Interval
  <2>2. IsFiniteSet(U(i))
    <3> HIDE DEF U
    <3> QED BY <2>1, FS_Subset
  <2>3. 1..(i + 1) = 1..i \cup {i + 1} /\ i + 1 \notin 1..i
    OBVIOUS
  <2> QED BY <2>2, <2>3
<1>3. ASSUME NEW i \in Nat
      PROVE  /\ Cardinality(U(i)) \in Nat
             /\ a \in Staples[i + 1] => Cardinality(U(i + 1)) = Cardinality(U(i)) + 1
             /\ a \notin Staples[i + 1] => Cardinality(U(i + 1)) = Cardinality(U(i))
  <2>1. /\ IsFiniteSet(U(i)) /\ i + 1 \notin U(i)
        /\ a \in Staples[i + 1] => U(i + 1) = U(i) \cup {i + 1}
        /\ a \notin Staples[i + 1] => U(i + 1) = U(i)
    BY <1>2
  <2> HIDE DEF U
  <2> QED BY <2>1, FS_CardinalityType, FS_AddElement
<1>4. Cardinality(U(0)) = 0
  BY <1>1, FS_EmptySet
<1> QED BY <1>3, <1>4 DEF Upto

\* There is an n-th staple for every n up to the number of staples that touch
\* the account.
LEMMA NthExists ==
  ASSUME NEW a, NEW n \in Nat, n >= 1, n <= Upto(a, Len(Staples))
  PROVE  Nth(a, n) \in 1..Len(Staples) /\ Upto(a, Nth(a, n)) = n
<1>1. Len(Staples) \in Nat /\ Upto(a, 0) = 0 /\ \A i \in Nat : Upto(a, i) \in Nat
  BY ConstantsTyped, UptoSteps
<1> DEFINE T == {i \in Nat : i <= Len(Staples) /\ n <= Upto(a, i)}
<1>2. PICK m \in T : \A i \in T : m <= i
  <2>1. T \in SUBSET Nat /\ Len(Staples) \in T
    BY <1>1
  <2> HIDE DEF T
  <2> QED BY <2>1, LeastNat
<1>3. m \in Nat /\ m <= Len(Staples) /\ n <= Upto(a, m)
  BY <1>2
<1>4. m # 0
  BY <1>1, <1>3
<1>5. PICK k \in Nat : m = k + 1
  BY <1>3, <1>4
<1>6. Upto(a, k) < n
  <2>1. k \notin T /\ k <= Len(Staples)
    BY <1>1, <1>2, <1>3, <1>5
  <2> QED BY <1>1, <2>1
<1>7. a \in Staples[m] /\ Upto(a, m) = n
  <2>1. /\ Upto(a, k) \in Nat
        /\ a \in Staples[k + 1] => Upto(a, k + 1) = Upto(a, k) + 1
        /\ a \notin Staples[k + 1] => Upto(a, k + 1) = Upto(a, k)
    BY UptoSteps
  <2>2. n <= Upto(a, k + 1)
    BY <1>3, <1>5
  <2>3. a \in Staples[k + 1] /\ Upto(a, k + 1) = n
    BY <1>6, <2>1, <2>2
  <2> QED BY <1>5, <2>3
<1>8. \E i \in 1..Len(Staples) : a \in Staples[i] /\ Upto(a, i) = n
  BY <1>1, <1>3, <1>4, <1>7
<1> QED BY <1>8 DEF Nth, Upto
-----------------------------------------------------------------------------
(* The heads of a call.                                                    *)

\* When every head is read, the lagging representatives share the lowest head,
\* and a representative that does not lag has a higher one (the stable sort).
LEMMA LaggingFacts ==
  ASSUME NEW c \in Callers, heads \in [Callers -> Seq(Nat)], Len(heads[c]) = Len(RepOrder)
  PROVE  /\ Lowest(c) \in 1..Len(RepOrder) /\ Lagging(c) \subseteq 1..Len(RepOrder)
         /\ \A i \in 1..Len(RepOrder) :
              /\ heads[c][i] \in Nat
              /\ i \in Lagging(c) => heads[c][i] = heads[c][Lowest(c)]
              /\ i \notin Lagging(c) => heads[c][i] >= heads[c][Lowest(c)] + 1
<1> DEFINE N == Len(RepOrder)
           h == heads[c]
<1>1. N \in Nat /\ N >= 1 /\ \A i \in 1..N : h[i] \in Nat
  BY ConstantsTyped
<1>2. PICK k \in 1..N : \A i \in 1..N : h[k] <= h[i]
  <2> DEFINE T == {h[i] : i \in 1..N}
  <2>1. T \in SUBSET Nat /\ T # {}
    BY <1>1
  <2>2. PICK x \in T : \A y \in T : x <= y
    <3> HIDE DEF T
    <3> QED BY <2>1, LeastNat
  <2>3. PICK k \in 1..N : x = h[k]
    BY <2>2
  <2> QED BY <2>2, <2>3
<1>3. LowestHeight(c) = h[k] - 1
  <2> DEFINE V == {HeightValue(heads[c][i]) : i \in 1..Len(RepOrder)}
  <2>1. \A i \in 1..N : HeightValue(heads[c][i]) = h[i] - 1
    BY DEF HeightValue
  <2>2. h[k] - 1 \in V /\ V \subseteq Int /\ \A i \in 1..N : h[k] - 1 <= HeightValue(heads[c][i])
    BY <1>1, <1>2, <2>1
  <2>3. \A v \in V : (\A i \in 1..N : v <= HeightValue(heads[c][i])) => v = h[k] - 1
    <3> SUFFICES ASSUME NEW v \in V, \A i \in 1..N : v <= HeightValue(heads[c][i])
                 PROVE  v = h[k] - 1
      OBVIOUS
    <3>1. PICK i \in 1..N : v = h[i] - 1
      BY <2>1
    <3>2. h[i] - 1 <= h[k] - 1 /\ h[k] <= h[i]
      BY <1>2, <2>1, <3>1
    <3> QED BY <1>1, <3>1, <3>2
  <2> QED BY <2>2, <2>3 DEF LowestHeight
<1>4. \A i \in 1..N : i \in Lagging(c) <=> h[i] = h[k]
  BY <1>1, <1>3 DEF Lagging, HeightValue
<1>5. Lagging(c) \subseteq 1..N /\ k \in Lagging(c)
  BY <1>4 DEF Lagging
<1>6. Lowest(c) \in Lagging(c)
  <2>1. Lagging(c) \in SUBSET Nat /\ Lagging(c) # {}
    BY <1>5
  <2>2. \E i \in Lagging(c) : \A j \in Lagging(c) : i <= j
    BY <2>1, LeastNat
  <2> QED BY <2>2 DEF Lowest
<1>7. h[Lowest(c)] = h[k] /\ Lowest(c) \in 1..N
  BY <1>4, <1>5, <1>6
<1>8. ASSUME NEW i \in 1..N, i \notin Lagging(c) PROVE h[i] >= h[Lowest(c)] + 1
  BY <1>1, <1>2, <1>4, <1>7, <1>8
<1> QED BY <1>1, <1>4, <1>5, <1>7, <1>8
-----------------------------------------------------------------------------
(* Steps.                                                                  *)

\* The ledgers only grow, and hold only staples.
LedgersGrow ==
  /\ applied' \in [Reps -> SUBSET (1..Len(Staples))]
  /\ \A r \in Reps : applied[r] \subseteq applied'[r]

\* Heights are the counts of the ledgers, so they only grow.
LEMMA HeightGrows ==
  ASSUME LedgersGrow, NEW r \in Reps, NEW a
  PROVE  /\ Height(r, a) = Count(applied[r], a) /\ Height(r, a)' = Count(applied'[r], a)
         /\ Height(r, a) \in Nat /\ Height(r, a)' \in Nat /\ Height(r, a) <= Height(r, a)'
<1>1. applied[r] \subseteq applied'[r] /\ applied'[r] \subseteq 1..Len(Staples)
  BY DEF LedgersGrow
<1>2. Height(r, a) = Count(applied[r], a) /\ Height(r, a)' = Count(applied'[r], a)
  BY DEF Height, Count
<1> QED BY <1>1, <1>2, CountGrows

\* A call whose locals a step leaves alone keeps what it knows.
LEMMA CallKept ==
  ASSUME SyncInv, LedgersGrow, NEW c \in Callers,
         pc'[c] = pc[c], acct'[c] = acct[c], heads'[c] = heads[c],
         staple'[c] = staple[c], todo'[c] = todo[c]
  PROVE  CallInv(c)'
<1>1. HeadsBelow(c) /\ AllRead(c) /\ StapleNext(c)
  BY DEF SyncInv, CallInv
<1>2. A(c)' = A(c)
  BY DEF A
<1>3. HeadsBelow(c)'
  <2> SUFFICES ASSUME NEW i \in 1..Len(heads[c])
               PROVE  heads[c][i] <= Height(RepOrder[i], A(c))'
    BY DEF HeadsBelow
  <2>1. heads[c] \in Seq(Nat) /\ Len(heads[c]) <= Len(RepOrder)
    BY DEF SyncInv, TypeOK
  <2>2. heads[c][i] \in Nat /\ RepOrder[i] \in Reps
    BY <2>1, ConstantsTyped
  <2>3. PICK r, a : r = RepOrder[i] /\ a = A(c)
    OBVIOUS
  <2>4. heads[c][i] <= Height(r, a) /\ Height(r, a) <= Height(r, a)'
        /\ Height(r, a) \in Nat /\ Height(r, a)' \in Nat
    BY <1>1, <2>2, <2>3, HeightGrows DEF HeadsBelow
  <2>5. heads[c][i] <= Height(r, a)'
    BY <2>2, <2>4
  <2>6. Height(RepOrder[i], A(c))' = Height(r, a)'
    BY <1>2, <2>3 DEF Height
  <2> QED BY <2>5, <2>6
<1>4. AllRead(c)'
  BY <1>1 DEF AllRead, Lagging, LowestHeight
<1>5. StapleNext(c)'
  BY <1>1, <1>2 DEF StapleNext
<1> QED BY <1>3, <1>4, <1>5 DEF CallInv
\* The locals of the calls have their types.
CallsTyped ==
  /\ pc \in [Callers -> {"read", "fetch", "publish"}]
  /\ acct \in [Callers -> 1..Len(Accounts)]
  /\ heads \in [Callers -> Seq(Nat)]
  /\ \A c \in Callers : Len(heads[c]) <= Len(RepOrder)
  /\ staple \in [Callers -> 0..Len(Staples)]
  /\ todo \in [Callers -> SUBSET (1..Len(RepOrder))]
  /\ result \in [Callers -> {"none", "some", "failed", "error"}]

\* The step is one of c: it leaves the locals of the other calls alone.
Others(c) ==
  \A d \in Callers \ {c} :
    /\ pc'[d] = pc[d] /\ acct'[d] = acct[d] /\ heads'[d] = heads[d]
    /\ staple'[d] = staple[d] /\ todo'[d] = todo[d]

\* SyncInv, by parts.
LEMMA SyncSplit ==
  SyncInv <=> /\ applied \in [Reps -> SUBSET (1..Len(Staples))] /\ CallsTyped
              /\ faults \in 0..MaxFaults /\ \A c \in Callers : CallInv(c)
  BY DEF SyncInv, TypeOK, CallsTyped

\* A step of c that keeps the types and what c knows keeps the invariant.
LEMMA StepOfCall ==
  ASSUME SyncInv, NEW c \in Callers, CallsTyped', faults' \in 0..MaxFaults, LedgersGrow,
         Others(c), CallInv(c)'
  PROVE  SyncInv'
<1>1. \A d \in Callers : CallInv(d)'
  BY CallKept DEF Others
<1>2. applied' \in [Reps -> SUBSET (1..Len(Staples))]
  BY DEF LedgersGrow
<1>3. SyncInv'
  BY <1>1, <1>2 DEF SyncInv, TypeOK, CallsTyped
<1> QED BY <1>3

\* A request is one more loss or none (Outcome).
LEMMA OutcomeTyped ==
  ASSUME SyncInv, NEW d, Outcome(d)
  PROVE  faults' \in 0..MaxFaults
  BY ConstantsTyped DEF SyncInv, TypeOK, Outcome

\* Nothing is published: the ledgers are the same.
LEMMA LedgersSame ==
  ASSUME SyncInv, applied' = applied
  PROVE  LedgersGrow
  BY DEF SyncInv, TypeOK, LedgersGrow

\* The call returns and its locals are gone (Return).
LEMMA ReturnKeeps ==
  ASSUME SyncInv, NEW c \in Callers, NEW how \in {"none", "some", "failed", "error"}, Return(c, how)
  PROVE  CallsTyped' /\ Others(c) /\ CallInv(c)'
<1>1. CallsTyped
  BY SyncSplit
<1>2. NextAccount(acct[c]) \in 1..Len(Accounts)
  BY <1>1, ConstantsTyped DEF CallsTyped, NextAccount
<1>3. heads' \in [Callers -> Seq(Nat)] /\ heads'[c] = << >> /\ \A d \in Callers \ {c} : heads'[d] = heads[d]
  BY <1>1 DEF Return, CallsTyped
<1>4. CallsTyped'
  <2>1. \A d \in Callers : Len(heads'[d]) <= Len(RepOrder)
    <3>1. Len(heads'[c]) = 0
      BY <1>3
    <3>2. \A d \in Callers \ {c} : Len(heads'[d]) <= Len(RepOrder)
      BY <1>1, <1>3 DEF CallsTyped
    <3> QED BY <3>1, <3>2, ConstantsTyped
  <2>2. staple' \in [Callers -> 0..Len(Staples)]
    BY <1>1, ConstantsTyped DEF Return, CallsTyped
  <2> QED BY <1>1, <1>2, <1>3, <2>1, <2>2 DEF Return, CallsTyped
<1>5. Others(c)
  BY <1>1 DEF Return, CallsTyped, Others
<1>6. pc'[c] = "read" /\ todo'[c] = {}
  BY <1>1 DEF Return, CallsTyped
<1>7. CallInv(c)'
  BY <1>3, <1>6 DEF CallInv, HeadsBelow, AllRead, StapleNext
<1> QED BY <1>4, <1>5, <1>7

\* Reading a head keeps the invariant (head_info).
LEMMA ReadHeadKeeps ==
  ASSUME SyncInv, NEW c \in Callers, ReadHead(c)
  PROVE  SyncInv'
<1>1. CallsTyped /\ CallInv(c)
  BY SyncSplit
<1>2. PICK d \in {"delivered", "request_lost"} :
        /\ Outcome(d)
        /\ heads' = [heads EXCEPT ![c] = Append(heads[c], HeadInfo(c, RepOrder[Len(heads[c]) + 1], d))]
  BY DEF ReadHead
<1>3. /\ applied' = applied /\ pc' = pc /\ acct' = acct /\ staple' = staple /\ todo' = todo
      /\ result' = result /\ pc[c] = "read" /\ Len(heads[c]) < Len(RepOrder)
  BY DEF ReadHead
<1>4. LedgersGrow /\ faults' \in 0..MaxFaults
  BY <1>2, <1>3, LedgersSame, OutcomeTyped
<1> DEFINE n == Len(heads[c]) + 1
           r == RepOrder[n]
<1>5. /\ heads[c] \in Seq(Nat) /\ n \in 1..Len(RepOrder) /\ r \in Reps
  BY <1>1, <1>3, ConstantsTyped DEF CallsTyped
<1>6. Height(r, A(c)) \in Nat /\ HeadInfo(c, r, d) \in Nat /\ HeadInfo(c, r, d) <= Height(r, A(c))
  <2>1. Height(r, A(c)) \in Nat
    BY <1>4, <1>5, HeightGrows
  <2> QED BY <2>1 DEF HeadInfo
<1>7. /\ heads'[c] \in Seq(Nat) /\ Len(heads'[c]) = n /\ heads'[c][n] = HeadInfo(c, r, d)
      /\ \A i \in 1..Len(heads[c]) : heads'[c][i] = heads[c][i]
  BY <1>1, <1>2, <1>5, <1>6 DEF CallsTyped
<1>8. CallsTyped'
  <2>1. heads' \in [Callers -> Seq(Nat)] /\ \A e \in Callers \ {c} : heads'[e] = heads[e]
    BY <1>1, <1>2, <1>7 DEF CallsTyped
  <2>2. \A e \in Callers : Len(heads'[e]) <= Len(RepOrder)
    <3>1. Len(heads'[c]) <= Len(RepOrder)
      BY <1>5, <1>7
    <3>2. \A e \in Callers \ {c} : Len(heads'[e]) <= Len(RepOrder)
      BY <1>1, <2>1 DEF CallsTyped
    <3> QED BY <3>1, <3>2
  <2> QED BY <1>1, <1>3, <2>1, <2>2 DEF CallsTyped
<1>9. Others(c)
  BY <1>1, <1>2, <1>3 DEF CallsTyped, Others
<1>10. HeadsBelow(c)'
  <2> SUFFICES ASSUME NEW i \in 1..n PROVE heads'[c][i] <= Height(RepOrder[i], A(c))
    BY <1>3, <1>7 DEF HeadsBelow, Height, A
  <2>1. CASE i = n
    BY <1>6, <1>7, <2>1
  <2>2. CASE i # n
    <3>1. i \in 1..Len(heads[c])
      BY <1>5, <2>2
    <3> QED BY <1>1, <1>7, <3>1 DEF CallInv, HeadsBelow
  <2> QED BY <2>1, <2>2
<1>11. AllRead(c)' /\ StapleNext(c)'
  BY <1>1, <1>3 DEF CallInv, AllRead, StapleNext
<1> QED BY <1>4, <1>8, <1>9, <1>10, <1>11, StepOfCall DEF CallInv

\* Comparing the heads keeps the invariant: equal heads end the call.
LEMMA CompareKeeps ==
  ASSUME SyncInv, NEW c \in Callers, Compare(c)
  PROVE  SyncInv'
<1>1. CallsTyped /\ CallInv(c) /\ LedgersGrow /\ faults' \in 0..MaxFaults
  BY SyncSplit, LedgersSame DEF Compare
<1>2. CASE Return(c, "none")
  BY <1>1, <1>2, ReturnKeeps, StepOfCall
<1>3. CASE ~Return(c, "none")
  <2>1. /\ pc' = [pc EXCEPT ![c] = "fetch"] /\ Lagging(c) # 1..Len(RepOrder)
        /\ acct' = acct /\ heads' = heads /\ staple' = staple /\ todo' = todo /\ result' = result
        /\ applied' = applied /\ pc[c] = "read" /\ Len(heads[c]) = Len(RepOrder)
    BY <1>3 DEF Compare
  <2>2. CallsTyped' /\ Others(c) /\ pc'[c] = "fetch"
    BY <1>1, <2>1 DEF CallsTyped, Others
  <2>3. Lagging(c)' = Lagging(c) /\ A(c)' = A(c)
    BY <2>1 DEF Lagging, LowestHeight, A
  <2>4. HeadsBelow(c)'
    BY <1>1, <2>1 DEF CallInv, HeadsBelow, Height, A
  <2>5. AllRead(c)'
    BY <2>1, <2>2, <2>3 DEF AllRead
  <2>6. StapleNext(c)'
    BY <1>1, <2>1, <2>2 DEF CallInv, StapleNext
  <2> QED BY <1>1, <2>2, <2>4, <2>5, <2>6, StepOfCall DEF CallInv
<1> QED BY <1>2, <1>3
\* Fetching the staple: it is the successor of the lowest head, of which the
\* higher head of another representative shows that it exists (Fetch).
LEMMA FetchKeeps ==
  ASSUME SyncInv, NEW c \in Callers, Fetch(c)
  PROVE  SyncInv'
<1>1. CallsTyped /\ CallInv(c) /\ LedgersGrow /\ faults' \in 0..MaxFaults
  BY SyncSplit, LedgersSame, OutcomeTyped DEF Fetch
<1>2. CASE Return(c, "error")
  BY <1>1, <1>2, ReturnKeeps, StepOfCall
<1>3. CASE ~Return(c, "error")
  <2>1. /\ pc' = [pc EXCEPT ![c] = "publish"] /\ staple' = [staple EXCEPT ![c] = Successor(c)]
        /\ todo' = [todo EXCEPT ![c] = Lagging(c)]
        /\ acct' = acct /\ heads' = heads /\ result' = result /\ applied' = applied /\ pc[c] = "fetch"
    BY <1>3 DEF Fetch
  <2>2. heads \in [Callers -> Seq(Nat)] /\ Len(heads[c]) = Len(RepOrder) /\ Lagging(c) # 1..Len(RepOrder)
    BY <1>1, <2>1 DEF CallsTyped, CallInv, AllRead
  <2> DEFINE a == A(c)
             low == heads[c][Lowest(c)]
  <2>3. /\ Lowest(c) \in 1..Len(RepOrder) /\ Lagging(c) \subseteq 1..Len(RepOrder)
        /\ \A i \in 1..Len(RepOrder) :
             /\ heads[c][i] \in Nat
             /\ i \in Lagging(c) => heads[c][i] = low
             /\ i \notin Lagging(c) => heads[c][i] >= low + 1
    BY <2>2, LaggingFacts
  <2>4. PICK k \in 1..Len(RepOrder) : heads[c][k] \in Nat /\ heads[c][k] >= low + 1 /\ low \in Nat
    BY <2>2, <2>3
  <2>5. heads[c][k] <= Height(RepOrder[k], a)
    BY <1>1, <2>2 DEF CallInv, HeadsBelow
  <2>6. Height(RepOrder[k], a) \in Nat /\ Upto(a, Len(Staples)) \in Nat
        /\ Height(RepOrder[k], a) <= Upto(a, Len(Staples))
    <3>1. RepOrder[k] \in Reps
      BY ConstantsTyped
    <3>2. applied[RepOrder[k]] \subseteq 1..Len(Staples)
      BY <3>1 DEF SyncInv, TypeOK
    <3> QED BY <3>2, CountGrows DEF Height, Count, Upto
  <2>7. low + 1 \in Nat /\ low + 1 >= 1 /\ low + 1 <= Upto(a, Len(Staples))
    BY <2>4, <2>5, <2>6
  <2>8. Successor(c) \in 1..Len(Staples) /\ Upto(a, Successor(c)) = low + 1
    BY <2>7, NthExists DEF Successor
  <2>9. pc'[c] = "publish" /\ staple'[c] = Successor(c) /\ todo'[c] = Lagging(c)
    BY <1>1, <2>1 DEF CallsTyped
  <2>10. CallsTyped' /\ Others(c)
    <3>1. Others(c)
      BY <1>1, <2>1 DEF CallsTyped, Others
    <3>2. pc' \in [Callers -> {"read", "fetch", "publish"}]
      BY <1>1, <2>1 DEF CallsTyped
    <3>3. staple' \in [Callers -> 0..Len(Staples)]
      BY <1>1, <2>1, <2>8, ConstantsTyped DEF CallsTyped
    <3>4. todo' \in [Callers -> SUBSET (1..Len(RepOrder))]
      BY <1>1, <2>1, <2>3 DEF CallsTyped
    <3> QED BY <1>1, <2>1, <3>1, <3>2, <3>3, <3>4 DEF CallsTyped
  <2>11. HeadsBelow(c)'
    BY <1>1, <2>1 DEF CallInv, HeadsBelow, Height, A
  <2>12. AllRead(c)'
    BY <2>1, <2>2, <2>9 DEF AllRead
  <2>13. StapleNext(c)'
    <3>1. A(c)' = a
      BY <2>1 DEF A
    <3>2. \A i \in todo'[c] : Upto(a, staple'[c]) <= heads[c][i] + 1
      BY <2>3, <2>4, <2>8, <2>9
    <3> QED BY <2>1, <2>8, <2>9, <3>1, <3>2 DEF StapleNext
  <2> QED BY <1>1, <2>10, <2>11, <2>12, <2>13, StepOfCall DEF CallInv
<1> QED BY <1>2, <1>3

\* Sending the staple to one lagging representative keeps the invariant.
LEMMA PublishToKeeps ==
  ASSUME SyncInv, NEW c \in Callers, PublishTo(c)
  PROVE  SyncInv'
<1>1. CallsTyped /\ CallInv(c) /\ applied \in [Reps -> SUBSET (1..Len(Staples))]
  BY SyncSplit
<1>2. PICK i : /\ i = CHOOSE x \in todo[c] : \A j \in todo[c] : x <= j
               /\ todo' = [todo EXCEPT ![c] = todo[c] \ {i}]
               /\ \E d \in Outcomes :
                    /\ Outcome(d)
                    /\ applied' = IF d # "request_lost" /\ Applicable(RepOrder[i], staple[c])
                                    THEN [applied EXCEPT ![RepOrder[i]] = @ \cup {staple[c]}]
                                    ELSE applied
  BY DEF PublishTo
<1>3. /\ pc[c] = "publish" /\ todo[c] # {} /\ pc' = pc /\ acct' = acct /\ heads' = heads
      /\ staple' = staple /\ result' = result
  BY DEF PublishTo
<1>4. staple[c] \in 1..Len(Staples)
  BY <1>1, <1>3 DEF CallInv, StapleNext
<1>5. LedgersGrow
  <2>1. CASE applied' = applied
    BY <2>1, LedgersSame
  <2>2. CASE applied' = [applied EXCEPT ![RepOrder[i]] = @ \cup {staple[c]}]
    BY <1>1, <1>4, <2>2 DEF LedgersGrow
  <2> QED BY <1>2, <2>1, <2>2
<1>6. faults' \in 0..MaxFaults
  BY <1>2, OutcomeTyped
<1>7. CallsTyped' /\ Others(c) /\ todo'[c] \subseteq todo[c]
  BY <1>1, <1>2, <1>3 DEF CallsTyped, Others
<1>8. HeadsBelow(c)'
  <2> SUFFICES ASSUME NEW k \in 1..Len(heads[c]) PROVE heads[c][k] <= Height(RepOrder[k], A(c))'
    BY <1>3 DEF HeadsBelow
  <2>1. heads[c][k] \in Nat /\ RepOrder[k] \in Reps
    BY <1>1, ConstantsTyped DEF CallsTyped
  <2>2. PICK r, a : r = RepOrder[k] /\ a = A(c)
    OBVIOUS
  <2>3. heads[c][k] <= Height(r, a) /\ Height(r, a) <= Height(r, a)'
        /\ Height(r, a) \in Nat /\ Height(r, a)' \in Nat
    BY <1>1, <1>5, <2>1, <2>2, HeightGrows DEF CallInv, HeadsBelow
  <2>4. Height(RepOrder[k], A(c))' = Height(r, a)'
    BY <1>3, <2>2 DEF Height, A
  <2> QED BY <2>1, <2>3, <2>4
<1>9. AllRead(c)'
  BY <1>1, <1>3 DEF CallInv, AllRead, Lagging, LowestHeight
<1>10. StapleNext(c)'
  BY <1>1, <1>3, <1>7 DEF CallInv, StapleNext, A
<1> QED BY <1>5, <1>6, <1>7, <1>8, <1>9, <1>10, StepOfCall DEF CallInv

\* The end of a call keeps the invariant (Verify).
LEMMA VerifyKeeps ==
  ASSUME SyncInv, NEW c \in Callers, Verify(c)
  PROVE  SyncInv'
<1>1. LedgersGrow /\ faults' \in 0..MaxFaults
  BY LedgersSame, OutcomeTyped DEF Verify
<1>2. PICK how \in {"some", "failed"} : Return(c, how)
  BY DEF Verify
<1> QED BY <1>1, <1>2, ReturnKeeps, StepOfCall

\* A publish of somebody else keeps the invariant (WriterPublishes).
LEMMA WriterKeeps ==
  ASSUME SyncInv, NEW r \in Reps, NEW i \in 1..Len(Staples), WriterPublishes(r, i)
  PROVE  SyncInv'
<1>1. /\ applied' = [applied EXCEPT ![r] = @ \cup {i}] /\ faults' = faults /\ result' = result
      /\ pc' = pc /\ acct' = acct /\ heads' = heads /\ staple' = staple /\ todo' = todo
  BY DEF WriterPublishes, callVars
<1>2. LedgersGrow
  BY <1>1 DEF SyncInv, TypeOK, LedgersGrow
<1>3. \A c \in Callers : CallInv(c)'
  BY <1>1, <1>2, CallKept
<1> QED BY <1>1, <1>2, <1>3 DEF SyncInv, TypeOK, LedgersGrow

\* Nobody has read a head yet.
LEMMA SyncInit == Init => SyncInv
<1> SUFFICES ASSUME Init PROVE SyncInv
  OBVIOUS
<1>1. TypeOK
  <2>1. \A c \in Callers : Len(heads[c]) = 0
    BY DEF Init
  <2> QED BY <2>1, ConstantsTyped DEF Init, TypeOK
<1>2. heads \in [Callers -> Seq(Nat)]
  BY DEF Init
<1>3. ASSUME NEW c \in Callers PROVE CallInv(c)
  BY DEF Init, CallInv, HeadsBelow, AllRead, StapleNext
<1> QED BY <1>1, <1>2, <1>3 DEF SyncInv

\* Every step keeps the invariant.
LEMMA SyncStepKeeps == SyncInv /\ [Next]_vars => SyncInv'
<1> SUFFICES ASSUME SyncInv, [Next]_vars PROVE SyncInv'
  OBVIOUS
<1>1. ASSUME NEW c \in Callers, SyncStep(c) PROVE SyncInv'
  BY <1>1, ReadHeadKeeps, CompareKeeps, FetchKeeps, PublishToKeeps, VerifyKeeps DEF SyncStep
<1>2. CASE UNCHANGED vars
  <2>1. LedgersGrow
    BY <1>2, LedgersSame DEF vars
  <2>2. \A c \in Callers : CallInv(c)'
    BY <1>2, <2>1, CallKept DEF vars, callVars
  <2> QED BY <1>2, <2>2 DEF SyncInv, TypeOK, vars, callVars
<1> QED BY <1>1, <1>2, WriterKeeps DEF Next

\* Every reachable state satisfies SyncInv, the type invariant included.
THEOREM SyncInvariant == Spec => []SyncInv
<1> QED BY SyncInit, SyncStepKeeps, PTL DEF Spec

\* A staple is sent only where it can be next, or is already known, whatever
\* happened since the heads were read (sync_account).
THEOREM NeverAheadHolds == Spec => []NeverAhead
<1>1. SyncInv => NeverAhead
  <2> SUFFICES ASSUME SyncInv, NEW c \in Callers, NEW i \in todo[c]
               PROVE  Upto(A(c), staple[c]) <= Height(RepOrder[i], A(c)) + 1
    BY DEF NeverAhead, Upto
  <2>1. /\ CallsTyped /\ HeadsBelow(c) /\ AllRead(c) /\ StapleNext(c)
        /\ applied \in [Reps -> SUBSET (1..Len(Staples))]
    BY SyncSplit DEF CallInv
  <2>2. pc[c] = "publish" /\ Len(heads[c]) = Len(RepOrder) /\ i \in 1..Len(RepOrder)
    BY <2>1 DEF StapleNext, AllRead, CallsTyped
  <2>3. Upto(A(c), staple[c]) <= heads[c][i] + 1 /\ heads[c][i] <= Height(RepOrder[i], A(c))
    BY <2>1, <2>2 DEF StapleNext, HeadsBelow
  <2>4. Upto(A(c), staple[c]) \in Nat /\ heads[c][i] \in Nat
    <3>1. staple[c] \in Nat /\ heads[c] \in Seq(Nat)
      BY <2>1, ConstantsTyped DEF CallsTyped
    <3>2. heads[c][i] \in Nat
      BY <2>2, <3>1
    <3>3. \A a : \A n \in Nat : Upto(a, n) \in Nat
      BY UptoSteps
    <3> QED BY <3>1, <3>2, <3>3
  <2>5. Height(RepOrder[i], A(c)) \in Nat
    <3>1. RepOrder[i] \in Reps
      BY <2>2, ConstantsTyped
    <3>2. applied[RepOrder[i]] \subseteq 1..Len(Staples)
      BY <2>1, <3>1
    <3> QED BY <3>2, CountGrows DEF Height, Count
  <2> QED BY <2>3, <2>4, <2>5
<1> QED BY <1>1, SyncInvariant, PTL
=============================================================================
