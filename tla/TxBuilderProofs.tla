-------------------------- MODULE TxBuilderProofs --------------------------
(***************************************************************************)
(* The transaction builder, for any accounts, groups and operations and    *)
(* any moves of the heads.                                                 *)
(*                                                                         *)
(* The blocks of a call chain because a group follows the last block made  *)
(* for its account (ChainInv). The builder renders a group operation by    *)
(* operation. What holds of a rendered group is shown by induction along   *)
(* that fold (FoldFacts): its creations are numbered as its block derives  *)
(* them and fill different handles (Rendered), and its buckets spend what  *)
(* the operations ask for (SpendInv). A session keeps what follows for the *)
(* groups a call has done (TxInv, SumInv); a group that waits has only     *)
(* handles nobody filled yet.                                              *)
(***************************************************************************)
EXTENDS Local, OrderFacts

-----------------------------------------------------------------------------
(* The blocks of one call of build.                                        *)

\* Each block follows the last one before it of the same account.
Chained(made) ==
  \A i, j \in DOMAIN made :
    (/\ i < j /\ made[i].data.account = made[j].data.account
     /\ \A k \in (i + 1)..(j - 1) : made[k].data.account # made[i].data.account)
      => made[j].data.previous = made[i].hash

ChainInv ==
  /\ DOMAIN build = DOMAIN Building!Idle
  /\ \E S : build.made \in Seq(S)
  /\ Chained(build.made)

\* A group follows the last block made for its account, if there is one
\* (previous_by_account).
LEMMA PreviousIsLast ==
  ASSUME NEW S, build.made \in Seq(S), NEW g, NEW i \in DOMAIN build.made,
         build.made[i].data.account = g.account,
         \A k \in (i + 1)..Len(build.made) : build.made[k].data.account # g.account
  PROVE  Building!PreviousFor(g) = build.made[i].hash
<1> DEFINE own == {k \in DOMAIN build.made : build.made[k].data.account = g.account}
<1>1. DOMAIN build.made = 1..Len(build.made) /\ Len(build.made) \in Nat
  OBVIOUS
<1>2. i \in own /\ own \in SUBSET Nat /\ \A k \in own : i >= k
  BY <1>1
<1>3. Building!Max(own) = CHOOSE x \in own : \A y \in own : x >= y
  BY DEF Building!Max
<1>4. own # {} => Building!PreviousFor(g) = build.made[Building!Max(own)].hash
  BY DEF Building!PreviousFor
<1> HIDE DEF own
<1>5. Building!Max(own) \in own /\ \A y \in own : Building!Max(own) >= y
  BY <1>2, <1>3
<1>6. Building!Max(own) = i
  BY <1>2, <1>5
<1> QED BY <1>2, <1>4, <1>6

\* A block that follows it keeps the chains.
LEMMA ChainGrows ==
  ASSUME NEW S, build.made \in Seq(S), Chained(build.made), NEW g, NEW e,
         e.data.account = g.account, e.data.previous = Building!PreviousFor(g)
  PROVE  /\ Chained(Append(build.made, e))
         /\ Append(build.made, e) \in Seq(S \cup {e})
<1> DEFINE n == Len(build.made)
           more == Append(build.made, e)
<1>1. /\ n \in Nat /\ DOMAIN build.made = 1..n /\ DOMAIN more = 1..(n + 1)
      /\ \A k \in 1..n : more[k] = build.made[k]
      /\ more[n + 1] = e
  OBVIOUS
<1>2. more \in Seq(S \cup {e})
  OBVIOUS
<1> HIDE DEF more, n
<1>3. ASSUME NEW i \in DOMAIN more, NEW j \in DOMAIN more, i < j,
             more[i].data.account = more[j].data.account,
             \A k \in (i + 1)..(j - 1) : more[k].data.account # more[i].data.account
      PROVE  more[j].data.previous = more[i].hash
  <2>1. i \in 1..n /\ i \in DOMAIN build.made /\ more[i] = build.made[i]
    BY <1>1, <1>3
  <2>2. CASE j # n + 1
    <3>1. j \in DOMAIN build.made /\ more[j] = build.made[j]
      BY <1>1, <2>2
    <3>2. \A k \in (i + 1)..(j - 1) : build.made[k].data.account # build.made[i].data.account
      BY <1>1, <1>3, <2>1, <3>1
    <3> QED BY <1>3, <2>1, <3>1, <3>2 DEF Chained
  <2>3. CASE j = n + 1
    <3>1. more[j] = e /\ build.made[i].data.account = g.account
      BY <1>1, <1>3, <2>1, <2>3
    <3>2. \A k \in (i + 1)..n : build.made[k].data.account # g.account
      BY <1>1, <1>3, <2>1, <2>3, <3>1
    <3>3. Building!PreviousFor(g) = build.made[i].hash
      BY <2>1, <3>1, <3>2, PreviousIsLast DEF n
    <3> QED BY <2>1, <3>1, <3>3
  <2> QED BY <2>2, <2>3
<1>4. Chained(more)
  BY <1>3 DEF Chained
<1> QED BY <1>2, <1>4 DEF more

\* A call of build that keeps its blocks keeps the chains.
LEMMA SameBlocks ==
  ASSUME ChainInv, DOMAIN build' = DOMAIN build, build'.made = build.made
  PROVE  ChainInv'
<1>1. PICK S : build.made \in Seq(S)
  BY DEF ChainInv
<1>2. \E T : build'.made \in Seq(T)
  BY <1>1
<1> QED BY <1>2 DEF ChainInv, Chained

\* Every step of a session with the builder keeps them.
LEMMA ChainStep == ASSUME ChainInv, [Building!Next]_(Building!vars) PROVE ChainInv'
<1>0. DOMAIN build = {"phase", "all", "todo", "made", "rendered", "count"}
  BY DEF ChainInv, Building!Idle
<1>1. CASE build' = build
  BY <1>1, SameBlocks
<1>2. CASE Building!Build
  <2>1. /\ DOMAIN build' = DOMAIN Building!Idle /\ build'.made = << >>
    BY <1>2 DEF Building!Build, Building!Idle
  <2>2. Chained(<< >>) /\ << >> \in Seq({})
    BY DEF Chained
  <2> QED BY <2>1, <2>2 DEF ChainInv, Chained
<1>3. CASE Building!BuildGroup
  <2> DEFINE g == Head(build.todo)
             previous == Building!PreviousFor(g)
             ops == Building!IntoOperations(Building!RenderOps(g, previous))
             data == Building!BlockOf(g, previous, ops)
             e == [hash |-> hashes + 1, data |-> data]
             rest == [build EXCEPT !.todo = Tail(build.todo)]
  <2>1. \/ build' = rest
        \/ build' = [rest EXCEPT !.made = Append(rest.made, e), !.rendered = <<data>>]
        \/ \E last : build' = [build EXCEPT !.phase = "failed", !.rendered = last]
    BY <1>3 DEF Building!BuildGroup
  <2>2. e.data.account = g.account /\ e.data.previous = Building!PreviousFor(g)
    BY DEF Building!BlockOf
  <2> HIDE DEF g, e, data
  <2>3. DOMAIN rest = DOMAIN build /\ rest.made = build.made
    BY <1>0
  <2> HIDE DEF rest
  <2>4. CASE build' = rest
    BY <2>3, <2>4, SameBlocks
  <2>5. CASE build' = [rest EXCEPT !.made = Append(rest.made, e), !.rendered = <<data>>]
    <3>1. DOMAIN build' = DOMAIN build /\ build'.made = Append(build.made, e)
      BY <1>0, <2>3, <2>5
    <3>2. PICK S : build.made \in Seq(S)
      BY DEF ChainInv
    <3>3. Chained(build.made)
      BY DEF ChainInv
    <3>4. Chained(Append(build.made, e)) /\ Append(build.made, e) \in Seq(S \cup {e})
      BY <2>2, <3>2, <3>3, ChainGrows
    <3>5. PICK more : more = Append(build.made, e)
      OBVIOUS
    <3>6. build'.made = more /\ Chained(more) /\ \E T : more \in Seq(T)
      BY <3>1, <3>4, <3>5
    <3> QED BY <3>1, <3>6 DEF ChainInv, Chained
  <2>6. ASSUME NEW last, build' = [build EXCEPT !.phase = "failed", !.rendered = last]
        PROVE  ChainInv'
    <3>1. DOMAIN build' = DOMAIN build /\ build'.made = build.made
      BY <1>0, <2>6
    <3> QED BY <3>1, SameBlocks
  <2> QED BY <2>1, <2>4, <2>5, <2>6
<1>4. CASE Building!BuildInterrupted \/ Building!BuildReturns
  <2>1. DOMAIN build' = DOMAIN build /\ build'.made = build.made
    BY <1>0, <1>4 DEF Building!BuildInterrupted, Building!BuildReturns
  <2> QED BY <2>1, SameBlocks
<1> QED BY <1>1, <1>2, <1>3, <1>4
    DEF Building!Next, Building!vars, Building!ForAccount, Building!Push, Building!Stage,
        Building!SetInfo, Building!GenerateIdentifier, Building!WithPrevious, Building!HeadMoves

\* The steps of the other parts leave the builder alone.
LEMMA OnlyBuilding == [LocalNext]_localVars => [Building!Next]_(Building!vars)
<1>1. UNCHANGED buildVars <=> UNCHANGED Building!vars
  BY DEF buildVars, Building!vars
<1> QED BY <1>1 DEF localVars, LocalNext, HostSteps, SealSteps, BuildSteps, AccountSteps

\* The blocks one call of build makes for an account follow each other without
\* a gap or a fork, for any groups and operations and however the network moves
\* the heads while it runs (previous_by_account, first_previous).
THEOREM BlocksChainHolds == LocalSpec => []BlocksChain
<1>1. LocalInit => ChainInv
  <2> SUFFICES ASSUME LocalInit PROVE ChainInv
    OBVIOUS
  <2>1. build = Building!Idle
    BY DEF LocalInit, Building!Init
  <2>2. build.made = << >> /\ << >> \in Seq({})
    BY <2>1 DEF Building!Idle
  <2>3. Chained(<< >>)
    BY DEF Chained
  <2> QED BY <2>1, <2>2, <2>3 DEF ChainInv
<1>2. ChainInv /\ [LocalNext]_localVars => ChainInv'
  BY ChainStep, OnlyBuilding
<1>3. ChainInv => BlocksChain
  BY DEF ChainInv, Chained, BlocksChain, Building!BlocksChain
<1> QED BY <1>1, <1>2, <1>3, PTL DEF LocalSpec

-----------------------------------------------------------------------------
(* Sequences strung together.                                              *)

\* FlattenSeq takes one sequence after the other.
LEMMA FlattenUnrolls ==
  ASSUME NEW S, NEW seqs \in Seq(S), Len(seqs) >= 1
  PROVE  \E t : /\ t[1] = seqs[1]
                /\ \A i \in 2..Len(seqs) : t[i] = t[i - 1] \o seqs[i]
                /\ Building!FlattenSeq(seqs) = t[Len(seqs)]
<1> DEFINE n == Len(seqs)
           F(m, g) == [i \in 1..m |-> IF i = 1 THEN seqs[i] ELSE g[i - 1] \o seqs[i]]
           Some(m) == \E g : g = F(m, g)
           M == {m \in Nat : Some(m)}
<1>1. 0 \in M
  <2>1. << >> = F(0, << >>)
    OBVIOUS
  <2> QED BY <2>1
<1>2. ASSUME NEW m \in M PROVE m + 1 \in M
  <2>1. PICK g : g = F(m, g)
    OBVIOUS
  <2> DEFINE h == [i \in 1..(m + 1) |-> IF i \in 1..m THEN g[i]
                                        ELSE IF i = 1 THEN seqs[i] ELSE g[i - 1] \o seqs[i]]
  <2>2. ASSUME NEW i \in 1..(m + 1)
        PROVE  h[i] = IF i = 1 THEN seqs[i] ELSE h[i - 1] \o seqs[i]
    <3>1. CASE i \in 1..m
      <4>1. h[i] = g[i]
        BY <3>1
      <4>2. g[i] = IF i = 1 THEN seqs[i] ELSE g[i - 1] \o seqs[i]
        BY <2>1, <3>1
      <4>3. i # 1 => i - 1 \in 1..m /\ i - 1 \in 1..(m + 1)
        BY <3>1
      <4>4. i # 1 => h[i - 1] = g[i - 1]
        BY <4>3
      <4> QED BY <4>1, <4>2, <4>4
    <3>2. CASE i \notin 1..m
      <4>1. h[i] = IF i = 1 THEN seqs[i] ELSE g[i - 1] \o seqs[i]
        BY <3>2
      <4>2. i # 1 => i - 1 \in 1..m /\ i - 1 \in 1..(m + 1)
        BY <3>2
      <4>3. i # 1 => h[i - 1] = g[i - 1]
        BY <4>2
      <4> QED BY <4>1, <4>3
    <3> QED BY <3>1, <3>2
  <2>3. h = F(m + 1, h)
    BY <2>2
  <2>4. Some(m + 1)
    BY <2>3
  <2> HIDE DEF Some
  <2> QED BY <2>4
<1>3. M = Nat
  <2> HIDE DEF M
  <2>1. M \in SUBSET Nat
    BY DEF M
  <2> QED BY <1>1, <1>2, <2>1, NatInductionSet
<1>4. n \in Nat /\ n # 0
  OBVIOUS
<1>5. PICK k : k = F(n, k)
  BY <1>3, <1>4
<1> DEFINE t == CHOOSE g : g = F(n, g)
<1>6. t = F(n, t)
  BY <1>5
<1>7. Building!FlattenSeq(seqs) = t[n]
  BY <1>4 DEF Building!FlattenSeq
<1> HIDE DEF t
<1>8. t[1] = seqs[1]
  BY <1>4, <1>6
<1>9. ASSUME NEW i \in 2..n PROVE t[i] = t[i - 1] \o seqs[i]
  <2>1. i \in 1..n /\ i # 1
    BY <1>4
  <2> QED BY <1>6, <2>1
<1> QED BY <1>7, <1>8, <1>9

\* What is strung together begins with the first sequence and goes on with
\* entries of the others.
LEMMA FlattenFacts ==
  ASSUME NEW X, NEW seqs \in Seq(Seq(X)), Len(seqs) >= 1
  PROVE  /\ Building!FlattenSeq(seqs) \in Seq(X)
         /\ Len(seqs[1]) <= Len(Building!FlattenSeq(seqs))
         /\ \A k \in 1..Len(seqs[1]) : Building!FlattenSeq(seqs)[k] = seqs[1][k]
         /\ \A k \in (Len(seqs[1]) + 1)..Len(Building!FlattenSeq(seqs)) :
              \E i \in 2..Len(seqs) : \E j \in DOMAIN seqs[i] :
                Building!FlattenSeq(seqs)[k] = seqs[i][j]
<1> DEFINE n == Len(seqs)
           first == seqs[1]
<1>1. PICK t : /\ t[1] = first
               /\ \A i \in 2..n : t[i] = t[i - 1] \o seqs[i]
               /\ Building!FlattenSeq(seqs) = t[n]
  BY FlattenUnrolls
<1> DEFINE Fine(m) == /\ t[m] \in Seq(X) /\ Len(first) <= Len(t[m])
                      /\ \A k \in 1..Len(first) : t[m][k] = first[k]
                      /\ \A k \in (Len(first) + 1)..Len(t[m]) :
                           \E i \in 2..n : \E j \in DOMAIN seqs[i] : t[m][k] = seqs[i][j]
           M == {m \in Nat : m + 1 <= n => Fine(m + 1)}
<1>2. n \in Nat /\ first \in Seq(X) /\ n >= 1 /\ \A i \in 1..n : seqs[i] \in Seq(X)
  OBVIOUS
<1>3. 0 \in M
  <2>1. Fine(1)
    BY <1>1, <1>2
  <2> HIDE DEF Fine
  <2> QED BY <2>1
<1>4. ASSUME NEW m \in M PROVE m + 1 \in M
  <2> SUFFICES ASSUME m + 2 <= n PROVE Fine(m + 2)
    <3> HIDE DEF Fine
    <3>1. (m + 1) + 1 = m + 2
      OBVIOUS
    <3> QED BY <3>1
  <2>1. m \in Nat /\ Fine(m + 1)
    <3> HIDE DEF Fine
    <3> QED BY <1>2
  <2>2. PICK a, b : a = t[m + 1] /\ b = seqs[m + 2]
    OBVIOUS
  <2> DEFINE Later(s) == \A k \in (Len(first) + 1)..Len(s) :
                           \E i \in 2..n : \E j \in DOMAIN seqs[i] : s[k] = seqs[i][j]
  <2>10. /\ a \in Seq(X) /\ Len(first) <= Len(a)
        /\ \A k \in 1..Len(first) : a[k] = first[k]
    BY <2>1, <2>2
  <2>11. Later(a)
    BY <2>1, <2>2
  <2>3. t[m + 2] = a \o b
    <3>1. m + 2 \in 2..n /\ (m + 2) - 1 = m + 1
      BY <1>2, <2>1
    <3> QED BY <1>1, <2>2, <3>1
  <2>4. a \in Seq(X) /\ b \in Seq(X) /\ m + 2 \in 2..n
    BY <1>2, <2>1, <2>2
  <2>5. /\ a \o b \in Seq(X) /\ Len(a \o b) = Len(a) + Len(b)
        /\ \A k \in 1..Len(a) : (a \o b)[k] = a[k]
        /\ \A k \in (Len(a) + 1)..(Len(a) + Len(b)) :
             (a \o b)[k] = b[k - Len(a)] /\ k - Len(a) \in DOMAIN b
        /\ Len(a) \in Nat /\ Len(b) \in Nat
    BY <2>4
  <2>6. PICK ab : ab = a \o b
    OBVIOUS
  <2>7. ASSUME NEW k \in (Len(first) + 1)..Len(ab)
        PROVE  \E i \in 2..n : \E j \in DOMAIN seqs[i] : ab[k] = seqs[i][j]
    <3>1. CASE k <= Len(a)
      <4>1. k \in (Len(first) + 1)..Len(a) /\ ab[k] = a[k]
        BY <1>2, <2>5, <2>6, <3>1
      <4>2. \E i \in 2..n : \E j \in DOMAIN seqs[i] : a[k] = seqs[i][j]
        BY <2>11, <4>1
      <4> QED BY <4>1, <4>2
    <3>2. CASE k > Len(a)
      <4>1. ab[k] = b[k - Len(a)] /\ k - Len(a) \in DOMAIN b
        BY <1>2, <2>5, <2>6, <3>2, SMTT(30)
      <4> QED BY <2>2, <2>4, <4>1
    <3> QED BY <1>2, <2>5, <3>1, <3>2
  <2>8. /\ ab \in Seq(X) /\ Len(first) <= Len(ab)
        /\ \A k \in 1..Len(first) : ab[k] = first[k]
    BY <1>2, <2>10, <2>5, <2>6
  <2>9. t[m + 2] = ab
    BY <2>3, <2>6
  <2> QED BY <2>7, <2>8, <2>9
<1>5. M = Nat
  <2> HIDE DEF M
  <2>1. M \in SUBSET Nat
    BY DEF M
  <2> QED BY <1>3, <1>4, <2>1, NatInductionSet
<1>6. Fine(n)
  <2> HIDE DEF Fine
  <2>1. n - 1 \in Nat /\ (n - 1) + 1 = n
    BY <1>2
  <2>2. n - 1 \in M
    BY <1>5, <2>1
  <2>3. Fine((n - 1) + 1)
    BY <1>2, <2>2
  <2> QED BY <2>1, <2>3
<1>7. PICK q : q = Building!FlattenSeq(seqs) /\ q = t[n]
  BY <1>1
<1>8. /\ q \in Seq(X) /\ Len(seqs[1]) <= Len(q)
      /\ \A k \in 1..Len(seqs[1]) : q[k] = seqs[1][k]
      /\ \A k \in (Len(seqs[1]) + 1)..Len(q) :
           \E i \in 2..Len(seqs) : \E j \in DOMAIN seqs[i] : q[k] = seqs[i][j]
  <2> DEFINE Good(l) == /\ l \in Seq(X) /\ Len(first) <= Len(l)
                        /\ \A k \in 1..Len(first) : l[k] = first[k]
                        /\ \A k \in (Len(first) + 1)..Len(l) :
                             \E i \in 2..n : \E j \in DOMAIN seqs[i] : l[k] = seqs[i][j]
  <2>1. Good(t[n])
    BY <1>6, Zenon
  <2>2. Good(q)
    <3> HIDE DEF Good
    <3> QED BY <1>7, <2>1, Zenon
  <2> QED BY <2>2, Zenon
<1> QED BY <1>7, <1>8

-----------------------------------------------------------------------------
(* Rendering a group.                                                      *)

BucketSet == Building!ToSet(Building!Buckets)
StagedKinds ==
  {"send", "receive", "tokenAdminModifyBalance", "raw"} \cup DOMAIN Building!BucketOf

\* What may be staged: the creation of an identifier for a handle, or an
\* operation that creates none.
SendForm(op, n) ==
  /\ {"to", "token", "amount"} \subseteq DOMAIN op /\ op.amount \in Int
  /\ op.to.handle \in 0..n /\ op.token.handle \in 0..n
OpOk(op, n) ==
  \/ op.op = "createIdentifier" /\ op.handle \in 1..n
  \/ /\ "op" \in DOMAIN op /\ op.op \in StagedKinds
     /\ op.op = "raw" => op.of.op # "createIdentifier" /\ (op.of.op = "send" => op.of.amount \in Int)
     /\ op.op = "send" => SendForm(op, n)

\* Only the first bucket holds creations.
RShape(r) ==
  /\ DOMAIN r = {"ok", "cells", "buckets"} /\ DOMAIN r.buckets = BucketSet
  /\ \A b \in BucketSet : Listing(r.buckets[b])
  /\ \A b \in BucketSet \ {"creates"} : \A i \in DOMAIN r.buckets[b] :
       r.buckets[b][i].op # "createIdentifier"
  /\ \A i \in DOMAIN r.buckets["aggregated"] : "op" \in DOMAIN r.buckets["aggregated"][i]

\* The buckets, by position and by name.
LEMMA BucketNames ==
  /\ DOMAIN Building!Buckets = 1..11 /\ Building!Buckets[1] = "creates"
  /\ \A i \in 2..11 : Building!Buckets[i] \in BucketSet \ {"creates"}
  /\ {"creates", "external", "aggregated", "receives", "info", "setRep", "supply",
      "certificates", "balance", "permissions", "raw"} = BucketSet
<1> DEFINE B == <<"creates", "external", "aggregated", "receives", "info", "setRep", "supply",
                  "certificates", "balance", "permissions", "raw">>
<1>1. Building!Buckets = B
  BY DEF Building!Buckets
<1>2. /\ DOMAIN B = 1..11
      /\ B[1] = "creates" /\ B[2] = "external" /\ B[3] = "aggregated" /\ B[4] = "receives"
      /\ B[5] = "info" /\ B[6] = "setRep" /\ B[7] = "supply" /\ B[8] = "certificates"
      /\ B[9] = "balance" /\ B[10] = "permissions" /\ B[11] = "raw"
  OBVIOUS
<1>3. \A i \in 1..11 : i = 1 \/ i = 2 \/ i = 3 \/ i = 4 \/ i = 5 \/ i = 6 \/ i = 7
                       \/ i = 8 \/ i = 9 \/ i = 10 \/ i = 11
  OBVIOUS
<1> HIDE DEF B
<1>4. BucketSet = {B[i] : i \in 1..11}
  BY <1>1, <1>2 DEF BucketSet, Building!ToSet
<1>5. \A i \in 2..11 : B[i] \in BucketSet \ {"creates"}
  BY <1>2, <1>3, <1>4
<1>6. \A b \in BucketSet :
        b \in {"creates", "external", "aggregated", "receives", "info", "setRep", "supply",
               "certificates", "balance", "permissions", "raw"}
  BY <1>2, <1>3, <1>4
<1>7. \A b \in {"creates", "external", "aggregated", "receives", "info", "setRep", "supply",
               "certificates", "balance", "permissions", "raw"} : b \in BucketSet
  BY <1>2, <1>4
<1> QED BY <1>1, <1>2, <1>5, <1>6, <1>7

\* An operation put into a bucket of its own.
LEMMA IntoKeeps ==
  ASSUME NEW r, RShape(r), NEW b \in BucketSet \ {"creates", "aggregated"},
         NEW e, e.op # "createIdentifier"
  PROVE  LET s == Building!Into(r, b, e)
         IN  RShape(s) /\ s.cells = r.cells /\ s.ok = r.ok
             /\ s.buckets["creates"] = r.buckets["creates"]
<1> DEFINE s == Building!Into(r, b, e)
<1>1. s = [r EXCEPT !.buckets = [r.buckets EXCEPT ![b] = Append(r.buckets[b], e)]]
  BY DEF Building!Into
<1>2. "creates" \in BucketSet /\ "aggregated" \in BucketSet
  BY BucketNames
<1>3. /\ DOMAIN s = DOMAIN r /\ s.ok = r.ok /\ s.cells = r.cells
      /\ DOMAIN s.buckets = BucketSet
      /\ s.buckets[b] = Append(r.buckets[b], e)
      /\ \A a \in BucketSet \ {b} : s.buckets[a] = r.buckets[a]
  BY <1>1 DEF RShape
<1> HIDE DEF s
<1>4. PICK l : l = r.buckets[b]
  OBVIOUS
<1>5. /\ Listing(Append(l, e)) /\ DOMAIN Append(l, e) = 1..(Len(l) + 1) /\ DOMAIN l = 1..Len(l)
      /\ Len(l) \in Nat
      /\ \A i \in DOMAIN l : Append(l, e)[i] = l[i]
      /\ Append(l, e)[Len(l) + 1] = e
  BY <1>4, ListingAppend DEF RShape
<1>6. \A i \in DOMAIN l : l[i].op # "createIdentifier"
  BY <1>4 DEF RShape
<1>7. PICK m : m = Append(l, e)
  OBVIOUS
<1>8. Listing(m) /\ \A i \in DOMAIN m : m[i].op # "createIdentifier"
  BY <1>5, <1>6, <1>7
<1>9. s.buckets[b] = m
  BY <1>3, <1>4, <1>7
<1>10. RShape(s)
  BY <1>2, <1>3, <1>8, <1>9 DEF RShape
<1> QED BY <1>2, <1>3, <1>10 DEF s

\* A send joins the sums.
LEMMA AddKeeps ==
  ASSUME NEW sums, Listing(sums), NEW send, "op" \in DOMAIN send, send.op = "send",
         \A i \in DOMAIN sums : "op" \in DOMAIN sums[i] /\ sums[i].op # "createIdentifier"
  PROVE  LET more == Building!AddedSend(sums, send)
         IN  /\ Listing(more)
             /\ \A i \in DOMAIN more : "op" \in DOMAIN more[i] /\ more[i].op # "createIdentifier"
<1> DEFINE same(s) == s.to = send.to /\ s.token = send.token
           changed == [i \in DOMAIN sums |->
                         IF same(sums[i]) THEN [sums[i] EXCEPT !.amount = @ + send.amount] ELSE sums[i]]
<1>1. Len(sums) \in Nat /\ DOMAIN sums = 1..Len(sums)
  BY ListingIs DEF Listing
<1>2. CASE \E i \in DOMAIN sums : same(sums[i])
  <2>1. Building!AddedSend(sums, send) = changed
    BY <1>2 DEF Building!AddedSend
  <2>2. DOMAIN changed = 1..Len(sums) /\ changed = [i \in 1..Len(sums) |-> changed[i]]
    BY <1>1
  <2>3. Listing(changed)
    <3> HIDE DEF changed
    <3> QED BY <1>1, <2>2, ListingMade
  <2>4. ASSUME NEW i \in DOMAIN sums
        PROVE  "op" \in DOMAIN changed[i] /\ changed[i].op # "createIdentifier"
    <3>1. CASE same(sums[i])
      <4>1. changed[i] = [sums[i] EXCEPT !.amount = sums[i].amount + send.amount]
        BY <3>1
      <4>2. "op" \in DOMAIN sums[i] /\ sums[i].op # "createIdentifier" /\ "op" # "amount"
        OBVIOUS
      <4> HIDE DEF changed
      <4> QED BY <4>1, <4>2
    <3>2. CASE ~same(sums[i])
      BY <3>2
    <3> QED BY <3>1, <3>2
  <2> QED BY <2>1, <2>3, <2>4
<1>3. CASE ~\E i \in DOMAIN sums : same(sums[i])
  <2>1. Building!AddedSend(sums, send) = Append(sums, send)
    BY <1>3 DEF Building!AddedSend
  <2>2. PICK more : more = Append(sums, send)
    OBVIOUS
  <2>3. Listing(more) /\ \A i \in DOMAIN more : (i \in DOMAIN sums /\ more[i] = sums[i]) \/ more[i] = send
    BY <2>2, ListingAppend
  <2> QED BY <2>1, <2>2, <2>3
<1> QED BY <1>2, <1>3

\* An error leaves what was rendered.
LEMMA ErrorKeeps ==
  ASSUME NEW r, RShape(r)
  PROVE  LET s == [r EXCEPT !.ok = FALSE]
         IN  RShape(s) /\ s.cells = r.cells /\ s.ok = FALSE /\ s.buckets = r.buckets
<1> DEFINE s == [r EXCEPT !.ok = FALSE]
<1>1. DOMAIN s = DOMAIN r /\ s.cells = r.cells /\ s.ok = FALSE /\ s.buckets = r.buckets
  BY DEF RShape
<1> HIDE DEF s
<1>2. RShape(s)
  BY <1>1 DEF RShape
<1> QED BY <1>1, <1>2 DEF s

\* Any operation but a creation leaves the creations and the handles alone.
LEMMA RenderOther ==
  ASSUME NEW g, NEW previous, NEW r, RShape(r), NEW n, NEW op, OpOk(op, n),
         op.op # "createIdentifier"
  PROVE  LET s == Building!Render(g, previous, r, op)
         IN  /\ RShape(s) /\ s.cells = r.cells /\ (s.ok => r.ok)
             /\ s.buckets["creates"] = r.buckets["creates"]
<1> DEFINE s == Building!Render(g, previous, r, op)
           Kept(x) == /\ RShape(x) /\ x.cells = r.cells /\ (x.ok => r.ok)
                      /\ x.buckets["creates"] = r.buckets["creates"]
<1> SUFFICES Kept(s)
  OBVIOUS
<1>0. "op" \in DOMAIN op /\ op.op \in StagedKinds /\ (op.op = "raw" => op.of.op # "createIdentifier")
  BY DEF OpOk
<1>1. Kept(r) /\ Kept([r EXCEPT !.ok = FALSE])
  BY ErrorKeeps
<1>2. ASSUME NEW b \in BucketSet \ {"creates", "aggregated"}, NEW e, e.op # "createIdentifier"
      PROVE  Kept(Building!Into(r, b, e))
  BY <1>2, IntoKeeps
<1>3. CASE ~r.ok
  BY <1>1, <1>3 DEF Building!Render
<1> HIDE DEF s
<1>4. CASE r.ok /\ op.op = "send"
  <2> DEFINE send == [op EXCEPT !.to = Building!Resolve(@, r.cells),
                                !.token = Building!Resolve(@, r.cells)]
             sums == r.buckets["aggregated"]
             added == [r EXCEPT !.buckets["aggregated"] = Building!AddedSend(sums, send)]
  <2>1. s \in {r, [r EXCEPT !.ok = FALSE], Building!Into(r, "external", send), added}
    BY <1>4 DEF s, Building!Render, Building!PushSend
  <2>2. "op" \in DOMAIN send /\ send.op = "send"
    BY <1>0, <1>4
  <2> HIDE DEF send
  <2>3. "external" \in BucketSet \ {"creates", "aggregated"}
    BY BucketNames
  <2>4. Kept(Building!Into(r, "external", send))
    BY <1>2, <2>2, <2>3
  <2>5. "aggregated" \in BucketSet /\ "creates" \in BucketSet
    BY BucketNames
  <2>6. PICK more : more = Building!AddedSend(sums, send)
    OBVIOUS
  <2>7. /\ Listing(more)
        /\ \A i \in DOMAIN more : "op" \in DOMAIN more[i] /\ more[i].op # "createIdentifier"
    <3>1. /\ Listing(sums)
          /\ \A i \in DOMAIN sums : "op" \in DOMAIN sums[i] /\ sums[i].op # "createIdentifier"
      BY <2>5 DEF RShape
    <3> QED BY <2>2, <2>6, <3>1, AddKeeps
  <2>8. /\ DOMAIN added = DOMAIN r /\ added.ok = r.ok /\ added.cells = r.cells
        /\ DOMAIN added.buckets = BucketSet
        /\ added.buckets["aggregated"] = more
        /\ \A a \in BucketSet \ {"aggregated"} : added.buckets[a] = r.buckets[a]
    BY <2>5, <2>6 DEF RShape
  <2> HIDE DEF added
  <2>9. RShape(added)
    BY <2>5, <2>7, <2>8 DEF RShape
  <2>10. Kept(added)
    BY <2>5, <2>8, <2>9
  <2> HIDE DEF Kept
  <2> QED BY <1>1, <2>1, <2>4, <2>10
<1>5. CASE r.ok /\ op.op = "receive"
  <2> DEFINE e == [op EXCEPT !.from = Building!Resolve(@, r.cells),
                             !.token = Building!Resolve(@, r.cells),
                             !.forward = Building!Resolve(@, r.cells)]
  <2>1. s \in {r, [r EXCEPT !.ok = FALSE], Building!Into(r, "receives", e)}
    BY <1>5 DEF s, Building!Render, Building!PushReceive
  <2>2. e.op # "createIdentifier"
    BY <1>0, <1>5
  <2>3. "receives" \in BucketSet \ {"creates", "aggregated"}
    BY BucketNames
  <2> HIDE DEF Kept, e
  <2> QED BY <1>1, <1>2, <2>1, <2>2, <2>3
<1>6. CASE r.ok /\ op.op = "tokenAdminModifyBalance"
  <2> DEFINE e == [op EXCEPT !.token = Building!Resolve(@, r.cells)]
  <2>1. s \in {[r EXCEPT !.ok = FALSE], Building!Into(r, "balance", e)}
    BY <1>6 DEF s, Building!Render, Building!PushBalance
  <2>2. e.op # "createIdentifier"
    BY <1>0, <1>6
  <2>3. "balance" \in BucketSet \ {"creates", "aggregated"}
    BY BucketNames
  <2> HIDE DEF Kept, e
  <2> QED BY <1>1, <1>2, <2>1, <2>2, <2>3
<1>7. CASE r.ok /\ op.op = "raw"
  <2>1. s = Building!Into(r, "raw", op.of)
    BY <1>7 DEF s, Building!Render
  <2>2. "raw" \in BucketSet \ {"creates", "aggregated"}
    BY BucketNames
  <2> HIDE DEF Kept
  <2> QED BY <1>0, <1>2, <1>7, <2>1, <2>2
<1>8. CASE r.ok /\ op.op \in DOMAIN Building!BucketOf
  <2>1. op.op \notin {"createIdentifier", "send", "receive", "tokenAdminModifyBalance", "raw"}
    BY <1>8 DEF Building!BucketOf
  <2>2. s = Building!Into(r, Building!BucketOf[op.op], op)
    BY <1>8, <2>1 DEF s, Building!Render
  <2>3. Building!BucketOf[op.op] \in {"info", "setRep", "supply", "certificates", "permissions"}
    BY <1>8 DEF Building!BucketOf
  <2>4. Building!BucketOf[op.op] \in BucketSet \ {"creates", "aggregated"}
    BY <2>3, BucketNames
  <2> HIDE DEF Kept
  <2> QED BY <1>2, <2>2, <2>4
<1> QED BY <1>0, <1>3, <1>4, <1>5, <1>6, <1>7, <1>8 DEF StagedKinds

\* What an identifier that is derived tells of its block.
LEMMA DeriveIs ==
  ASSUME NEW a, NEW type, NEW previous, NEW index, NEW id,
         id = Building!Derive(a, type, previous, index), id # Building!NoAccount
  PROVE  id.type = type /\ id.of = a.of /\ id.at = previous /\ id.index = index
BY DEF Building!Derive

\* The creations of a group, among its first n operations.
CreatesOf(g, n) == {j \in 1..n : g.ops[j].op = "createIdentifier"}

\* The creations rendered are derived by their position (push_create).
DerivedAt(g, previous, creates) ==
  \A i \in DOMAIN creates :
    /\ creates[i].op = "createIdentifier" /\ creates[i].identifier # Building!NoAccount
    /\ \E type : creates[i].identifier = Building!Derive(g.account, type, previous, i - 1)

\* The handles of a group are its own, and empty.
FreshOps(g, cells) ==
  /\ \A j \in CreatesOf(g, Len(g.ops)) :
       g.ops[j].handle \in DOMAIN cells /\ cells[g.ops[j].handle] = Building!NoAccount
  /\ \A j, k \in CreatesOf(g, Len(g.ops)) : g.ops[j].handle = g.ops[k].handle => j = k

\* render_ops, for the group c[1], its previous hash c[2] and the handles c[3].
Plain(f) == f = [x \in DOMAIN f |-> f[x]]
RenderStep(c, r, op) == Building!Render(c[1], c[2], r, op)
Rendered(c, n, r) ==
  LET g == c[1]
      creates == r.buckets["creates"]
  IN /\ RShape(r) /\ DerivedAt(g, c[2], creates)
     /\ DOMAIN r.cells = DOMAIN c[3] /\ Plain(r.cells)
     /\ \A h \in DOMAIN c[3] :
          (\A j \in CreatesOf(g, n) : g.ops[j].handle # h) => r.cells[h] = c[3][h]
     /\ r.ok => \A j \in CreatesOf(g, n) :
                  /\ \E i \in DOMAIN creates : creates[i].identifier = r.cells[g.ops[j].handle]
                  /\ \A k \in CreatesOf(g, n) :
                       j < k => r.cells[g.ops[j].handle].index < r.cells[g.ops[k].handle].index
RenderFold == INSTANCE FoldFacts WITH Step <- RenderStep, Inv <- Rendered

\* push_create fails, or fills an empty handle with the identifier it puts last.
Created(g, previous, r, op, s) ==
  LET creates == r.buckets["creates"]
      more == s.buckets["creates"]
      id == Building!Derive(g.account, op.type, previous, Len(creates))
  IN  /\ RShape(s)
      /\ \/ ~s.ok /\ s.cells = r.cells /\ s.buckets = r.buckets
         \/ /\ s.ok /\ id # Building!NoAccount
            /\ s.cells = [r.cells EXCEPT ![op.handle] = id]
            /\ \A b \in BucketSet \ {"creates"} : s.buckets[b] = r.buckets[b]
            /\ Len(creates) \in Nat /\ DOMAIN creates = 1..Len(creates)
            /\ DOMAIN more = 1..(Len(creates) + 1)
            /\ \A i \in DOMAIN creates : more[i] = creates[i]
            /\ more[Len(creates) + 1].op = "createIdentifier"
            /\ more[Len(creates) + 1].identifier = id

\* push_create fills its handle with the identifier of the next position.
LEMMA RenderCreate ==
  ASSUME NEW g, NEW previous, NEW r, RShape(r), r.ok, NEW op, op.op = "createIdentifier",
         op.handle \in DOMAIN r.cells, r.cells[op.handle] = Building!NoAccount,
         NEW s, s = Building!Render(g, previous, r, op)
  PROVE  Created(g, previous, r, op, s)
<1> DEFINE creates == r.buckets["creates"]
           id == Building!Derive(g.account, op.type, previous, Len(creates))
           e == [op |-> "createIdentifier", identifier |-> id, arguments |-> FALSE,
                 signers |-> << >>, quorum |-> 0]
           fill == [r EXCEPT !.cells[op.handle] = id]
<1>1. s = IF id = Building!NoAccount THEN [r EXCEPT !.ok = FALSE] ELSE Building!Into(fill, "creates", e)
  <2>1. s = Building!PushCreate(g, previous, r, op)
    BY DEF Building!Render
  <2>2. [r EXCEPT !.cells[op.handle] = IF r.cells[op.handle] = Building!NoAccount THEN id
                                       ELSE r.cells[op.handle]] = fill
    OBVIOUS
  <2> QED BY <2>1, <2>2 DEF Building!PushCreate, Building!CreateIndex
<1>2. CASE id = Building!NoAccount
  BY <1>1, <1>2, ErrorKeeps DEF Created
<1>3. CASE id # Building!NoAccount
  <2>1. "creates" \in BucketSet /\ "aggregated" \in BucketSet
    BY BucketNames
  <2>2. /\ DOMAIN fill = DOMAIN r /\ fill.ok = r.ok /\ fill.buckets = r.buckets
        /\ fill.cells = [r.cells EXCEPT ![op.handle] = id]
    BY DEF RShape
  <2>3. s = [fill EXCEPT !.buckets = [fill.buckets EXCEPT !["creates"] = Append(fill.buckets["creates"], e)]]
    BY <1>1, <1>3 DEF Building!Into
  <2>4. e.op = "createIdentifier" /\ e.identifier = id
    OBVIOUS
  <2> HIDE DEF fill, e
  <2>5. /\ DOMAIN s = DOMAIN r /\ s.ok = r.ok /\ DOMAIN s.buckets = BucketSet
        /\ s.cells = [r.cells EXCEPT ![op.handle] = id]
        /\ s.buckets["creates"] = Append(creates, e)
        /\ \A b \in BucketSet \ {"creates"} : s.buckets[b] = r.buckets[b]
    <3>1. DOMAIN r = {"ok", "cells", "buckets"} /\ DOMAIN r.buckets = BucketSet
      BY DEF RShape
    <3>2. PICK more : more = [r.buckets EXCEPT !["creates"] = Append(creates, e)]
      OBVIOUS
    <3>3. DOMAIN more = BucketSet /\ more["creates"] = Append(creates, e)
          /\ \A b \in BucketSet \ {"creates"} : more[b] = r.buckets[b]
      BY <2>1, <3>1, <3>2
    <3>4. s = [fill EXCEPT !.buckets = more]
      BY <2>2, <2>3, <3>2
    <3> QED BY <2>2, <3>1, <3>3, <3>4
  <2>6. Listing(creates)
    BY <2>1 DEF RShape
  <2>7. PICK more : more = Append(creates, e)
    OBVIOUS
  <2>8. /\ Listing(more) /\ DOMAIN more = 1..(Len(creates) + 1)
        /\ Len(creates) \in Nat /\ DOMAIN creates = 1..Len(creates)
        /\ \A i \in DOMAIN creates : more[i] = creates[i]
        /\ more[Len(creates) + 1] = e
    BY <2>6, <2>7, ListingAppend
  <2>9. s.buckets["creates"] = more
    BY <2>5, <2>7
  <2> HIDE DEF creates, id
  <2>10. RShape(s)
    BY <2>1, <2>5, <2>8, <2>9 DEF RShape
  <2> QED BY <1>3, <2>4, <2>5, <2>8, <2>9, <2>10 DEF creates, id, Created
<1> QED BY <1>2, <1>3

\* One more operation is rendered as the ones before it.
LEMMA RenderedStep ==
  ASSUME NEW g, NEW previous, NEW cells, NEW size, FreshOps(g, cells), NEW n \in Nat,
         n + 1 <= Len(g.ops), Len(g.ops) \in Nat,
         OpOk(g.ops[n + 1], size), NEW r, Rendered(<<g, previous, cells>>, n, r)
  PROVE  Rendered(<<g, previous, cells>>, n + 1, RenderStep(<<g, previous, cells>>, r, g.ops[n + 1]))
<1> DEFINE op == g.ops[n + 1]
           creates == r.buckets["creates"]
           id == Building!Derive(g.account, op.type, previous, Len(creates))
           at(j) == g.ops[j].handle
<1> SUFFICES ASSUME NEW s, s = Building!Render(g, previous, r, op)
             PROVE  Rendered(<<g, previous, cells>>, n + 1, s)
  BY DEF RenderStep
<1>1. /\ RShape(r) /\ DerivedAt(g, previous, creates) /\ DOMAIN r.cells = DOMAIN cells
      /\ Plain(r.cells)
      /\ \A h \in DOMAIN cells : (\A j \in CreatesOf(g, n) : at(j) # h) => r.cells[h] = cells[h]
  BY DEF Rendered
<1>2. r.ok => \A j \in CreatesOf(g, n) :
                /\ \E i \in DOMAIN creates : creates[i].identifier = r.cells[at(j)]
                /\ \A k \in CreatesOf(g, n) : j < k => r.cells[at(j)].index < r.cells[at(k)].index
  BY DEF Rendered
<1>3. CASE op.op # "createIdentifier"
  <2>1. CreatesOf(g, n + 1) = CreatesOf(g, n)
    BY <1>3 DEF CreatesOf
  <2>2. /\ RShape(s) /\ s.cells = r.cells /\ (s.ok => r.ok) /\ s.buckets["creates"] = creates
    BY <1>1, <1>3, RenderOther
  <2> HIDE DEF creates
  <2> QED BY <1>1, <1>2, <2>1, <2>2 DEF Rendered
<1>4. CASE op.op = "createIdentifier"
  <2>1. CreatesOf(g, n + 1) = CreatesOf(g, n) \cup {n + 1} /\ n + 1 \notin CreatesOf(g, n)
    BY <1>4 DEF CreatesOf
  <2>2. CreatesOf(g, n + 1) \subseteq CreatesOf(g, Len(g.ops))
    BY DEF CreatesOf
  <2>3. /\ at(n + 1) \in DOMAIN cells /\ cells[at(n + 1)] = Building!NoAccount
        /\ \A j \in CreatesOf(g, n) : at(j) # at(n + 1)
    BY <2>1, <2>2 DEF FreshOps
  <2>4. r.cells[at(n + 1)] = Building!NoAccount
    BY <1>1, <2>3
  <2>5. CASE RShape(s) /\ ~s.ok /\ s.cells = r.cells /\ s.buckets = r.buckets
    BY <1>1, <2>1, <2>5 DEF Rendered
  <2>6. CASE /\ RShape(s) /\ s.ok /\ r.ok /\ id # Building!NoAccount
             /\ s.cells = [r.cells EXCEPT ![at(n + 1)] = id]
             /\ DOMAIN s.buckets["creates"] = 1..(Len(creates) + 1)
             /\ Len(creates) \in Nat /\ DOMAIN creates = 1..Len(creates)
             /\ \A i \in DOMAIN creates : s.buckets["creates"][i] = creates[i]
             /\ s.buckets["creates"][Len(creates) + 1].op = "createIdentifier"
             /\ s.buckets["creates"][Len(creates) + 1].identifier = id
    <3>1. PICK more : more = s.buckets["creates"]
      OBVIOUS
    <3>2. /\ DOMAIN more = 1..(Len(creates) + 1)
          /\ \A i \in DOMAIN creates : more[i] = creates[i]
          /\ more[Len(creates) + 1].op = "createIdentifier"
          /\ more[Len(creates) + 1].identifier = id
          /\ Len(creates) \in Nat /\ DOMAIN creates = 1..Len(creates)
      BY <2>6, <3>1
    <3>3. id.index = Len(creates)
      BY <2>6, DeriveIs
    <3>4. DerivedAt(g, previous, more)
      <4> SUFFICES ASSUME NEW i \in DOMAIN more
                   PROVE  /\ more[i].op = "createIdentifier" /\ more[i].identifier # Building!NoAccount
                          /\ \E type : more[i].identifier = Building!Derive(g.account, type, previous, i - 1)
        BY DEF DerivedAt
      <4>1. CASE i \in DOMAIN creates
        BY <1>1, <3>2, <4>1 DEF DerivedAt
      <4>2. CASE i = Len(creates) + 1
        <5>1. i - 1 = Len(creates)
          BY <3>2, <4>2
        <5> QED BY <2>6, <3>2, <4>2, <5>1
      <4> QED BY <3>2, <4>1, <4>2
    <3>5. /\ DOMAIN s.cells = DOMAIN cells /\ s.cells[at(n + 1)] = id
          /\ \A h \in DOMAIN cells : h # at(n + 1) => s.cells[h] = r.cells[h]
      BY <1>1, <2>3, <2>6, SMTT(30)
    <3>6. \A j \in CreatesOf(g, n) : at(j) \in DOMAIN cells /\ s.cells[at(j)] = r.cells[at(j)]
      BY <2>1, <2>2, <2>3, <3>5 DEF FreshOps
    <3>7. \A h \in DOMAIN cells : (\A j \in CreatesOf(g, n + 1) : at(j) # h) => s.cells[h] = cells[h]
      BY <1>1, <2>1, <3>5
    <3>8. \A j \in CreatesOf(g, n) : \E i \in DOMAIN creates :
             creates[i].identifier = r.cells[at(j)] /\ r.cells[at(j)].index = i - 1
      <4> SUFFICES ASSUME NEW j \in CreatesOf(g, n)
                   PROVE  \E i \in DOMAIN creates :
                            creates[i].identifier = r.cells[at(j)] /\ r.cells[at(j)].index = i - 1
        OBVIOUS
      <4>1. PICK i \in DOMAIN creates : creates[i].identifier = r.cells[at(j)]
        BY <1>2, <2>6
      <4>2. creates[i].identifier.index = i - 1
        BY <1>1, DeriveIs DEF DerivedAt
      <4> QED BY <4>1, <4>2
    <3>9. ASSUME NEW j \in CreatesOf(g, n + 1)
          PROVE  \E i \in DOMAIN more : more[i].identifier = s.cells[at(j)]
      <4>1. CASE j = n + 1
        BY <3>2, <3>5, <4>1
      <4>2. CASE j \in CreatesOf(g, n)
        <5>1. PICK i \in DOMAIN creates : creates[i].identifier = r.cells[at(j)]
          BY <3>8, <4>2
        <5> QED BY <3>2, <3>6, <4>2, <5>1
      <4> QED BY <2>1, <4>1, <4>2
    <3>10. ASSUME NEW j \in CreatesOf(g, n + 1), NEW k \in CreatesOf(g, n + 1), j < k
           PROVE  s.cells[at(j)].index < s.cells[at(k)].index
      <4>1. j \in CreatesOf(g, n)
        BY <2>1, <3>10 DEF CreatesOf
      <4>2. CASE k = n + 1
        <5>1. PICK i \in DOMAIN creates : r.cells[at(j)].index = i - 1
          BY <3>8, <4>1
        <5>2. s.cells[at(j)].index = i - 1 /\ s.cells[at(k)].index = Len(creates)
          BY <3>3, <3>5, <3>6, <4>1, <4>2, <5>1
        <5> QED BY <3>2, <5>2
      <4>3. CASE k \in CreatesOf(g, n)
        BY <1>2, <2>6, <3>6, <3>10, <4>1, <4>3
      <4> QED BY <2>1, <4>2, <4>3
    <3>11. Plain(s.cells)
      BY <2>6 DEF Plain
    <3> HIDE DEF creates, id
    <3>12. RShape(s)
      BY <2>6
    <3> QED BY <3>1, <3>11, <3>12, <3>4, <3>5, <3>7, <3>9, <3>10 DEF Rendered
  <2>7. CASE ~r.ok
    <3>1. s = r
      BY <2>7 DEF Building!Render
    <3> QED BY <1>1, <2>1, <2>7, <3>1 DEF Rendered
  <2>8. ASSUME r.ok PROVE Created(g, previous, r, op, s)
    <3>1. op.handle \in DOMAIN r.cells /\ r.cells[op.handle] = Building!NoAccount
      BY <1>1, <2>3, <2>4
    <3> HIDE DEF op
    <3> QED BY <1>1, <1>4, <2>8, <3>1, RenderCreate
  <2> QED BY <2>5, <2>6, <2>7, <2>8 DEF Created
<1> QED BY <1>3, <1>4

\* What render_ops makes of a group.
LEMMA RenderOpsIs ==
  ASSUME NEW g, NEW previous, FreshOps(g, handles), Listing(handles), Listing(g.ops), NEW size,
         \A i \in DOMAIN g.ops : OpOk(g.ops[i], size)
  PROVE  Rendered(<<g, previous, handles>>, Len(g.ops), Building!RenderOps(g, previous))
<1> DEFINE c == <<g, previous, handles>>
           base == Building!NothingRendered(handles)
<1>1. Building!RenderOps(g, previous) = RenderFold!Fold(c, base, g.ops)
  BY DEF Building!RenderOps, Building!FoldLeft, Building!MapThenFoldSet, Building!Max,
         RenderFold!Fold, RenderFold!FoldLeft, RenderFold!MapThenFoldSet, RenderFold!Max, RenderStep
<1>2. Len(g.ops) \in Nat /\ DOMAIN g.ops = 1..Len(g.ops)
  BY ListingIs DEF Listing
<1>3. Rendered(c, 0, base)
  <2>1. "creates" \in BucketSet /\ "aggregated" \in BucketSet
    BY BucketNames
  <2>2. /\ DOMAIN base = {"ok", "cells", "buckets"} /\ base.cells = handles
        /\ base.buckets = [b \in BucketSet |-> << >>]
    BY DEF Building!NothingRendered, BucketSet
  <2>3. Listing(<< >>) /\ DOMAIN << >> = {}
    BY DEF Listing
  <2> HIDE DEF base
  <2>4. CreatesOf(g, 0) = {}
    BY DEF CreatesOf
  <2>5. RShape(base)
    BY <2>1, <2>2, <2>3 DEF RShape
  <2>6. DerivedAt(g, previous, base.buckets["creates"])
    BY <2>1, <2>2, <2>3 DEF DerivedAt
  <2>7. Plain(handles)
    BY DEF Listing, Plain
  <2> QED BY <2>2, <2>4, <2>5, <2>6, <2>7 DEF Rendered
<1>4. ASSUME NEW i \in 1..Len(g.ops), NEW r, Rendered(c, i - 1, r)
      PROVE  Rendered(c, i, RenderStep(c, r, g.ops[i]))
  <2>1. i - 1 \in Nat /\ (i - 1) + 1 = i /\ i <= Len(g.ops)
    BY <1>2
  <2>2. OpOk(g.ops[i], size)
    BY <1>2
  <2> HIDE DEF c
  <2> QED BY <1>2, <1>4, <2>1, <2>2, RenderedStep DEF c
<1> HIDE DEF c, base
<1>5. Rendered(c, Len(g.ops), RenderFold!Fold(c, base, g.ops))
  BY <1>3, <1>4, RenderFold!FoldKeeps DEF Listing
<1> QED BY <1>1, <1>5 DEF c

-----------------------------------------------------------------------------
(* The operations of a block.                                              *)

\* into_operations keeps the sums c that are not zero.
KeepStep(c, kept, s) == IF s.amount # 0 THEN Append(kept, s) ELSE kept
KeptFrom(c, n, kept) ==
  Listing(kept) /\ \A i \in DOMAIN kept : \E j \in DOMAIN c : kept[i] = c[j]
KeepFold == INSTANCE FoldFacts WITH Step <- KeepStep, Inv <- KeptFrom

\* What is left of the sums are some of them.
LEMMA NonZeroKeeps ==
  ASSUME NEW sums, Listing(sums)
  PROVE  /\ Listing(Building!NonZero(sums))
         /\ \A i \in DOMAIN Building!NonZero(sums) :
              \E j \in DOMAIN sums : Building!NonZero(sums)[i] = sums[j]
<1>1. Building!NonZero(sums) = KeepFold!Fold(sums, << >>, sums)
  BY DEF Building!NonZero, Building!FoldLeft, Building!MapThenFoldSet, Building!Max,
         KeepFold!Fold, KeepFold!FoldLeft, KeepFold!MapThenFoldSet, KeepFold!Max, KeepStep
<1>2. KeptFrom(sums, 0, << >>)
  BY DEF KeptFrom, Listing
<1>3. DOMAIN sums = 1..Len(sums)
  BY ListingIs DEF Listing
<1>4. ASSUME NEW i \in 1..Len(sums), NEW kept, KeptFrom(sums, i - 1, kept)
      PROVE  KeptFrom(sums, i, KeepStep(sums, kept, sums[i]))
  <2>1. CASE sums[i].amount = 0
    BY <1>4, <2>1 DEF KeptFrom, KeepStep
  <2>2. CASE sums[i].amount # 0
    <3>1. PICK more : more = Append(kept, sums[i])
      OBVIOUS
    <3>2. Listing(kept) /\ \A k \in DOMAIN kept : \E j \in DOMAIN sums : kept[k] = sums[j]
      BY <1>4 DEF KeptFrom
    <3>3. /\ Listing(more) /\ DOMAIN more = 1..(Len(kept) + 1) /\ Len(kept) \in Nat
          /\ DOMAIN kept = 1..Len(kept)
          /\ \A k \in DOMAIN kept : more[k] = kept[k]
          /\ more[Len(kept) + 1] = sums[i]
      BY <3>1, <3>2, ListingAppend
    <3>4. \A k \in DOMAIN more : k \in DOMAIN kept \/ k = Len(kept) + 1
      BY <3>3
    <3>5. \A k \in DOMAIN more : \E j \in DOMAIN sums : more[k] = sums[j]
      BY <1>3, <3>2, <3>3, <3>4
    <3> QED BY <2>2, <3>1, <3>3, <3>5 DEF KeptFrom, KeepStep
  <2> QED BY <2>1, <2>2
<1>5. KeptFrom(sums, Len(sums), KeepFold!Fold(sums, << >>, sums))
  <2>1. sums \in Seq({sums[i] : i \in DOMAIN sums})
    BY DEF Listing
  <2> QED BY <1>2, <1>4, <2>1, KeepFold!FoldKeeps
<1> QED BY <1>1, <1>5 DEF KeptFrom

\* The operations of a block begin with its creations, and there are no others.
LEMMA IntoFits ==
  ASSUME NEW r, RShape(r)
  PROVE  LET ops == Building!IntoOperations(r)
             creates == r.buckets["creates"]
         IN  /\ Listing(ops)
             /\ \A i \in DOMAIN creates : i \in DOMAIN ops /\ ops[i] = creates[i]
             /\ \A i \in DOMAIN ops : ops[i].op = "createIdentifier" => i \in DOMAIN creates
<1> DEFINE creates == r.buckets["creates"]
           seqs == [i \in DOMAIN Building!Buckets |-> Building!Whole(r, Building!Buckets[i])]
           X == UNION {{seqs[i][j] : j \in DOMAIN seqs[i]} : i \in 1..11}
           ops == Building!FlattenSeq(seqs)
<1>1. DOMAIN seqs = 1..11 /\ seqs[1] = creates
  BY BucketNames DEF Building!Whole
<1>2. Building!IntoOperations(r) = ops
  BY DEF Building!IntoOperations
<1>3. ASSUME NEW i \in 1..11
      PROVE  /\ Listing(seqs[i])
             /\ i # 1 => \A j \in DOMAIN seqs[i] : seqs[i][j].op # "createIdentifier"
  <2>1. PICK b \in BucketSet : b = Building!Buckets[i] /\ (i # 1 => b # "creates")
    <3>1. CASE i = 1
      BY <3>1, BucketNames
    <3>2. CASE i \in 2..11
      BY <3>2, BucketNames
    <3> QED BY <3>1, <3>2
  <2>2. seqs[i] = Building!Whole(r, b)
    BY <1>1, <2>1
  <2> HIDE DEF seqs
  <2>3. Listing(r.buckets[b]) /\ (i # 1 => \A j \in DOMAIN r.buckets[b] : r.buckets[b][j].op # "createIdentifier")
    BY <2>1 DEF RShape
  <2>4. CASE b = "aggregated"
    <3>1. seqs[i] = Building!NonZero(r.buckets[b])
      BY <2>2, <2>4 DEF Building!Whole
    <3> QED BY <2>3, <3>1, NonZeroKeeps
  <2>5. CASE b # "aggregated"
    BY <2>2, <2>3, <2>5 DEF Building!Whole
  <2> QED BY <2>4, <2>5
<1>4. seqs = [i \in 1..11 |-> seqs[i]]
  BY <1>1
<1> HIDE DEF seqs
<1>5. \A i \in 1..11 : seqs[i] \in Seq(X)
  <2> SUFFICES ASSUME NEW i \in 1..11 PROVE seqs[i] \in Seq(X)
    OBVIOUS
  <2>1. \A j \in DOMAIN seqs[i] : seqs[i][j] \in X
    OBVIOUS
  <2> HIDE DEF X
  <2> QED BY <1>3, <2>1, ListingIn
<1> HIDE DEF X
<1>6. seqs \in Seq(Seq(X)) /\ Len(seqs) = 11
  BY <1>4, <1>5
<1>7. /\ ops \in Seq(X) /\ Len(creates) <= Len(ops)
      /\ \A k \in 1..Len(creates) : ops[k] = creates[k]
      /\ \A k \in (Len(creates) + 1)..Len(ops) :
           \E i \in 2..11 : \E j \in DOMAIN seqs[i] : ops[k] = seqs[i][j]
  <2>1. Len(seqs) >= 1
    BY <1>6
  <2>2. /\ ops \in Seq(X) /\ Len(seqs[1]) <= Len(ops)
        /\ \A k \in 1..Len(seqs[1]) : ops[k] = seqs[1][k]
        /\ \A k \in (Len(seqs[1]) + 1)..Len(ops) :
             \E i \in 2..Len(seqs) : \E j \in DOMAIN seqs[i] : ops[k] = seqs[i][j]
    BY <1>6, <2>1, FlattenFacts
  <2> HIDE DEF ops, creates
  <2>3. seqs[1] = creates
    BY <1>1 DEF creates
  <2> QED BY <1>6, <2>2, <2>3
<1> HIDE DEF ops
<1>8. creates \in Seq(X) /\ DOMAIN creates = 1..Len(creates) /\ Len(creates) \in Nat
  <2> HIDE DEF creates
  <2>1. seqs[1] \in Seq(X)
    BY <1>5
  <2>2. creates \in Seq(X)
    BY <1>1, <2>1
  <2> QED BY <2>2
<1>9. DOMAIN ops = 1..Len(ops) /\ Len(ops) \in Nat /\ Listing(ops)
  BY <1>7, ListingIs
<1> HIDE DEF creates
<1>10. \A i \in DOMAIN creates : i \in DOMAIN ops /\ ops[i] = creates[i]
  BY <1>7, <1>8, <1>9
<1>11. ASSUME NEW i \in DOMAIN ops, ops[i].op = "createIdentifier" PROVE i \in DOMAIN creates
  <2>1. CASE i \in (Len(creates) + 1)..Len(ops)
    <3>1. PICK k \in 2..11 : \E j \in DOMAIN seqs[k] : ops[i] = seqs[k][j]
      BY <1>7, <2>1
    <3>2. k \in 1..11 /\ k # 1
      OBVIOUS
    <3> QED BY <1>3, <1>11, <3>1, <3>2
  <2> QED BY <1>8, <1>9, <2>1
<1> QED BY <1>2, <1>9, <1>10, <1>11 DEF creates

\* The creations of a block fit its validation.
Fits(data) ==
  \A i \in Building!Creates(data) :
    data.ops[i].identifier
      = Building!Derive(data.account, data.ops[i].identifier.type, data.previous, i - 1)

\* The creations of a rendered group are where its block derives them.
LEMMA BlockFits ==
  ASSUME NEW g, NEW previous, NEW r, RShape(r), DerivedAt(g, previous, r.buckets["creates"]),
         NEW data, data = Building!BlockOf(g, previous, Building!IntoOperations(r))
  PROVE  Fits(data)
<1>1. data.ops = Building!IntoOperations(r) /\ data.account = g.account /\ data.previous = previous
  BY DEF Building!BlockOf
<1> SUFFICES ASSUME NEW i \in DOMAIN data.ops, data.ops[i].op = "createIdentifier"
             PROVE  data.ops[i].identifier
                      = Building!Derive(g.account, data.ops[i].identifier.type, previous, i - 1)
  BY <1>1 DEF Fits, Building!Creates
<1> DEFINE creates == r.buckets["creates"]
<1>2. i \in DOMAIN creates /\ data.ops[i] = creates[i]
  BY <1>1, IntoFits
<1>3. PICK type : /\ creates[i].identifier = Building!Derive(g.account, type, previous, i - 1)
                  /\ creates[i].identifier # Building!NoAccount
  BY <1>2 DEF DerivedAt
<1>4. creates[i].identifier.type = type
  BY <1>3, DeriveIs
<1> QED BY <1>2, <1>3, <1>4

-----------------------------------------------------------------------------
(* What a session with the builder keeps.                                  *)

CreatesIn(g) == CreatesOf(g, Len(g.ops))

GroupOk(g, n) ==
  /\ DOMAIN g = {"account", "signer", "ops"} /\ g.account \in Building!Ledger
  /\ Listing(g.ops) /\ \A i \in DOMAIN g.ops : OpOk(g.ops[i], n)
GroupsOk(gs, n) == Listing(gs) /\ \A i \in DOMAIN gs : GroupOk(gs[i], n)

\* The groups that are still to be rendered, by this call or a later one.
Held(b, c) == IF b.phase = "running" THEN b.todo ELSE Append(c.groups, c.current)

\* Every creation has a handle of its own, which is empty.
Unfilled(gs, cells) ==
  /\ \A i \in DOMAIN gs : \A j \in CreatesIn(gs[i]) :
       cells[gs[i].ops[j].handle] = Building!NoAccount
  /\ \A i, k \in DOMAIN gs : \A j \in CreatesIn(gs[i]), l \in CreatesIn(gs[k]) :
       gs[i].ops[j].handle = gs[k].ops[l].handle => i = k /\ j = l

BuilderInv ==
  /\ DOMAIN builder = {"groups", "current", "seed"} /\ Listing(handles)
  /\ GroupsOk(builder.groups, Len(handles)) /\ GroupOk(builder.current, Len(handles))
  /\ build.phase = "running" => builder.groups = << >> /\ builder.current.ops = << >>
  /\ Unfilled(Held(build, builder), handles)

CallInv ==
  /\ DOMAIN build = {"phase", "all", "todo", "made", "rendered", "count"}
  /\ build.phase \in {"idle", "running", "ok", "failed"}
  /\ GroupsOk(build.all, Len(handles)) /\ GroupsOk(build.todo, Len(handles))
  /\ Len(build.todo) <= Len(build.all)
  /\ \A i \in DOMAIN build.todo : build.todo[i] = build.all[(Len(build.all) - Len(build.todo)) + i]
  /\ build.phase = "ok" => build.todo = << >>
  /\ build.phase = "failed" => failedBuild
  /\ build.rendered # << >> => Fits(build.rendered[1])

\* Hashes are told apart, and a block is newer than the one it follows.
HashInv ==
  /\ hashes \in Nat /\ heads \in [Building!Ledger -> 0..hashes]
  /\ builder.seed = Building!Unset \/ builder.seed \in 0..hashes
  /\ Listing(build.made)
  /\ \A m \in DOMAIN build.made :
       LET b == build.made[m]
       IN  /\ b.hash \in 0..hashes /\ b.data.previous \in Nat /\ b.data.previous < b.hash
           /\ b.data.account \in Building!Ledger /\ Building!Valid(b.data)
           /\ \A l \in DOMAIN build.made : m < l => b.hash < build.made[l].hash
  /\ \A b \in sealed : b.hash \in 0..hashes

\* The handles of the groups this call rendered are filled, each with an
\* identifier of its own that a block creates.
MadeIn(id, blocks) ==
  \E b \in blocks : \E i \in Building!Creates(b.data) : b.data.ops[i].identifier = id
HandlesOf(g) == {g.ops[j].handle : j \in CreatesIn(g)}
DoneHandles(b) == UNION {HandlesOf(b.all[i]) : i \in 1..(Len(b.all) - Len(b.todo))}
FilledInv ==
  /\ build.phase \in {"running", "ok"} =>
       \A h \in DoneHandles(build) :
         /\ MadeIn(handles[h], Building!ToSet(build.made))
         /\ \A k \in DoneHandles(build) : handles[h] = handles[k] => h = k
  /\ ~failedBuild =>
       \A h \in DOMAIN handles : handles[h] # Building!NoAccount =>
         MadeIn(handles[h], sealed \cup IF build.phase = "running" THEN Building!ToSet(build.made) ELSE {})

TxInv == BuilderInv /\ CallInv /\ HashInv /\ FilledInv

\* A group without operations creates nothing.
LEMMA EmptyGroup ==
  ASSUME NEW g, g.ops = << >>
  PROVE  CreatesIn(g) = {}
BY DEF CreatesIn, CreatesOf

\* Nothing is held once the groups are taken.
LEMMA NothingHeld ==
  ASSUME NEW c, c.groups = << >>, c.current.ops = << >>, NEW cells
  PROVE  Unfilled(Append(c.groups, c.current), cells)
<1>1. Append(c.groups, c.current) = <<c.current>>
  OBVIOUS
<1>2. DOMAIN <<c.current>> = {1} /\ <<c.current>>[1] = c.current
  OBVIOUS
<1>3. CreatesIn(c.current) = {}
  BY EmptyGroup
<1> QED BY <1>1, <1>2, <1>3 DEF Unfilled

\* Groups that keep their places and their creations stay fresh.
LEMMA FreshSame ==
  ASSUME NEW gs, NEW hs, NEW cells, Unfilled(gs, cells), NEW more,
         \A i \in DOMAIN hs : \A j \in CreatesIn(hs[i]) :
           /\ i \in DOMAIN gs /\ j \in CreatesIn(gs[i])
           /\ hs[i].ops[j].handle = gs[i].ops[j].handle
           /\ more[hs[i].ops[j].handle] = cells[hs[i].ops[j].handle]
  PROVE  Unfilled(hs, more)
BY DEF Unfilled

\* More handles keep what is staged.
LEMMA GroupsWiden ==
  ASSUME NEW n \in Nat, NEW m \in Nat, n <= m
  PROVE  /\ \A g : GroupOk(g, n) => GroupOk(g, m)
         /\ \A gs : GroupsOk(gs, n) => GroupsOk(gs, m)
<1>1. \A op : OpOk(op, n) => OpOk(op, m)
  BY DEF OpOk, SendForm
<1>2. \A g : GroupOk(g, n) => GroupOk(g, m)
  BY <1>1 DEF GroupOk
<1> QED BY <1>2 DEF GroupsOk

\* What of the groups held is kept when the current one is left.
KeptWithin(kept, held, n) ==
  /\ GroupsOk(kept, n) /\ DOMAIN kept \subseteq DOMAIN held
  /\ \A i \in DOMAIN kept : kept[i] = held[i]
  /\ Len(kept) \in Nat /\ DOMAIN kept = 1..Len(kept)

\* switch: an empty group is not kept.
LEMMA KeptHolds ==
  ASSUME NEW groups, NEW g, NEW n, GroupsOk(groups, n), GroupOk(g, n),
         NEW kept, kept = Building!Kept(groups, g), NEW held, held = Append(groups, g)
  PROVE  KeptWithin(kept, held, n)
<1>1. /\ Listing(Append(groups, g)) /\ Len(groups) \in Nat /\ DOMAIN groups = 1..Len(groups)
      /\ Len(Append(groups, g)) = Len(groups) + 1
      /\ DOMAIN Append(groups, g) = 1..(Len(groups) + 1)
      /\ \A i \in DOMAIN groups : Append(groups, g)[i] = groups[i]
      /\ Append(groups, g)[Len(groups) + 1] = g
  BY ListingAppend DEF GroupsOk
<1>2. \A i \in DOMAIN held : GroupOk(held[i], n)
  BY <1>1 DEF GroupsOk
<1>3. kept \in {groups, held}
  BY DEF Building!Kept
<1>4. GroupsOk(held, n)
  BY <1>1, <1>2 DEF GroupsOk
<1>5. CASE kept = groups
  BY <1>1, <1>5 DEF KeptWithin
<1>6. CASE kept = held
  BY <1>1, <1>4, <1>6 DEF KeptWithin
<1> QED BY <1>3, <1>5, <1>6

\* What a session begins with.
LEMMA TxInit == Building!Init => TxInv
<1> SUFFICES ASSUME Building!Init PROVE TxInv
  OBVIOUS
<1>1. /\ builder.groups = << >> /\ builder.current = Building!Group(Primary, Signer)
      /\ builder.seed = Building!Unset /\ DOMAIN builder = {"groups", "current", "seed"}
      /\ handles = << >> /\ heads = [a \in Building!Ledger |-> 0] /\ hashes = 0 /\ sealed = {}
      /\ failedBuild = FALSE
  BY DEF Building!Init
<1>2. /\ DOMAIN build = {"phase", "all", "todo", "made", "rendered", "count"}
      /\ build.phase = "idle" /\ build.all = << >> /\ build.todo = << >> /\ build.made = << >>
      /\ build.rendered = << >>
  BY DEF Building!Init, Building!Idle
<1>3. Listing(<< >>) /\ Len(<< >>) = 0 /\ DOMAIN << >> = {}
  BY DEF Listing
<1>4. GroupsOk(<< >>, 0)
  BY <1>3 DEF GroupsOk
<1>5. builder.current.ops = << >> /\ GroupOk(builder.current, 0)
  BY <1>1, <1>3 DEF GroupOk, Building!Group, Building!Ledger
<1>6. Unfilled(Held(build, builder), handles)
  BY <1>1, <1>2, <1>5, NothingHeld DEF Held
<1>7. BuilderInv
  BY <1>1, <1>2, <1>3, <1>4, <1>5, <1>6 DEF BuilderInv
<1>8. CallInv
  BY <1>1, <1>2, <1>3, <1>4 DEF CallInv
<1>9. HashInv
  BY <1>1, <1>2, <1>3 DEF HashInv
<1>10. FilledInv
  BY <1>1, <1>2, <1>3 DEF FilledInv
<1> QED BY <1>7, <1>8, <1>9, <1>10 DEF TxInv

\* The handles of the groups done are among those handed out.
LEMMA DoneAreHanded ==
  ASSUME CallInv, Listing(handles)
  PROVE  DoneHandles(build) \subseteq DOMAIN handles
<1> SUFFICES ASSUME NEW h \in DoneHandles(build) PROVE h \in DOMAIN handles
  OBVIOUS
<1>0. PICK i \in 1..(Len(build.all) - Len(build.todo)) : h \in HandlesOf(build.all[i])
  BY DEF DoneHandles
<1>5. PICK j \in CreatesIn(build.all[i]) : h = build.all[i].ops[j].handle
  BY <1>0 DEF HandlesOf
<1>1. /\ Len(build.all) \in Nat /\ DOMAIN build.all = 1..Len(build.all) /\ Len(build.todo) \in Nat
      /\ Len(handles) \in Nat /\ DOMAIN handles = 1..Len(handles)
  BY ListingIs DEF CallInv, GroupsOk, Listing
<1>2. GroupOk(build.all[i], Len(handles))
  BY <1>1 DEF CallInv, GroupsOk
<1>3. DOMAIN build.all[i].ops = 1..Len(build.all[i].ops)
  BY <1>2, ListingIs DEF GroupOk, Listing
<1>4. /\ OpOk(build.all[i].ops[j], Len(handles)) /\ build.all[i].ops[j].op = "createIdentifier"
  BY <1>2, <1>3 DEF GroupOk, CreatesIn, CreatesOf
<1> QED BY <1>1, <1>4, <1>5 DEF OpOk, StagedKinds, Building!BucketOf

\* Staging keeps what the calls of build made.
LEMMA StagingKeeps ==
  ASSUME TxInv, build.phase # "running", UNCHANGED <<build, heads, hashes, sealed, failedBuild>>,
         DOMAIN builder' = {"groups", "current", "seed"},
         builder'.seed = builder.seed \/ builder'.seed \in 0..hashes,
         handles' = handles \/ handles' = Append(handles, Building!NoAccount),
         GroupsOk(builder'.groups, Len(handles')), GroupOk(builder'.current, Len(handles')),
         Unfilled(Append(builder'.groups, builder'.current), handles')
  PROVE  TxInv'
<1>1. Listing(handles) /\ Len(handles) \in Nat /\ DOMAIN handles = 1..Len(handles)
  BY ListingIs DEF TxInv, BuilderInv, Listing
<1>2. /\ Listing(handles') /\ Len(handles') \in Nat /\ Len(handles) <= Len(handles')
      /\ DOMAIN handles' = 1..Len(handles')
      /\ \A h \in DOMAIN handles : h \in DOMAIN handles' /\ handles'[h] = handles[h]
      /\ \A h \in DOMAIN handles' \ DOMAIN handles : handles'[h] = Building!NoAccount
  <2>1. CASE handles' = handles
    BY <1>1, <2>1
  <2>2. CASE handles' = Append(handles, Building!NoAccount)
    BY <1>1, <2>2, ListingAppend
  <2> QED BY <2>1, <2>2
<1>3. BuilderInv'
  BY <1>2 DEF BuilderInv, Held
<1>4. CallInv'
  <2>1. GroupsOk(build.all, Len(handles')) /\ GroupsOk(build.todo, Len(handles'))
    BY <1>1, <1>2, GroupsWiden DEF TxInv, CallInv
  <2> QED BY <2>1 DEF TxInv, CallInv
<1>5. HashInv'
  BY DEF TxInv, HashInv
<1>6. FilledInv'
  <2>1. CallInv /\ FilledInv
    BY DEF TxInv
  <2>2. DoneHandles(build) \subseteq DOMAIN handles
    BY <1>1, <2>1, DoneAreHanded
  <2>3. ASSUME build.phase = "ok", NEW h \in DoneHandles(build)
        PROVE  /\ MadeIn(handles'[h], Building!ToSet(build.made))
               /\ \A k \in DoneHandles(build) : handles'[h] = handles'[k] => h = k
    BY <1>2, <2>1, <2>2, <2>3 DEF FilledInv
  <2>4. ASSUME ~failedBuild, NEW h \in DOMAIN handles', handles'[h] # Building!NoAccount
        PROVE  MadeIn(handles'[h], sealed \cup {})
    <3>1. h \in DOMAIN handles /\ handles'[h] = handles[h]
      BY <1>2, <2>4
    <3> QED BY <2>1, <2>4, <3>1 DEF FilledInv
  <2> QED BY <2>3, <2>4 DEF FilledInv
<1> QED BY <1>3, <1>4, <1>5, <1>6 DEF TxInv

\* for_account_with_signer.
LEMMA SwitchKeeps ==
  ASSUME TxInv, NEW g \in Groups, Building!ForAccount(g[1], g[2])
  PROVE  TxInv'
<1>1. /\ build.phase # "running" /\ UNCHANGED <<handles, build, heads, hashes, sealed, failedBuild>>
      /\ builder' = [builder EXCEPT !.groups = Building!Kept(builder.groups, builder.current),
                                    !.current = Building!Group(g[1], g[2])]
  BY DEF Building!ForAccount, Building!Callable
<1> DEFINE n == Len(handles)
           new == Building!Group(g[1], g[2])
<1>0. PICK kept, held : /\ kept = Building!Kept(builder.groups, builder.current)
                        /\ held = Append(builder.groups, builder.current)
  OBVIOUS
<1>2. /\ DOMAIN builder = {"groups", "current", "seed"}
      /\ GroupsOk(builder.groups, n) /\ GroupOk(builder.current, n) /\ Unfilled(held, handles)
  BY <1>0, <1>1 DEF TxInv, BuilderInv, Held
<1>3. /\ DOMAIN builder' = {"groups", "current", "seed"} /\ builder'.groups = kept
      /\ builder'.current = new /\ builder'.seed = builder.seed
  BY <1>0, <1>1, <1>2
<1>4. /\ GroupsOk(kept, n) /\ DOMAIN kept \subseteq DOMAIN held
      /\ \A i \in DOMAIN kept : kept[i] = held[i]
  <2>1. KeptWithin(kept, held, n)
    BY <1>0, <1>2, KeptHolds
  <2> QED BY <2>1 DEF KeptWithin
<1>5. GroupOk(new, n) /\ new.ops = << >>
  <2>1. Listing(<< >>) /\ DOMAIN << >> = {}
    BY DEF Listing
  <2> QED BY <2>1 DEF GroupOk, Building!Group, Building!Ledger
<1> HIDE DEF new
<1>6. PICK after : after = Append(kept, new)
  OBVIOUS
<1>7. /\ DOMAIN after = 1..(Len(kept) + 1) /\ Len(kept) \in Nat /\ DOMAIN kept = 1..Len(kept)
      /\ \A i \in DOMAIN kept : after[i] = kept[i]
      /\ after[Len(kept) + 1] = new
  BY <1>4, <1>6, ListingAppend DEF GroupsOk
<1>8. Unfilled(after, handles)
  <2>1. ASSUME NEW i \in DOMAIN after, NEW j \in CreatesIn(after[i])
        PROVE  i \in DOMAIN held /\ after[i] = held[i]
    <3>1. i # Len(kept) + 1
      BY <1>5, <1>7, <2>1, EmptyGroup
    <3>2. i \in DOMAIN kept
      BY <1>7, <3>1
    <3> QED BY <1>4, <1>7, <3>2
  <2> QED BY <1>2, <2>1, FreshSame
<1>9. Unfilled(Append(builder'.groups, builder'.current), handles')
  BY <1>1, <1>3, <1>6, <1>8
<1>10. GroupsOk(builder'.groups, Len(handles')) /\ GroupOk(builder'.current, Len(handles'))
  BY <1>1, <1>3, <1>4, <1>5
<1> QED BY <1>1, <1>3, <1>9, <1>10, StagingKeeps

\* The group at hand with other operations.
LEMMA CurrentKeeps ==
  ASSUME TxInv, build.phase # "running", UNCHANGED <<build, heads, hashes, sealed, failedBuild>>,
         NEW ops, builder' = [builder EXCEPT !.current = [builder.current EXCEPT !.ops = ops]],
         handles' = handles \/ handles' = Append(handles, Building!NoAccount),
         Listing(ops), \A i \in DOMAIN ops : OpOk(ops[i], Len(handles')),
         \A j \in DOMAIN ops : ops[j].op = "createIdentifier" =>
           \/ /\ j \in DOMAIN builder.current.ops
              /\ builder.current.ops[j].op = "createIdentifier"
              /\ ops[j].handle = builder.current.ops[j].handle
           \/ /\ handles' = Append(handles, Building!NoAccount)
              /\ ops[j].handle = Len(handles) + 1 /\ j = Len(builder.current.ops) + 1
  PROVE  TxInv'
<1> DEFINE n == Len(handles)
           groups == builder.groups
           old == builder.current
           new == [builder.current EXCEPT !.ops = ops]
           held == Append(groups, old)
           after == Append(groups, new)
<1>1. /\ DOMAIN builder = {"groups", "current", "seed"} /\ Listing(handles)
      /\ GroupsOk(groups, n) /\ GroupOk(old, n) /\ Unfilled(held, handles)
  BY DEF TxInv, BuilderInv, Held
<1>2. /\ DOMAIN builder' = {"groups", "current", "seed"} /\ builder'.groups = groups
      /\ builder'.current = new /\ builder'.seed = builder.seed
  BY <1>1
<1>3. /\ DOMAIN new = {"account", "signer", "ops"} /\ new.account = old.account /\ new.ops = ops
  BY <1>1 DEF GroupOk
<1> HIDE DEF new
<1>4. /\ n \in Nat /\ DOMAIN handles = 1..n /\ Len(handles') \in Nat /\ n <= Len(handles')
      /\ \A h \in 1..n : handles'[h] = handles[h]
      /\ handles' # handles => handles'[n + 1] = Building!NoAccount
  <2>1. n \in Nat /\ DOMAIN handles = 1..n
    BY <1>1, ListingIs DEF Listing
  <2>2. CASE handles' = handles
    <3>1. Len(handles') = n
      BY <2>2
    <3> HIDE DEF n
    <3> QED BY <2>1, <2>2, <3>1
  <2>3. CASE handles' = Append(handles, Building!NoAccount)
    <3>1. /\ Len(handles') = n + 1 /\ handles'[n + 1] = Building!NoAccount
          /\ \A h \in DOMAIN handles : handles'[h] = handles[h]
      BY <1>1, <2>3, ListingAppend
    <3> HIDE DEF n
    <3> QED BY <2>1, <3>1
  <2> QED BY <2>2, <2>3
<1>5. GroupsOk(groups, Len(handles'))
  BY <1>1, <1>4, GroupsWiden
<1>6. GroupOk(new, Len(handles'))
  BY <1>1, <1>3 DEF GroupOk
<1>7. /\ Len(groups) \in Nat /\ DOMAIN groups = 1..Len(groups)
      /\ DOMAIN held = 1..(Len(groups) + 1) /\ DOMAIN after = 1..(Len(groups) + 1)
      /\ \A i \in DOMAIN groups : held[i] = groups[i] /\ after[i] = groups[i]
      /\ held[Len(groups) + 1] = old /\ after[Len(groups) + 1] = new
  BY <1>1, ListingAppend DEF GroupsOk
<1>8. /\ DOMAIN ops = 1..Len(ops) /\ DOMAIN old.ops = 1..Len(old.ops) /\ Len(ops) \in Nat
      /\ Len(old.ops) \in Nat
  BY <1>1, ListingIs DEF GroupOk, Listing
<1> HIDE DEF held, after
\* A creation held before, or the one that was just staged.
<1> DEFINE Old(i, j) == /\ i \in DOMAIN held /\ j \in CreatesIn(held[i])
                        /\ after[i].ops[j].handle = held[i].ops[j].handle
           Extra(i, j) == /\ i = Len(groups) + 1 /\ j = Len(old.ops) + 1
                          /\ after[i].ops[j].handle = n + 1
                          /\ handles' = Append(handles, Building!NoAccount)
<1>9. ASSUME NEW i \in DOMAIN after, NEW j \in CreatesIn(after[i]) PROVE Old(i, j) \/ Extra(i, j)
  <2>1. CASE i \in DOMAIN groups
    BY <1>7, <1>9, <2>1
  <2>2. CASE i = Len(groups) + 1
    <3>1. j \in DOMAIN ops /\ ops[j].op = "createIdentifier" /\ after[i].ops = ops /\ held[i] = old
      BY <1>3, <1>7, <1>8, <1>9, <2>2 DEF CreatesIn, CreatesOf
    <3>2. CASE /\ j \in DOMAIN old.ops /\ old.ops[j].op = "createIdentifier"
               /\ ops[j].handle = old.ops[j].handle
      BY <1>7, <1>8, <2>2, <3>1, <3>2 DEF CreatesIn, CreatesOf
    <3>3. CASE /\ handles' = Append(handles, Building!NoAccount)
               /\ ops[j].handle = Len(handles) + 1 /\ j = Len(old.ops) + 1
      BY <2>2, <3>1, <3>3
    <3> QED BY <3>1, <3>2, <3>3
  <2> QED BY <1>7, <2>1, <2>2
<1>10. ASSUME NEW i \in DOMAIN held, NEW j \in CreatesIn(held[i])
       PROVE  held[i].ops[j].handle \in 1..n
  <2>1. GroupOk(held[i], n)
    BY <1>1, <1>7 DEF GroupsOk
  <2>2. DOMAIN held[i].ops = 1..Len(held[i].ops)
    BY <2>1, ListingIs DEF GroupOk, Listing
  <2>3. OpOk(held[i].ops[j], n) /\ held[i].ops[j].op = "createIdentifier"
    BY <2>1, <2>2 DEF GroupOk, CreatesIn, CreatesOf
  <2> QED BY <2>3 DEF OpOk, StagedKinds, Building!BucketOf
<1>11. Unfilled(after, handles')
  <2>1. ASSUME NEW i \in DOMAIN after, NEW j \in CreatesIn(after[i])
        PROVE  handles'[after[i].ops[j].handle] = Building!NoAccount
    <3>1. CASE Old(i, j)
      <4>1. held[i].ops[j].handle \in 1..n /\ handles[held[i].ops[j].handle] = Building!NoAccount
        BY <1>1, <1>10, <3>1 DEF Unfilled
      <4> QED BY <1>4, <3>1, <4>1
    <3>2. CASE Extra(i, j)
      <4>1. handles'[n + 1] = Building!NoAccount
        BY <1>1, <3>2, ListingAppend
      <4> QED BY <3>2, <4>1
    <3> QED BY <1>9, <3>1, <3>2
  <2>2. ASSUME NEW i \in DOMAIN after, NEW k \in DOMAIN after, NEW j \in CreatesIn(after[i]),
               NEW l \in CreatesIn(after[k]), after[i].ops[j].handle = after[k].ops[l].handle
        PROVE  i = k /\ j = l
    <3>1. CASE Old(i, j) /\ Old(k, l)
      <4>1. held[i].ops[j].handle = held[k].ops[l].handle
        BY <2>2, <3>1
      <4> QED BY <1>1, <3>1, <4>1 DEF Unfilled
    <3>2. CASE Extra(i, j) /\ Extra(k, l)
      BY <3>2
    <3>3. CASE Old(i, j) /\ Extra(k, l)
      <4>1. held[i].ops[j].handle \in 1..n /\ held[i].ops[j].handle = n + 1
        BY <1>10, <2>2, <3>3
      <4> QED BY <1>4, <4>1
    <3>4. CASE Extra(i, j) /\ Old(k, l)
      <4>1. held[k].ops[l].handle \in 1..n /\ held[k].ops[l].handle = n + 1
        BY <1>10, <2>2, <3>4
      <4> QED BY <1>4, <4>1
    <3> QED BY <1>9, <3>1, <3>2, <3>3, <3>4
  <2> QED BY <2>1, <2>2 DEF Unfilled
<1>12. Unfilled(Append(builder'.groups, builder'.current), handles')
  BY <1>2, <1>11 DEF after
<1>13. GroupsOk(builder'.groups, Len(handles')) /\ GroupOk(builder'.current, Len(handles'))
  BY <1>2, <1>5, <1>6
<1> QED BY <1>2, <1>12, <1>13, StagingKeeps

\* What may be staged is one of the forms, with or without handles.
LEMMA StagedIsOk ==
  ASSUME NEW n \in Nat, NEW op \in Staged
  PROVE  /\ OpOk(op, n) /\ op.op # "createIdentifier"
         /\ \A h \in 1..n : \A p \in Building!Pointing(op, h) : OpOk(p, n) /\ p.op # "createIdentifier"
<1>1. /\ "op" \in DOMAIN op /\ op.op \in StagedKinds /\ op.op # "createIdentifier"
      /\ op.op = "raw" => op.of.op # "createIdentifier" /\ (op.of.op = "send" => op.of.amount \in Int)
  BY StagedAssumption DEF StagedKinds, Building!BucketOf
<1>2. op.op = "send" => SendForm(op, n)
  BY StagedAssumption DEF SendForm
<1>3. ASSUME NEW h \in 1..n, NEW p \in Building!Pointing(op, h)
      PROVE  "op" \in DOMAIN p /\ p.op = op.op /\ op.op # "raw" /\ (op.op = "send" => SendForm(p, n))
  <2>1. CASE op.op = "send" /\ op.amount # 0
    <3>1. p \in {[op EXCEPT !.to = Building!Pending(h)], [op EXCEPT !.token = Building!Pending(h)]}
      BY <1>3, <2>1 DEF Building!Pointing
    <3>2. PICK q : q = Building!Pending(h)
      OBVIOUS
    <3>3. q.handle = h
      BY <3>2 DEF Building!Pending
    <3> QED BY <1>1, <1>2, <2>1, <3>1, <3>2, <3>3 DEF SendForm
  <2>2. CASE ~(op.op = "send" /\ op.amount # 0)
    BY <1>1, <1>3, <2>2 DEF Building!Pointing
  <2> QED BY <2>1, <2>2
<1> QED BY <1>1, <1>2, <1>3 DEF OpOk

\* A push: one more operation in the group at hand.
LEMMA PushKeeps ==
  ASSUME TxInv, NEW op, Building!Push(op),
         \/ handles' = handles /\ OpOk(op, Len(handles)) /\ op.op # "createIdentifier"
         \/ /\ handles' = Append(handles, Building!NoAccount)
            /\ op.op = "createIdentifier" /\ op.handle = Len(handles) + 1
  PROVE  TxInv'
<1>1. /\ build.phase # "running" /\ UNCHANGED <<build, heads, hashes, sealed, failedBuild>>
      /\ builder' = [builder EXCEPT !.current.ops = Append(@, op)]
  BY DEF Building!Push, Building!Callable
<1>2. PICK old : old = builder.current.ops
  OBVIOUS
<1>3. PICK ops : ops = Append(old, op)
  OBVIOUS
<1>4. builder' = [builder EXCEPT !.current = [builder.current EXCEPT !.ops = ops]]
  BY <1>1, <1>2, <1>3 DEF TxInv, BuilderInv
<1>5. /\ Listing(old) /\ \A i \in DOMAIN old : OpOk(old[i], Len(handles))
      /\ Listing(handles) /\ Len(handles) \in Nat
  BY <1>2, ListingIs DEF TxInv, BuilderInv, GroupOk, Listing
<1>6. /\ Listing(ops) /\ Len(old) \in Nat /\ DOMAIN old = 1..Len(old)
      /\ DOMAIN ops = 1..(Len(old) + 1)
      /\ \A i \in DOMAIN old : ops[i] = old[i]
      /\ ops[Len(old) + 1] = op
  BY <1>3, <1>5, ListingAppend
<1>7. /\ Len(handles') \in Nat /\ Len(handles) <= Len(handles')
      /\ handles' # handles => Len(handles') = Len(handles) + 1
  <2>1. CASE handles' = handles
    BY <1>5, <2>1
  <2>2. CASE handles' = Append(handles, Building!NoAccount)
    BY <1>5, <2>2, ListingAppend
  <2> QED BY <2>1, <2>2
<1>8. OpOk(op, Len(handles'))
  <2>1. CASE handles' = handles
    BY <2>1, <1>5, ListingAppend DEF OpOk
  <2>2. CASE handles' # handles
    BY <2>2, <1>5, <1>7 DEF OpOk
  <2> QED BY <2>1, <2>2
<1>9. \A i \in DOMAIN ops : OpOk(ops[i], Len(handles'))
  <2>1. \A e : OpOk(e, Len(handles)) => OpOk(e, Len(handles'))
    BY <1>5, <1>7 DEF OpOk, SendForm
  <2> QED BY <1>5, <1>6, <1>8, <2>1
<1>10. ASSUME NEW j \in DOMAIN ops, ops[j].op = "createIdentifier"
       PROVE  \/ /\ j \in DOMAIN builder.current.ops
                 /\ builder.current.ops[j].op = "createIdentifier"
                 /\ ops[j].handle = builder.current.ops[j].handle
              \/ /\ handles' = Append(handles, Building!NoAccount)
                 /\ ops[j].handle = Len(handles) + 1 /\ j = Len(builder.current.ops) + 1
  <2>1. CASE j \in DOMAIN old
    BY <1>2, <1>6, <1>10, <2>1
  <2>2. CASE j = Len(old) + 1
    BY <1>2, <1>6, <1>10, <2>2
  <2> QED BY <1>6, <2>1, <2>2
<1>11. handles' = handles \/ handles' = Append(handles, Building!NoAccount)
  OBVIOUS
<1> QED BY <1>1, <1>4, <1>6, <1>9, <1>10, <1>11, CurrentKeeps

\* set_info, merged into the one that was staged before.
LEMMA SetInfoKeeps ==
  ASSUME TxInv, NEW info \in Staged, info.op = "setInfo", Building!SetInfo(info)
  PROVE  TxInv'
<1>0. PICK old : old = builder.current.ops
  OBVIOUS
<1>1. CASE Building!Push(info) /\ UNCHANGED handles
  <2>1. OpOk(info, Len(handles)) /\ info.op # "createIdentifier"
    BY StagedIsOk, ListingIs DEF TxInv, BuilderInv, Listing
  <2> QED BY <1>1, <2>1, PushKeeps
<1>2. CASE \E at \in DOMAIN old : \E merged :
             /\ old[at].op = "setInfo" /\ merged.op = "setInfo" /\ "op" \in DOMAIN merged
             /\ builder' = [builder EXCEPT !.current = [builder.current EXCEPT
                                !.ops = [old EXCEPT ![at] = merged]]]
             /\ build.phase # "running"
             /\ UNCHANGED <<handles, build, heads, hashes, sealed, failedBuild>>
  <2>1. PICK at, merged : at \in DOMAIN old
             /\ old[at].op = "setInfo" /\ merged.op = "setInfo" /\ "op" \in DOMAIN merged
             /\ builder' = [builder EXCEPT !.current = [builder.current EXCEPT
                                !.ops = [old EXCEPT ![at] = merged]]]
             /\ build.phase # "running"
             /\ UNCHANGED <<handles, build, heads, hashes, sealed, failedBuild>>
    BY <1>2
  <2>2. PICK ops : ops = [old EXCEPT ![at] = merged]
    OBVIOUS
  <2>3. Listing(old) /\ \A i \in DOMAIN old : OpOk(old[i], Len(handles))
    BY <1>0 DEF TxInv, BuilderInv, GroupOk
  <2>4. Len(old) \in Nat /\ DOMAIN old = 1..Len(old)
    BY <2>3, ListingIs DEF Listing
  <2>5. DOMAIN ops = 1..Len(old) /\ ops = [i \in 1..Len(old) |-> ops[i]]
    BY <2>2, <2>4
  <2>6. Listing(ops)
    BY <2>4, <2>5, ListingMade
  <2>7. \A i \in DOMAIN ops : (i = at /\ ops[i] = merged) \/ (i # at /\ ops[i] = old[i])
    BY <2>2, <2>4, <2>5
  <2>8. OpOk(merged, Len(handles))
    BY <2>1 DEF OpOk, StagedKinds, Building!BucketOf
  <2>9. \A i \in DOMAIN ops : OpOk(ops[i], Len(handles'))
    BY <2>1, <2>3, <2>4, <2>5, <2>7, <2>8
  <2>10. \A j \in DOMAIN ops : ops[j].op = "createIdentifier" =>
           /\ j \in DOMAIN builder.current.ops
           /\ builder.current.ops[j].op = "createIdentifier"
           /\ ops[j].handle = builder.current.ops[j].handle
    BY <1>0, <2>1, <2>4, <2>5, <2>7
  <2>11. builder' = [builder EXCEPT !.current = [builder.current EXCEPT !.ops = ops]]
    BY <2>1, <2>2
  <2> QED BY <2>1, <2>6, <2>9, <2>10, <2>11, CurrentKeeps
<1>3. ASSUME {i \in DOMAIN old : old[i].op = "setInfo"} # {}
      PROVE  Building!Min({i \in DOMAIN old : old[i].op = "setInfo"})
               \in {i \in DOMAIN old : old[i].op = "setInfo"}
  <2>1. Len(old) \in Nat /\ DOMAIN old = 1..Len(old)
    BY <1>0, ListingIs DEF TxInv, BuilderInv, GroupOk, Listing
  <2>2. PICK S : S = {i \in DOMAIN old : old[i].op = "setInfo"}
    OBVIOUS
  <2>3. S \in SUBSET Nat /\ S # {}
    BY <1>3, <2>1, <2>2
  <2>4. \E x \in S : \A y \in S : x <= y
    BY <2>3, LeastNat
  <2> QED BY <2>2, <2>4 DEF Building!Min
<1> QED
  <2>1. SUFFICES ASSUME ~(Building!Push(info) /\ UNCHANGED handles)
        PROVE  \E at \in DOMAIN old : \E merged :
             /\ old[at].op = "setInfo" /\ merged.op = "setInfo" /\ "op" \in DOMAIN merged
             /\ builder' = [builder EXCEPT !.current = [builder.current EXCEPT
                                !.ops = [old EXCEPT ![at] = merged]]]
             /\ build.phase # "running"
             /\ UNCHANGED <<handles, build, heads, hashes, sealed, failedBuild>>
    BY <1>1, <1>2
  <2>2. PICK earlier : earlier = {i \in DOMAIN old : old[i].op = "setInfo"}
    OBVIOUS
  <2>3. PICK at : at = Building!Min(earlier)
    OBVIOUS
  <2>4. PICK merged : merged = [op |-> "setInfo",
                      text |-> IF info.text # "empty" THEN info.text ELSE old[at].text,
                      default |-> IF info.default.ok THEN info.default ELSE old[at].default]
    OBVIOUS
  <2>5. /\ earlier # {} /\ build.phase # "running"
        /\ UNCHANGED <<handles, build, heads, hashes, sealed, failedBuild>>
        /\ builder' = [builder EXCEPT !.current.ops[at] =
             [op |-> "setInfo",
              text |-> IF info.text # "empty" THEN info.text ELSE @.text,
              default |-> IF info.default.ok THEN info.default ELSE @.default]]
    BY <1>0, <2>1, <2>2, <2>3 DEF Building!SetInfo, Building!Callable
  <2>6. at \in DOMAIN old /\ old[at].op = "setInfo"
    BY <1>3, <2>2, <2>3, <2>5
  <2>7. builder' = [builder EXCEPT !.current = [builder.current EXCEPT
                                !.ops = [old EXCEPT ![at] = merged]]]
    BY <1>0, <2>4, <2>5
  <2>8. merged.op = "setInfo" /\ "op" \in DOMAIN merged
    BY <2>4
  <2> QED BY <2>5, <2>6, <2>7, <2>8

\* What is created in some blocks is created in more.
LEMMA MadeInMore ==
  ASSUME NEW id, NEW A, NEW B, A \subseteq B, MadeIn(id, A)
  PROVE  MadeIn(id, B)
BY DEF MadeIn

\* build takes the groups.
LEMMA BuildKeeps ==
  ASSUME TxInv, Building!Build
  PROVE  TxInv'
<1> DEFINE n == Len(handles)
<1>0. PICK kept, held : /\ kept = Building!Kept(builder.groups, builder.current)
                        /\ held = Append(builder.groups, builder.current)
  OBVIOUS
<1>1. /\ build.phase # "running" /\ UNCHANGED <<handles, heads, hashes, sealed, failedBuild>>
      /\ build' = [Building!Idle EXCEPT !.phase = "running", !.all = kept, !.todo = kept,
                                        !.count = build.count + 1]
      /\ builder' = [builder EXCEPT !.groups = << >>, !.current = Building!Group(Primary, Primary)]
  BY <1>0 DEF Building!Build, Building!Callable
<1>2. /\ DOMAIN builder = {"groups", "current", "seed"} /\ Listing(handles)
      /\ GroupsOk(builder.groups, n) /\ GroupOk(builder.current, n) /\ Unfilled(held, handles)
  BY <1>0, <1>1 DEF TxInv, BuilderInv, Held
<1>3. KeptWithin(kept, held, n)
  BY <1>0, <1>2, KeptHolds
<1>4. /\ GroupsOk(kept, n) /\ Len(kept) \in Nat /\ DOMAIN kept = 1..Len(kept)
      /\ \A i \in DOMAIN kept : i \in DOMAIN held /\ kept[i] = held[i]
  BY <1>3 DEF KeptWithin
<1>5. Unfilled(kept, handles)
  BY <1>2, <1>4, FreshSame
<1>6. /\ DOMAIN build' = {"phase", "all", "todo", "made", "rendered", "count"}
      /\ build'.phase = "running" /\ build'.all = kept /\ build'.todo = kept
      /\ build'.made = << >> /\ build'.rendered = << >>
  BY <1>1 DEF Building!Idle
<1>7. /\ DOMAIN builder' = {"groups", "current", "seed"} /\ builder'.groups = << >>
      /\ builder'.seed = builder.seed /\ builder'.current = Building!Group(Primary, Primary)
  BY <1>1, <1>2
<1>8. Listing(<< >>) /\ DOMAIN << >> = {} /\ Building!ToSet(<< >>) = {}
  BY DEF Listing, Building!ToSet
<1>9. builder'.current.ops = << >> /\ GroupOk(builder'.current, n) /\ GroupsOk(<< >>, n)
  BY <1>7, <1>8 DEF GroupOk, GroupsOk, Building!Group, Building!Ledger
<1>10. BuilderInv'
  BY <1>1, <1>2, <1>5, <1>6, <1>7, <1>9 DEF BuilderInv, Held
<1>11. CallInv'
  BY <1>1, <1>4, <1>6 DEF CallInv
<1>12. HashInv'
  BY <1>1, <1>6, <1>7, <1>8 DEF TxInv, HashInv
<1>13. FilledInv'
  <2>1. DoneHandles(build') = {}
    BY <1>4, <1>6 DEF DoneHandles
  <2>2. ASSUME ~failedBuild, NEW h \in DOMAIN handles, handles[h] # Building!NoAccount
        PROVE  MadeIn(handles[h], sealed \cup Building!ToSet(build'.made))
    <3>1. MadeIn(handles[h], sealed \cup {})
      BY <1>1, <2>2 DEF TxInv, FilledInv
    <3> QED BY <1>6, <1>8, <3>1
  <2> QED BY <1>1, <1>6, <2>1, <2>2 DEF FilledInv
<1> QED BY <1>10, <1>11, <1>12, <1>13 DEF TxInv

\* A call that fails: what it made is dropped, and handles may stay filled.
LEMMA FailKeeps ==
  ASSUME TxInv, build.phase = "running", UNCHANGED <<builder, heads, hashes, sealed>>,
         Listing(handles'), Len(handles') = Len(handles), failedBuild' = TRUE, NEW shown,
         build' = [build EXCEPT !.phase = "failed", !.rendered = shown],
         shown # << >> => Fits(shown[1])
  PROVE  TxInv'
<1>1. DOMAIN build = {"phase", "all", "todo", "made", "rendered", "count"}
  BY DEF TxInv, CallInv
<1>2. /\ DOMAIN build' = {"phase", "all", "todo", "made", "rendered", "count"}
      /\ build'.phase = "failed" /\ build'.all = build.all /\ build'.todo = build.todo
      /\ build'.made = build.made /\ build'.rendered = shown
  BY <1>1
<1>3. builder.groups = << >> /\ builder.current.ops = << >>
  BY DEF TxInv, BuilderInv
<1>4. Unfilled(Append(builder.groups, builder.current), handles')
  BY <1>3, NothingHeld
<1>5. BuilderInv'
  BY <1>2, <1>4 DEF TxInv, BuilderInv, Held
<1>6. CallInv'
  BY <1>2 DEF TxInv, CallInv
<1>7. HashInv'
  BY <1>2 DEF TxInv, HashInv
<1>8. FilledInv'
  BY <1>2 DEF FilledInv
<1> QED BY <1>5, <1>6, <1>7, <1>8 DEF TxInv

\* The blocks of a call are returned.
LEMMA ReturnKeeps ==
  ASSUME TxInv, Building!BuildReturns
  PROVE  TxInv'
<1>1. /\ build.phase = "running" /\ build.todo = << >> /\ build' = [build EXCEPT !.phase = "ok"]
      /\ sealed' = sealed \cup Building!ToSet(build.made)
      /\ UNCHANGED <<builder, handles, heads, hashes, failedBuild>>
  BY DEF Building!BuildReturns
<1>2. DOMAIN build = {"phase", "all", "todo", "made", "rendered", "count"}
  BY DEF TxInv, CallInv
<1>3. /\ DOMAIN build' = {"phase", "all", "todo", "made", "rendered", "count"}
      /\ build'.phase = "ok" /\ build'.all = build.all /\ build'.todo = build.todo
      /\ build'.made = build.made /\ build'.rendered = build.rendered
  BY <1>1, <1>2
<1>4. builder.groups = << >> /\ builder.current.ops = << >>
  BY <1>1 DEF TxInv, BuilderInv
<1>5. Unfilled(Append(builder.groups, builder.current), handles)
  BY <1>4, NothingHeld
<1>6. BuilderInv'
  BY <1>1, <1>3, <1>5 DEF TxInv, BuilderInv, Held
<1>7. CallInv'
  BY <1>1, <1>3 DEF TxInv, CallInv
<1>8. HashInv'
  <2>1. \A b \in Building!ToSet(build.made) : \E m \in DOMAIN build.made : b = build.made[m]
    BY DEF Building!ToSet
  <2>2. \A b \in sealed' : b.hash \in 0..hashes
    BY <1>1, <2>1 DEF TxInv, HashInv
  <2> QED BY <1>1, <1>3, <2>2 DEF TxInv, HashInv
<1>9. FilledInv'
  <2>1. DoneHandles(build') = DoneHandles(build)
    BY <1>3 DEF DoneHandles
  <2>2. ASSUME NEW h \in DoneHandles(build)
        PROVE  /\ MadeIn(handles[h], Building!ToSet(build.made))
               /\ \A k \in DoneHandles(build) : handles[h] = handles[k] => h = k
    BY <1>1 DEF TxInv, FilledInv
  <2>3. ASSUME ~failedBuild, NEW h \in DOMAIN handles, handles[h] # Building!NoAccount
        PROVE  MadeIn(handles[h], sealed' \cup {})
    <3>1. MadeIn(handles[h], sealed \cup Building!ToSet(build.made))
      BY <1>1, <2>3 DEF TxInv, FilledInv
    <3> QED BY <1>1, <3>1
  <2> QED BY <1>1, <1>3, <2>1, <2>2, <2>3 DEF FilledInv
<1> QED BY <1>6, <1>7, <1>8, <1>9 DEF TxInv

\* Somebody's block becomes a head.
LEMMA HeadKeeps ==
  ASSUME TxInv, NEW a \in Building!Ledger, Building!HeadMoves(a)
  PROVE  TxInv'
<1>1. UNCHANGED <<builder, handles, build, sealed, failedBuild>> /\ build.phase = "running"
  BY DEF Building!HeadMoves
<1>2. hashes \in Nat /\ heads \in [Building!Ledger -> 0..hashes] /\ \A b \in sealed : b.hash \in 0..hashes
  BY DEF TxInv, HashInv
<1>3. /\ hashes' \in Nat /\ hashes <= hashes' /\ heads' \in [Building!Ledger -> 0..hashes']
  BY <1>2 DEF Building!HeadMoves
<1>4. BuilderInv' /\ CallInv' /\ FilledInv'
  BY <1>1 DEF TxInv, BuilderInv, CallInv, FilledInv
<1>5. HashInv'
  <2>1. 0..hashes \subseteq 0..hashes'
    BY <1>2, <1>3
  <2> QED BY <1>1, <1>3, <2>1 DEF TxInv, HashInv
<1> QED BY <1>4, <1>5 DEF TxInv

\* The rest of a listing.
LEMMA ListingTail ==
  ASSUME NEW s, Listing(s), s # << >>
  PROVE  /\ Listing(Tail(s)) /\ Len(s) \in Nat /\ Len(Tail(s)) = Len(s) - 1 /\ Len(s) >= 1
         /\ DOMAIN s = 1..Len(s) /\ DOMAIN Tail(s) = 1..(Len(s) - 1)
         /\ Head(s) = s[1]
         /\ \A i \in DOMAIN Tail(s) : i + 1 \in DOMAIN s /\ Tail(s)[i] = s[i + 1]
<1>1. PICK S : s \in Seq(S)
  BY DEF Listing
<1>2. /\ Tail(s) \in Seq(S) /\ Len(s) \in Nat /\ Len(Tail(s)) = Len(s) - 1 /\ Len(s) >= 1
      /\ DOMAIN s = 1..Len(s) /\ Head(s) = s[1]
  BY <1>1
<1>3. DOMAIN Tail(s) = 1..(Len(s) - 1) /\ Listing(Tail(s))
  BY <1>2, ListingIs
<1> QED BY <1>1, <1>2, <1>3

\* An identifier that a valid block creates tells of the block.
LEMMA CreatedIsDerived ==
  ASSUME NEW data, Building!Valid(data), NEW i \in Building!Creates(data), NEW id,
         id = data.ops[i].identifier
  PROVE  /\ ~Building!IsIdentifier(data.account) /\ id # Building!NoAccount
         /\ id.of = data.account.of /\ id.at = data.previous
<1>1. i \in DOMAIN data.ops /\ data.ops[i].op = "createIdentifier"
  BY DEF Building!Creates
<1>2. Building!OperationOk(data, i)
  BY <1>1 DEF Building!Valid
<1>3. Building!CreateIdentifierOk(data, data.ops[i], i - 1)
  BY <1>1, <1>2 DEF Building!OperationOk
<1>4. /\ ~Building!IsIdentifier(data.account) /\ Building!IsIdentifier(id)
      /\ id = Building!Derive(data.account, id.type, data.previous, i - 1)
  BY <1>3 DEF Building!CreateIdentifierOk
<1>5. id # Building!NoAccount
  BY <1>4 DEF Building!IsIdentifier, Building!NoAccount, Building!IdentifierTypes
<1>6. id.of = data.account.of /\ id.at = data.previous
  BY <1>4, <1>5, DeriveIs
<1> QED BY <1>4, <1>5, <1>6

\* The hash a group follows is known, and newer than that of the account's
\* other blocks.
LEMMA PreviousIs ==
  ASSUME TxInv, NEW g, g.account \in Building!Ledger, NEW previous,
         previous = Building!PreviousFor(g)
  PROVE  /\ previous \in 0..hashes
         /\ \A m \in DOMAIN build.made :
              build.made[m].data.account = g.account => build.made[m].hash <= previous
<1>1. PICK made : made = build.made
  OBVIOUS
<1>2. PICK own : own = {i \in DOMAIN made : made[i].data.account = g.account}
  OBVIOUS
<1>3. /\ Listing(made) /\ hashes \in Nat /\ heads \in [Building!Ledger -> 0..hashes]
      /\ builder.seed = Building!Unset \/ builder.seed \in 0..hashes
      /\ \A m \in DOMAIN made : made[m].hash \in 0..hashes
      /\ \A m, l \in DOMAIN made : m < l => made[m].hash < made[l].hash
  BY <1>1 DEF TxInv, HashInv
<1>4. CASE own = {}
  <2>1. (previous = builder.seed /\ builder.seed # Building!Unset) \/ previous = heads[g.account]
    BY <1>1, <1>2, <1>4 DEF Building!PreviousFor
  <2> QED BY <1>1, <1>2, <1>3, <1>4, <2>1
<1>5. CASE own # {}
  <2>1. Len(made) \in Nat /\ DOMAIN made = 1..Len(made)
    BY <1>3, ListingIs DEF Listing
  <2>2. own \in SUBSET (0..Len(made))
    BY <1>2, <2>1
  <2>3. \E x \in own : \A y \in own : y <= x
    BY <1>5, <2>1, <2>2, GreatestNat
  <2>4. \E x \in own : \A y \in own : x >= y
    BY <2>1, <2>2, <2>3
  <2>5. Building!Max(own) \in own /\ \A y \in own : Building!Max(own) >= y
    BY <2>4 DEF Building!Max
  <2>6. previous = made[Building!Max(own)].hash
    BY <1>1, <1>2, <1>5 DEF Building!PreviousFor
  <2>7. PICK last \in own : previous = made[last].hash /\ \A y \in own : last >= y
    BY <2>5, <2>6
  <2>8. last \in DOMAIN made
    BY <1>2
  <2>9. ASSUME NEW m \in DOMAIN made, made[m].data.account = g.account
        PROVE  made[m].hash <= previous
    <3>1. m \in own /\ m <= last /\ m \in Nat /\ last \in Nat
      BY <1>2, <2>1, <2>2, <2>7, <2>9
    <3>2. CASE m = last
      BY <1>3, <2>7, <2>8, <3>2
    <3>3. CASE m < last
      <4>1. made[m].hash < made[last].hash
        BY <1>3, <2>8, <2>9, <3>3
      <4> QED BY <1>3, <2>7, <2>8, <2>9, <4>1
    <3> QED BY <3>1, <3>2, <3>3
  <2> QED BY <1>1, <1>3, <2>7, <2>8, <2>9
<1> QED BY <1>4, <1>5

\* What becomes of a group that is rendered.
GroupDone(g, previous, r) ==
  /\ GroupOk(g, Len(handles)) /\ Rendered(<<g, previous, handles>>, Len(g.ops), r)
  /\ Listing(r.cells) /\ Len(r.cells) = Len(handles)
  /\ Unfilled(Tail(build.todo), r.cells)

\* render_ops on the next group of a call.
LEMMA GroupRenders ==
  ASSUME TxInv, build.phase = "running", build.todo # << >>, NEW g, g = Head(build.todo),
         NEW previous, NEW r, r = Building!RenderOps(g, previous)
  PROVE  GroupDone(g, previous, r)
<1>0. PICK todo : todo = build.todo
  OBVIOUS
<1>1. /\ GroupsOk(todo, Len(handles)) /\ Unfilled(todo, handles) /\ Listing(handles)
  BY <1>0 DEF TxInv, CallInv, BuilderInv, Held
<1>2. PICK rest : rest = Tail(todo)
  OBVIOUS
<1>3. /\ 1 \in DOMAIN todo /\ g = todo[1] /\ DOMAIN todo \subseteq Nat
      /\ \A i \in DOMAIN rest : i + 1 \in DOMAIN todo /\ rest[i] = todo[i + 1] /\ i \in Nat \ {0}
  BY <1>0, <1>1, <1>2, ListingTail DEF GroupsOk
<1>4. GroupOk(g, Len(handles))
  BY <1>1, <1>3 DEF GroupsOk
<1>5. DOMAIN handles = 1..Len(handles) /\ Len(handles) \in Nat /\ DOMAIN g.ops = 1..Len(g.ops)
  BY <1>1, <1>4, ListingIs DEF GroupOk, Listing
<1>6. FreshOps(g, handles)
  <2>1. \A j \in CreatesIn(g) : g.ops[j].handle \in DOMAIN handles
    <3> SUFFICES ASSUME NEW j \in CreatesIn(g) PROVE g.ops[j].handle \in 1..Len(handles)
      BY <1>5
    <3>1. OpOk(g.ops[j], Len(handles)) /\ g.ops[j].op = "createIdentifier"
      BY <1>4, <1>5 DEF GroupOk, CreatesIn, CreatesOf
    <3> QED BY <3>1 DEF OpOk, StagedKinds, Building!BucketOf
  <2> QED BY <1>1, <1>3, <2>1 DEF FreshOps, Unfilled, CreatesIn
<1>7. Rendered(<<g, previous, handles>>, Len(g.ops), r)
  <2>1. Listing(g.ops) /\ \A i \in DOMAIN g.ops : OpOk(g.ops[i], Len(handles))
    BY <1>4 DEF GroupOk
  <2> QED BY <1>1, <1>6, <2>1, RenderOpsIs
<1>8. /\ DOMAIN r.cells = DOMAIN handles /\ Plain(r.cells)
      /\ \A h \in DOMAIN handles :
           (\A j \in CreatesIn(g) : g.ops[j].handle # h) => r.cells[h] = handles[h]
  BY <1>7 DEF Rendered, CreatesIn
<1>9. Listing(r.cells) /\ Len(r.cells) = Len(handles)
  <2>1. PICK n \in Nat : n = Len(handles)
    BY <1>5
  <2>2. DOMAIN r.cells = 1..n /\ r.cells = [i \in 1..n |-> r.cells[i]]
    BY <1>5, <1>8, <2>1 DEF Plain
  <2> QED BY <2>1, <2>2, ListingMade
<1>10. Unfilled(rest, r.cells)
  <2>1. ASSUME NEW i \in DOMAIN rest, NEW j \in CreatesIn(rest[i])
        PROVE  r.cells[rest[i].ops[j].handle] = Building!NoAccount
    <3>1. PICK k \in DOMAIN todo : k = i + 1 /\ rest[i] = todo[k] /\ k # 1
      BY <1>3, <2>1
    <3>2. GroupOk(todo[k], Len(handles))
      BY <1>1 DEF GroupsOk
    <3>3. DOMAIN todo[k].ops = 1..Len(todo[k].ops)
      BY <3>2, ListingIs DEF GroupOk, Listing
    <3>4. j \in CreatesIn(todo[k])
      BY <2>1, <3>1
    <3>5. OpOk(todo[k].ops[j], Len(handles)) /\ todo[k].ops[j].op = "createIdentifier"
      BY <3>2, <3>3, <3>4 DEF GroupOk, CreatesIn, CreatesOf
    <3>6. PICK h \in DOMAIN handles : h = todo[k].ops[j].handle
      BY <1>5, <3>5 DEF OpOk, StagedKinds, Building!BucketOf
    <3>7. handles[h] = Building!NoAccount
      BY <1>1, <3>4, <3>6 DEF Unfilled
    <3>8. \A l \in CreatesIn(g) : g.ops[l].handle # h
      BY <1>1, <1>3, <3>1, <3>4, <3>6 DEF Unfilled
    <3> QED BY <1>8, <3>1, <3>6, <3>7, <3>8
  <2>2. ASSUME NEW i \in DOMAIN rest, NEW k \in DOMAIN rest, NEW j \in CreatesIn(rest[i]),
               NEW l \in CreatesIn(rest[k]), rest[i].ops[j].handle = rest[k].ops[l].handle
        PROVE  i = k /\ j = l
    <3>1. i + 1 = k + 1 /\ j = l
      BY <1>1, <1>3, <2>2 DEF Unfilled
    <3> QED BY <1>3, <3>1
  <2> QED BY <2>1, <2>2 DEF Unfilled
<1> QED BY <1>0, <1>2, <1>4, <1>7, <1>9, <1>10 DEF GroupDone

\* One more group is done.
LEMMA DoneGrows ==
  ASSUME CallInv, build.todo # << >>, NEW b, b.all = build.all, b.todo = Tail(build.todo)
  PROVE  DoneHandles(b) = DoneHandles(build) \cup HandlesOf(Head(build.todo))
<1>1. PICK all, todo : all = build.all /\ todo = build.todo
  OBVIOUS
<1>2. /\ Listing(all) /\ Listing(todo) /\ Len(todo) <= Len(all)
      /\ \A i \in DOMAIN todo : todo[i] = all[(Len(all) - Len(todo)) + i]
  BY <1>1 DEF CallInv, GroupsOk
<1>3. /\ Len(todo) \in Nat /\ Len(todo) >= 1 /\ Len(Tail(todo)) = Len(todo) - 1 /\ Len(all) \in Nat
      /\ Head(todo) = todo[1] /\ 1 \in DOMAIN todo
  BY <1>1, <1>2, ListingTail, ListingIs DEF Listing
<1>4. PICK n \in Nat : n = Len(all) - Len(todo)
  BY <1>2, <1>3
<1>5. Head(todo) = all[n + 1] /\ Len(all) - Len(Tail(todo)) = n + 1
  <2>1. todo[1] = all[n + 1]
    BY <1>2, <1>3, <1>4, Zenon
  <2>2. \A a, t, u \in Int : n = a - t /\ u = t - 1 => a - u = n + 1
    OBVIOUS
  <2>3. Len(all) - Len(Tail(todo)) = n + 1
    <3>1. PICK a, t, u : a = Len(all) /\ t = Len(todo) /\ u = Len(Tail(todo))
      OBVIOUS
    <3>2. a \in Int /\ t \in Int /\ u \in Int /\ u = t - 1 /\ n = a - t
      BY <1>3, <1>4, <3>1
    <3>3. a - u = n + 1
      BY <2>2, <3>2
    <3> QED BY <3>1, <3>3, Zenon
  <2> QED BY <1>3, <2>1, <2>3
<1>6. 1..(n + 1) = 1..n \cup {n + 1}
  BY <1>4
<1>7. DoneHandles(b) = UNION {HandlesOf(all[i]) : i \in 1..(n + 1)}
  BY <1>1, <1>5, Zenon DEF DoneHandles
<1>8. DoneHandles(build) = UNION {HandlesOf(all[i]) : i \in 1..n}
  BY <1>1, <1>4, Zenon DEF DoneHandles
<1> QED BY <1>1, <1>5, <1>6, <1>7, <1>8

\* The handles of a group are filled with what its block creates, each with an
\* identifier of its own.
LEMMA GroupFills ==
  ASSUME NEW g, NEW previous, NEW r, r.ok, Rendered(<<g, previous, handles>>, Len(g.ops), r),
         NEW data, data = Building!BlockOf(g, previous, Building!IntoOperations(r)),
         NEW h \in HandlesOf(g)
  PROVE  /\ \E i \in Building!Creates(data) : data.ops[i].identifier = r.cells[h]
         /\ \A k \in HandlesOf(g) : r.cells[h] = r.cells[k] => h = k
<1>1. PICK creates : creates = r.buckets["creates"]
  OBVIOUS
<1>2. PICK n : n = Len(g.ops)
  OBVIOUS
<1>3. /\ RShape(r) /\ DerivedAt(g, previous, creates)
      /\ \A j \in CreatesOf(g, n) :
           /\ \E i \in DOMAIN creates : creates[i].identifier = r.cells[g.ops[j].handle]
           /\ \A k \in CreatesOf(g, n) :
                j < k => r.cells[g.ops[j].handle].index < r.cells[g.ops[k].handle].index
  BY <1>1, <1>2 DEF Rendered
<1>4. PICK j \in CreatesOf(g, n) : h = g.ops[j].handle
  BY <1>2 DEF HandlesOf, CreatesIn
<1>5. PICK ops : ops = Building!IntoOperations(r)
  OBVIOUS
<1>6. /\ \A i \in DOMAIN creates : i \in DOMAIN ops /\ ops[i] = creates[i]
  BY <1>1, <1>3, <1>5, IntoFits
<1>7. data.ops = ops
  BY <1>5 DEF Building!BlockOf
<1>8. \E i \in Building!Creates(data) : data.ops[i].identifier = r.cells[h]
  <2>1. PICK i \in DOMAIN creates : creates[i].identifier = r.cells[h]
    BY <1>3, <1>4
  <2>2. creates[i].op = "createIdentifier"
    BY <1>3 DEF DerivedAt
  <2> QED BY <1>6, <1>7, <2>1, <2>2 DEF Building!Creates
<1>9. ASSUME NEW k \in HandlesOf(g), r.cells[h] = r.cells[k]
      PROVE  h = k
  <2>1. PICK l \in CreatesOf(g, n) : k = g.ops[l].handle
    BY <1>2 DEF HandlesOf, CreatesIn
  <2>2. \A m \in CreatesOf(g, n) : \E i \in DOMAIN creates :
           r.cells[g.ops[m].handle].index = i - 1 /\ i \in Nat
    <3> SUFFICES ASSUME NEW m \in CreatesOf(g, n)
                 PROVE  \E i \in DOMAIN creates : r.cells[g.ops[m].handle].index = i - 1 /\ i \in Nat
      OBVIOUS
    <3>1. PICK i \in DOMAIN creates : creates[i].identifier = r.cells[g.ops[m].handle]
      BY <1>3
    <3>2. creates[i].identifier.index = i - 1
      BY <1>3, DeriveIs DEF DerivedAt
    <3>3. i \in Nat
      <4>1. Listing(creates)
        BY <1>1, <1>3, BucketNames DEF RShape
      <4> QED BY <4>1, ListingIs DEF Listing
    <3> QED BY <3>1, <3>2, <3>3
  <2>3. PICK x : x = r.cells[h].index
    OBVIOUS
  <2>4. x \in Int /\ r.cells[h].index = x /\ r.cells[k].index = x
    BY <1>4, <1>9, <2>2, <2>3
  <2>5. j \in Int /\ l \in Int
    BY DEF CreatesOf
  <2>6. ~(j < l) /\ ~(l < j)
    BY <1>3, <1>4, <2>1, <2>4
  <2> QED BY <1>4, <2>1, <2>5, <2>6
<1> QED BY <1>8, <1>9

\* A group that is rendered, and sealed when it has operations.
LEMMA TakenKeeps ==
  ASSUME TxInv, build.phase = "running", build.todo # << >>, NEW g, g = Head(build.todo),
         NEW previous, previous = Building!PreviousFor(g),
         NEW r, r = Building!RenderOps(g, previous), r.ok,
         NEW data, data = Building!BlockOf(g, previous, Building!IntoOperations(r)),
         handles' = r.cells, UNCHANGED <<builder, heads, sealed, failedBuild>>,
         DOMAIN build' = {"phase", "all", "todo", "made", "rendered", "count"},
         build'.phase = "running", build'.all = build.all, build'.todo = Tail(build.todo),
         \/ /\ data.ops = << >> /\ hashes' = hashes
            /\ build'.made = build.made /\ build'.rendered = build.rendered
         \/ /\ Building!Valid(data) /\ hashes' = hashes + 1
            /\ build'.made = Append(build.made, [hash |-> hashes + 1, data |-> data])
            /\ build'.rendered = <<data>>
  PROVE  TxInv'
<1> DEFINE new == [hash |-> hashes + 1, data |-> data]
<1>1. GroupDone(g, previous, r)
  BY GroupRenders
<1>2. /\ Listing(handles') /\ Len(handles') = Len(handles) /\ Unfilled(build'.todo, handles')
      /\ Rendered(<<g, previous, handles>>, Len(g.ops), r) /\ g.account \in Building!Ledger
  BY <1>1 DEF GroupDone, GroupOk
<1>3. previous \in 0..hashes /\ hashes \in Nat
      /\ \A m \in DOMAIN build.made :
           build.made[m].data.account = g.account => build.made[m].hash <= previous
  BY <1>2, PreviousIs DEF TxInv, HashInv
<1>4. data.account = g.account /\ data.previous = previous
  BY DEF Building!BlockOf
<1>5. BuilderInv'
  BY <1>2 DEF TxInv, BuilderInv, Held
<1>6. CallInv'
  <2>1. PICK all, todo, rest : all = build.all /\ todo = build.todo /\ rest = Tail(build.todo)
    OBVIOUS
  <2>2. /\ GroupsOk(all, Len(handles)) /\ GroupsOk(todo, Len(handles)) /\ Len(todo) <= Len(all)
        /\ \A i \in DOMAIN todo : todo[i] = all[(Len(all) - Len(todo)) + i]
    BY <2>1 DEF TxInv, CallInv
  <2>3. /\ Listing(rest) /\ Len(todo) \in Nat /\ Len(rest) = Len(todo) - 1 /\ Len(todo) >= 1
        /\ DOMAIN todo = 1..Len(todo) /\ DOMAIN rest = 1..(Len(todo) - 1)
        /\ \A i \in DOMAIN rest : i + 1 \in DOMAIN todo /\ rest[i] = todo[i + 1]
    BY <2>1, <2>2, ListingTail DEF GroupsOk
  <2>4. GroupsOk(rest, Len(handles)) /\ Len(all) \in Nat
    BY <2>2, <2>3, ListingIs DEF GroupsOk, Listing
  <2>5. Len(rest) <= Len(all)
    BY <2>2, <2>3, <2>4
  <2>6. ASSUME NEW i \in DOMAIN rest
        PROVE  rest[i] = all[(Len(all) - Len(rest)) + i]
    <3>1. rest[i] = all[(Len(all) - Len(todo)) + (i + 1)]
      BY <2>2, <2>3, Zenon
    <3>2. (Len(all) - Len(todo)) + (i + 1) = (Len(all) - Len(rest)) + i
      <4>1. PICK a, t, u : a = Len(all) /\ t = Len(todo) /\ u = Len(rest)
        OBVIOUS
      <4>2. a \in Int /\ t \in Int /\ u = t - 1 /\ i \in Int
        BY <2>3, <2>4, <4>1
      <4>3. (a - t) + (i + 1) = (a - u) + i
        BY <4>2
      <4> QED BY <4>1, <4>3, Zenon
    <3> QED BY <3>1, <3>2, Zenon
  <2>7. Fits(data)
    <3>1. RShape(r) /\ DerivedAt(g, previous, r.buckets["creates"])
      BY <1>2 DEF Rendered
    <3> QED BY <3>1, BlockFits
  <2>8. build'.rendered # << >> => Fits(build'.rendered[1])
    <3>1. build.rendered # << >> => Fits(build.rendered[1])
      BY DEF TxInv, CallInv
    <3>2. <<data>>[1] = data
      OBVIOUS
    <3> QED BY <2>7, <3>1, <3>2
  <2>9. /\ build'.phase \in {"idle", "running", "ok", "failed"} /\ build'.phase # "ok"
        /\ build'.phase # "failed" /\ build'.all = all /\ build'.todo = rest
    BY <2>1
  <2> QED BY <1>2, <2>2, <2>4, <2>5, <2>6, <2>8, <2>9 DEF CallInv
<1>7. HashInv'
  <2>1. PICK made : made = build.made
    OBVIOUS
  <2>2. /\ Listing(made) /\ heads \in [Building!Ledger -> 0..hashes]
        /\ builder.seed = Building!Unset \/ builder.seed \in 0..hashes
        /\ \A m \in DOMAIN made :
             /\ made[m].hash \in 0..hashes /\ made[m].data.previous \in Nat
             /\ made[m].data.previous < made[m].hash
             /\ made[m].data.account \in Building!Ledger /\ Building!Valid(made[m].data)
             /\ \A l \in DOMAIN made : m < l => made[m].hash < made[l].hash
        /\ \A b \in sealed : b.hash \in 0..hashes
    BY <2>1 DEF TxInv, HashInv
  <2>3. CASE hashes' = hashes /\ build'.made = build.made
    BY <1>3, <2>1, <2>2, <2>3 DEF HashInv
  <2>4. CASE Building!Valid(data) /\ hashes' = hashes + 1 /\ build'.made = Append(build.made, new)
    <3>1. PICK after : after = Append(made, new)
      OBVIOUS
    <3>2. PICK e : e = new
      OBVIOUS
    <3>3. /\ Listing(after) /\ Len(made) \in Nat /\ DOMAIN made = 1..Len(made)
          /\ DOMAIN after = 1..(Len(made) + 1)
          /\ \A i \in DOMAIN made : after[i] = made[i]
          /\ after[Len(made) + 1] = e
      BY <2>2, <3>1, <3>2, ListingAppend
    <3>4. e.hash = hashes + 1 /\ e.data = data
      BY <3>2
    <3>5. 0..hashes \subseteq 0..(hashes + 1) /\ hashes + 1 \in Nat
      BY <1>3
    <3>6. ASSUME NEW m \in DOMAIN after
          PROVE  /\ after[m].hash \in 0..(hashes + 1) /\ after[m].data.previous \in Nat
                 /\ after[m].data.previous < after[m].hash
                 /\ after[m].data.account \in Building!Ledger /\ Building!Valid(after[m].data)
                 /\ \A l \in DOMAIN after : m < l => after[m].hash < after[l].hash
      <4>1. CASE m = Len(made) + 1
        <5>1. /\ after[m].hash = hashes + 1 /\ after[m].data = data
          BY <3>3, <3>4, <4>1
        <5>2. \A l \in DOMAIN after : ~(m < l)
          BY <3>3, <4>1
        <5>3. previous \in Nat /\ previous < hashes + 1 /\ hashes + 1 \in 0..(hashes + 1)
          BY <1>3
        <5> QED BY <1>2, <1>4, <2>4, <5>1, <5>2, <5>3
      <4>2. CASE m \in DOMAIN made
        <5>1. after[m] = made[m]
          BY <3>3, <4>2
        <5>2. ASSUME NEW l \in DOMAIN after, m < l PROVE made[m].hash < after[l].hash
          <6>1. CASE l = Len(made) + 1
            BY <1>3, <2>2, <3>3, <3>4, <4>2, <6>1
          <6>2. CASE l \in DOMAIN made
            BY <2>2, <3>3, <4>2, <5>2, <6>2
          <6> QED BY <3>3, <6>1, <6>2
        <5> QED BY <2>2, <3>5, <4>2, <5>1, <5>2
      <4> QED BY <3>3, <4>1, <4>2
    <3>7. build'.made = after /\ hashes' = hashes + 1
      BY <2>1, <2>4, <3>1
    <3> HIDE DEF new
    <3> QED BY <2>2, <3>3, <3>5, <3>6, <3>7 DEF HashInv
  <2> QED BY <2>3, <2>4
<1>8. FilledInv'
  <2> DEFINE Done == DoneHandles(build)
             Now == Building!ToSet(build.made)
             After == Building!ToSet(build'.made)
  <2>1. DoneHandles(build') = Done \cup HandlesOf(g)
    BY DoneGrows DEF TxInv
  <2>2. Done \subseteq DOMAIN handles
    BY DoneAreHanded DEF TxInv, BuilderInv
  <2>3. Now \subseteq After
    <3>1. Listing(build.made)
      BY DEF TxInv, HashInv
    <3>2. CASE build'.made = build.made
      BY <3>2
    <3>3. CASE build'.made = Append(build.made, new)
      <4>1. PICK made, after : made = build.made /\ after = Append(build.made, new)
        OBVIOUS
      <4>2. \A i \in DOMAIN made : i \in DOMAIN after /\ after[i] = made[i]
        BY <3>1, <4>1, ListingAppend
      <4> HIDE DEF new
      <4> QED BY <3>3, <4>1, <4>2 DEF Building!ToSet
    <3> QED BY <3>2, <3>3
  <2>4. ASSUME NEW h \in HandlesOf(g)
        PROVE  /\ Building!Valid(data) /\ new \in After
               /\ \E i \in Building!Creates(data) : data.ops[i].identifier = handles'[h]
               /\ \A k \in HandlesOf(g) : handles'[h] = handles'[k] => h = k
    <3>1. /\ \E i \in Building!Creates(data) : data.ops[i].identifier = r.cells[h]
          /\ \A k \in HandlesOf(g) : r.cells[h] = r.cells[k] => h = k
      BY <1>2, GroupFills, SMTT(30)
    <3>2. data.ops # << >>
      BY <3>1 DEF Building!Creates
    <3>3. Building!Valid(data) /\ build'.made = Append(build.made, new)
      BY <3>2
    <3>4. new \in After
      <4>1. PICK made, after : made = build.made /\ after = Append(build.made, new)
        OBVIOUS
      <4>2. Listing(made)
        BY <4>1 DEF TxInv, HashInv
      <4>3. Len(made) + 1 \in DOMAIN after /\ after[Len(made) + 1] = new
        BY <4>1, <4>2, ListingAppend
      <4> HIDE DEF new
      <4> QED BY <3>3, <4>1, <4>3 DEF Building!ToSet
    <3> QED BY <3>1, <3>3, <3>4
  <2>5. ASSUME NEW h \in HandlesOf(g)
        PROVE  /\ handles'[h] # Building!NoAccount /\ handles'[h].of = g.account.of
               /\ handles'[h].at = previous /\ ~Building!IsIdentifier(g.account)
               /\ MadeIn(handles'[h], After)
    <3>1. PICK i \in Building!Creates(data) : data.ops[i].identifier = handles'[h]
      BY <2>4
    <3>2. Building!Valid(data)
      BY <2>4
    <3>3. /\ ~Building!IsIdentifier(data.account) /\ handles'[h] # Building!NoAccount
          /\ handles'[h].of = data.account.of /\ handles'[h].at = data.previous
      BY <3>1, <3>2, CreatedIsDerived
    <3>4. MadeIn(handles'[h], After)
      <4>1. new \in After /\ new.data = data
        BY <2>4
      <4> HIDE DEF new, After
      <4> QED BY <3>1, <4>1 DEF MadeIn
    <3> QED BY <1>4, <3>3, <3>4
  <2>6. ASSUME NEW h \in Done
        PROVE  \E m \in DOMAIN build.made :
                 /\ ~Building!IsIdentifier(build.made[m].data.account)
                 /\ handles[h] # Building!NoAccount
                 /\ handles[h].of = build.made[m].data.account.of
                 /\ handles[h].at = build.made[m].data.previous
    <3>1. MadeIn(handles[h], Now)
      BY DEF TxInv, FilledInv
    <3>2. PICK m \in DOMAIN build.made : \E i \in Building!Creates(build.made[m].data) :
                   build.made[m].data.ops[i].identifier = handles[h]
      BY <3>1 DEF MadeIn, Building!ToSet
    <3>3. Building!Valid(build.made[m].data)
      BY DEF TxInv, HashInv
    <3> QED BY <3>2, <3>3, CreatedIsDerived
  <2>7. \A h \in HandlesOf(g) : handles[h] = Building!NoAccount
    <3>1. Unfilled(build.todo, handles) /\ Listing(build.todo)
      BY DEF TxInv, BuilderInv, Held, CallInv, GroupsOk
    <3>2. 1 \in DOMAIN build.todo /\ g = build.todo[1]
      BY <3>1, ListingTail
    <3> QED BY <3>1, <3>2 DEF Unfilled, HandlesOf
  <2>8. \A h \in DOMAIN handles : h \notin HandlesOf(g) => handles'[h] = handles[h]
    <3>1. \A h \in DOMAIN handles :
             (\A j \in CreatesIn(g) : g.ops[j].handle # h) => r.cells[h] = handles[h]
      BY <1>2 DEF Rendered, CreatesIn
    <3>2. \A h : h \notin HandlesOf(g) => \A j \in CreatesIn(g) : g.ops[j].handle # h
      BY DEF HandlesOf
    <3> QED BY <3>1, <3>2
  <2>9. \A h \in Done : h \notin HandlesOf(g) /\ handles'[h] = handles[h]
    BY <2>2, <2>6, <2>7, <2>8
  <2>10. ASSUME NEW h \in Done, NEW k \in HandlesOf(g) PROVE handles'[h] # handles'[k]
    <3> SUFFICES ASSUME handles'[h] = handles'[k] PROVE FALSE
      OBVIOUS
    <3>1. PICK m \in DOMAIN build.made :
                 /\ ~Building!IsIdentifier(build.made[m].data.account)
                 /\ handles[h].of = build.made[m].data.account.of
                 /\ handles[h].at = build.made[m].data.previous
      BY <2>6
    <3>2. PICK b : b = build.made[m]
      OBVIOUS
    <3>3. /\ b.data.account \in Building!Ledger /\ b.hash \in Nat /\ b.data.previous \in Nat
          /\ b.data.previous < b.hash
      BY <1>3, <3>2 DEF TxInv, HashInv
    <3>4. handles'[k] = handles[h]
      BY <2>9
    <3>5. b.data.account.of = g.account.of /\ b.data.previous = previous
      <4>1. handles'[k].of = g.account.of /\ handles'[k].at = previous
        BY <2>5
      <4>2. handles[h].of = b.data.account.of /\ handles[h].at = b.data.previous
        BY <3>1, <3>2
      <4> QED BY <3>4, <4>1, <4>2
    <3>6. b.data.account = g.account
      BY <1>2, <2>5, <3>1, <3>2, <3>3, <3>5, GroupsAssumption
    <3>7. b.hash <= previous
      BY <1>3, <3>2, <3>6
    <3> QED BY <1>3, <3>3, <3>5, <3>7
  <2>11. ASSUME NEW h \in Done \cup HandlesOf(g)
         PROVE  /\ MadeIn(handles'[h], After)
                /\ \A k \in Done \cup HandlesOf(g) : handles'[h] = handles'[k] => h = k
    <3>1. \A k \in Done : MadeIn(handles'[k], After)
      <4> SUFFICES ASSUME NEW k \in Done PROVE MadeIn(handles'[k], After)
        OBVIOUS
      <4>1. MadeIn(handles[k], Now)
        BY DEF TxInv, FilledInv
      <4>2. MadeIn(handles[k], After)
        <5> HIDE DEF Now, After
        <5> QED BY <2>3, <4>1, MadeInMore
      <4> QED BY <2>9, <4>2
    <3>2. \A k, l \in Done : handles'[k] = handles'[l] => k = l
      BY <2>9 DEF TxInv, FilledInv
    <3> HIDE DEF Done, After, Now
    <3>3. CASE h \in Done
      BY <2>10, <3>1, <3>2, <3>3
    <3>4. CASE h \in HandlesOf(g)
      BY <2>4, <2>5, <2>10, <3>4
    <3> QED BY <3>3, <3>4
  <2>12. ASSUME ~failedBuild, NEW h \in DOMAIN handles', handles'[h] # Building!NoAccount
         PROVE  MadeIn(handles'[h], sealed \cup After)
    <3>1. h \in DOMAIN handles
      BY <1>2 DEF Rendered
    <3>2. CASE h \in HandlesOf(g)
      <4>1. MadeIn(handles'[h], After)
        BY <2>5, <3>2
      <4> HIDE DEF After
      <4> QED BY <4>1, MadeInMore
    <3>3. CASE h \notin HandlesOf(g)
      <4>1. handles'[h] = handles[h]
        BY <2>8, <3>1, <3>3
      <4>2. MadeIn(handles[h], sealed \cup Now)
        BY <2>12, <3>1, <4>1 DEF TxInv, FilledInv
      <4> HIDE DEF After, Now
      <4>3. sealed \cup Now \subseteq sealed \cup After
        BY <2>3
      <4> QED BY <4>1, <4>2, <4>3, MadeInMore
    <3> QED BY <3>2, <3>3
  <2> HIDE DEF Done
  <2> QED BY <2>1, <2>11, <2>12 DEF FilledInv
<1> QED BY <1>5, <1>6, <1>7, <1>8 DEF TxInv

\* A group is rendered, and its block sealed.
LEMMA GroupKeeps ==
  ASSUME TxInv, Building!BuildGroup
  PROVE  TxInv'
<1>0. PICK g, previous : g = Head(build.todo) /\ previous = Building!PreviousFor(g)
  OBVIOUS
<1>1. PICK r : r = Building!RenderOps(g, previous)
  OBVIOUS
<1>2. PICK ops : ops = Building!IntoOperations(r)
  OBVIOUS
<1>3. PICK data : data = Building!BlockOf(g, previous, ops)
  OBVIOUS
<1>4. /\ build.phase = "running" /\ build.todo # << >> /\ handles' = r.cells
      /\ UNCHANGED <<builder, heads, sealed>>
      /\ \/ /\ r.ok /\ ops = << >>
            /\ build' = [build EXCEPT !.todo = Tail(@)] /\ UNCHANGED <<hashes, failedBuild>>
         \/ /\ r.ok /\ Building!Valid(data) /\ hashes' = hashes + 1
            /\ build' = [[build EXCEPT !.todo = Tail(@)] EXCEPT
                            !.made = Append(@, [hash |-> hashes + 1, data |-> data]),
                            !.rendered = <<data>>]
            /\ UNCHANGED failedBuild
         \/ /\ build' = [build EXCEPT !.phase = "failed",
                                      !.rendered = IF r.ok THEN <<data>> ELSE << >>]
            /\ failedBuild' = TRUE /\ UNCHANGED hashes
  BY <1>0, <1>1, <1>2, <1>3 DEF Building!BuildGroup
<1>5. DOMAIN build = {"phase", "all", "todo", "made", "rendered", "count"}
  BY DEF TxInv, CallInv
<1>6. data.ops = ops
  BY <1>3 DEF Building!BlockOf
<1>7. CASE /\ r.ok /\ ops = << >>
           /\ build' = [build EXCEPT !.todo = Tail(@)] /\ UNCHANGED <<hashes, failedBuild>>
  <2>1. /\ DOMAIN build' = {"phase", "all", "todo", "made", "rendered", "count"}
        /\ build'.phase = "running" /\ build'.all = build.all /\ build'.todo = Tail(build.todo)
        /\ build'.made = build.made /\ build'.rendered = build.rendered
    BY <1>4, <1>5, <1>7
  <2>2. /\ data.ops = << >> /\ hashes' = hashes
        /\ build'.made = build.made /\ build'.rendered = build.rendered
    BY <1>6, <1>7, <2>1
  <2>3. data = Building!BlockOf(g, previous, Building!IntoOperations(r))
    BY <1>2, <1>3
  <2>4. /\ r.ok /\ handles' = r.cells /\ UNCHANGED <<builder, heads, sealed, failedBuild>>
        /\ build.phase = "running" /\ build.todo # << >>
    BY <1>4, <1>7
  <2> QED BY <1>0, <1>1, <2>1, <2>2, <2>3, <2>4, TakenKeeps
<1>8. CASE /\ r.ok /\ Building!Valid(data) /\ hashes' = hashes + 1
           /\ build' = [[build EXCEPT !.todo = Tail(@)] EXCEPT
                            !.made = Append(@, [hash |-> hashes + 1, data |-> data]),
                            !.rendered = <<data>>]
           /\ UNCHANGED failedBuild
  <2>1. /\ DOMAIN build' = {"phase", "all", "todo", "made", "rendered", "count"}
        /\ build'.phase = "running" /\ build'.all = build.all /\ build'.todo = Tail(build.todo)
        /\ build'.made = Append(build.made, [hash |-> hashes + 1, data |-> data])
        /\ build'.rendered = <<data>>
    BY <1>4, <1>5, <1>8
  <2> QED BY <1>0, <1>1, <1>2, <1>3, <1>4, <1>8, <2>1, TakenKeeps
<1>9. CASE /\ build' = [build EXCEPT !.phase = "failed",
                                     !.rendered = IF r.ok THEN <<data>> ELSE << >>]
           /\ failedBuild' = TRUE /\ UNCHANGED hashes
  <2>1. GroupDone(g, previous, r)
    BY <1>0, <1>1, <1>4, GroupRenders
  <2>2. Listing(handles') /\ Len(handles') = Len(handles)
    BY <1>4, <2>1 DEF GroupDone
  <2>3. Fits(data)
    <3>1. RShape(r) /\ DerivedAt(g, previous, r.buckets["creates"])
      BY <2>1 DEF GroupDone, Rendered
    <3> QED BY <1>2, <1>3, <3>1, BlockFits
  <2>4. PICK shown : shown = IF r.ok THEN <<data>> ELSE << >>
    OBVIOUS
  <2>5. shown # << >> => Fits(shown[1])
    BY <2>3, <2>4
  <2>6. build' = [build EXCEPT !.phase = "failed", !.rendered = shown]
    BY <1>9, <2>4
  <2> QED BY <1>4, <1>9, <2>2, <2>5, <2>6, FailKeeps
<1> QED BY <1>4, <1>7, <1>8, <1>9

\* Every step keeps what a session keeps.
LEMMA TxStep == ASSUME TxInv, [Building!Next]_(Building!vars) PROVE TxInv'
<1>0. Len(handles) \in Nat /\ DOMAIN handles = 1..Len(handles)
  BY ListingIs DEF TxInv, BuilderInv, Listing
<1>1. CASE UNCHANGED Building!vars
  BY <1>1 DEF TxInv, BuilderInv, CallInv, HashInv, FilledInv, Building!vars
<1>2. CASE \E g \in Groups : Building!ForAccount(g[1], g[2])
  BY <1>2, SwitchKeeps
<1>3. ASSUME NEW op \in Staged, Building!Stage(op) PROVE TxInv'
  <2>1. OpOk(op, Len(handles)) /\ op.op # "createIdentifier"
    BY <1>0, StagedIsOk
  <2> QED BY <1>3, <2>1, PushKeeps DEF Building!Stage
<1>4. ASSUME NEW op \in Staged, NEW h \in DOMAIN handles,
             NEW pointing \in Building!Pointing(op, h), Building!Stage(pointing)
      PROVE  TxInv'
  <2>1. OpOk(pointing, Len(handles)) /\ pointing.op # "createIdentifier"
    BY <1>0, StagedIsOk
  <2> QED BY <1>4, <2>1, PushKeeps DEF Building!Stage
<1>5. ASSUME NEW op \in Staged, op.op = "setInfo", Building!SetInfo(op) PROVE TxInv'
  BY <1>5, SetInfoKeeps
<1>6. ASSUME NEW type \in {"token", "storage"}, Building!GenerateIdentifier(type) PROVE TxInv'
  <2>1. PICK op : op = [op |-> "createIdentifier", type |-> type, handle |-> Len(handles) + 1]
    OBVIOUS
  <2>2. op.op = "createIdentifier" /\ op.handle = Len(handles) + 1
    BY <2>1
  <2> QED BY <1>6, <2>1, <2>2, PushKeeps DEF Building!GenerateIdentifier
<1>7. CASE Building!WithPrevious(hashes)
  <2>1. /\ build.phase # "running" /\ builder' = [builder EXCEPT !.seed = hashes]
        /\ UNCHANGED <<handles, build, heads, hashes, sealed, failedBuild>>
    BY <1>7 DEF Building!WithPrevious, Building!Callable
  <2>2. /\ DOMAIN builder = {"groups", "current", "seed"} /\ hashes \in Nat
        /\ GroupsOk(builder.groups, Len(handles)) /\ GroupOk(builder.current, Len(handles))
        /\ Unfilled(Append(builder.groups, builder.current), handles)
    BY <2>1 DEF TxInv, BuilderInv, HashInv, Held
  <2>3. /\ DOMAIN builder' = {"groups", "current", "seed"} /\ builder'.groups = builder.groups
        /\ builder'.current = builder.current /\ builder'.seed \in 0..hashes
    BY <2>1, <2>2
  <2> QED BY <2>1, <2>2, <2>3, StagingKeeps
<1>8. CASE Building!BuildInterrupted
  <2>1. Listing(handles) /\ << >> = << >>
    BY DEF TxInv, BuilderInv
  <2>2. PICK shown : shown = << >>
    OBVIOUS
  <2> QED BY <1>8, <2>1, <2>2, FailKeeps DEF Building!BuildInterrupted
<1>9. CASE \E a \in Building!Ledger : Building!HeadMoves(a)
  BY <1>9, HeadKeeps
<1> QED BY <1>1, <1>2, <1>3, <1>4, <1>5, <1>6, <1>7, <1>8, <1>9, BuildKeeps, GroupKeeps, ReturnKeeps
     DEF Building!Next

\* What a session with the builder keeps, whatever is staged and however the
\* network moves (TransactionBuilder).
THEOREM TxInvariant == LocalSpec => []TxInv
<1>1. LocalInit => TxInv
  BY TxInit DEF LocalInit
<1>2. TxInv /\ [LocalNext]_localVars => TxInv'
  BY TxStep, OnlyBuilding
<1> QED BY <1>1, <1>2, PTL DEF LocalSpec

\* Every identifier a block creates is the one its validation derives, however
\* creates and other operations were interleaved (push_create).
THEOREM CreatesFitHolds == LocalSpec => []CreatesFit
<1>1. TxInv => CreatesFit
  BY DEF TxInv, CallInv, Fits, CreatesFit, Building!CreatesFit
<1> QED BY <1>1, TxInvariant, PTL

\* A handle resolves to an identifier that a returned block creates, as long as
\* no call was lost, and the handles of one call to different ones
\* (PendingAccount).
THEOREM HandlesAreCreatedHolds == LocalSpec => []HandlesAreCreated
<1>1. ASSUME TxInv PROVE HandlesAreCreated
  <2>1. ASSUME build.phase # "running", ~failedBuild, NEW h \in DOMAIN handles,
               handles[h] # Building!NoAccount
        PROVE  \E b \in sealed : \E i \in Building!Creates(b.data) :
                 b.data.ops[i].identifier = handles[h]
    <3>1. MadeIn(handles[h], sealed \cup {})
      BY <1>1, <2>1 DEF TxInv, FilledInv
    <3> QED BY <3>1 DEF MadeIn
  <2>2. ASSUME build.phase = "ok"
        PROVE  LET made == {h \in DOMAIN handles : \E i \in DOMAIN build.all :
                              \E j \in DOMAIN build.all[i].ops :
                                LET op == build.all[i].ops[j]
                                IN op.op = "createIdentifier" /\ op.handle = h}
               IN \A h, k \in made :
                    handles[h] # Building!NoAccount /\ (h # k => handles[h] # handles[k])
    <3>1. PICK all : all = build.all
      OBVIOUS
    <3>2. /\ GroupsOk(all, Len(handles)) /\ build.todo = << >> /\ Len(build.todo) = 0
      BY <1>1, <2>2, <3>1 DEF TxInv, CallInv
    <3>3. Len(all) \in Nat /\ DOMAIN all = 1..Len(all)
      BY <3>2, ListingIs DEF GroupsOk, Listing
    <3>4. DoneHandles(build) = UNION {HandlesOf(all[i]) : i \in DOMAIN all}
      <4>1. 1..(Len(all) - Len(build.todo)) = DOMAIN all
        BY <3>2, <3>3
      <4> QED BY <3>1, <4>1, Zenon DEF DoneHandles
    <3>5. ASSUME NEW h, NEW i \in DOMAIN all, NEW j \in DOMAIN all[i].ops,
                 all[i].ops[j].op = "createIdentifier", all[i].ops[j].handle = h
          PROVE  h \in DoneHandles(build)
      <4>1. Listing(all[i].ops)
        BY <3>2 DEF GroupsOk, GroupOk
      <4>2. j \in CreatesIn(all[i])
        BY <3>5, <4>1, ListingIs DEF CreatesIn, CreatesOf, Listing
      <4>3. h \in HandlesOf(all[i])
        BY <3>5, <4>2 DEF HandlesOf
      <4> QED BY <3>4, <4>3
    <3>6. ASSUME NEW h \in DoneHandles(build)
          PROVE  /\ handles[h] # Building!NoAccount
                 /\ \A k \in DoneHandles(build) : handles[h] = handles[k] => h = k
      <4>1. /\ MadeIn(handles[h], Building!ToSet(build.made))
            /\ \A k \in DoneHandles(build) : handles[h] = handles[k] => h = k
        BY <1>1, <2>2 DEF TxInv, FilledInv
      <4>2. PICK m \in DOMAIN build.made : \E i \in Building!Creates(build.made[m].data) :
                   build.made[m].data.ops[i].identifier = handles[h]
        BY <4>1 DEF MadeIn, Building!ToSet
      <4>3. Building!Valid(build.made[m].data)
        BY <1>1 DEF TxInv, HashInv
      <4> QED BY <4>1, <4>2, <4>3, CreatedIsDerived
    <3> QED BY <3>1, <3>5, <3>6
  <2> QED BY <2>1, <2>2 DEF HandlesAreCreated, Building!HandlesAreCreated
<1> QED BY <1>1, TxInvariant, PTL

-----------------------------------------------------------------------------
(* Adding up.                                                              *)

AddStep(c, n, x) == n + x
AddInv(c, n, x) == x \in Int
AddFold == INSTANCE FoldFacts WITH Step <- AddStep, Inv <- AddInv

\* t holds the sums of the first entries of w.
Runs(w, t) == t[0] = 0 /\ \A i \in 1..Len(w) : t[i] = t[i - 1] + w[i]

\* A total is the last of such sums, and there are no others.
LEMMA TotalIs ==
  ASSUME NEW w \in Seq(Int)
  PROVE  /\ \E t : Runs(w, t) /\ \A i \in 0..Len(w) : t[i] \in Int
         /\ \A t : Runs(w, t) => Building!Total(w) = t[Len(w)]
         /\ Building!Total(w) \in Int
<1>1. Building!Total(w) = AddFold!Fold(0, 0, w)
  BY DEF Building!Total, Building!FoldLeft, Building!MapThenFoldSet, Building!Max,
         AddFold!Fold, AddFold!FoldLeft, AddFold!MapThenFoldSet, AddFold!Max, AddStep
<1>2. PICK t : AddFold!Trace(0, 0, w, t) /\ AddFold!Fold(0, 0, w) = t[Len(w)]
  BY AddFold!FoldHasTrace
<1>3. Runs(w, t)
  BY <1>2 DEF AddFold!Trace, Runs, AddStep
<1>4. ASSUME NEW u, Runs(w, u) PROVE \A i \in 0..Len(w) : u[i] \in Int /\ u[i] = t[i]
  <2> DEFINE M == {n \in Nat : n <= Len(w) => u[n] \in Int /\ u[n] = t[n]}
  <2>1. 0 \in M
    BY <1>3, <1>4 DEF Runs
  <2>2. ASSUME NEW n \in M PROVE n + 1 \in M
    <3> SUFFICES ASSUME n + 1 <= Len(w) PROVE u[n + 1] \in Int /\ u[n + 1] = t[n + 1]
      OBVIOUS
    <3>1. n + 1 \in 1..Len(w) /\ (n + 1) - 1 = n /\ u[n] \in Int /\ u[n] = t[n] /\ w[n + 1] \in Int
      OBVIOUS
    <3>2. u[n + 1] = u[n] + w[n + 1] /\ t[n + 1] = t[n] + w[n + 1]
      BY <1>3, <1>4, <3>1 DEF Runs
    <3> QED BY <3>1, <3>2
  <2>3. M = Nat
    <3> HIDE DEF M
    <3>1. M \in SUBSET Nat
      BY DEF M
    <3> QED BY <2>1, <2>2, <3>1, NatInductionSet
  <2> QED BY <2>3
<1>5. Len(w) \in 0..Len(w)
  OBVIOUS
<1> QED BY <1>1, <1>2, <1>3, <1>4, <1>5

\* The total of nothing, and of one entry more.
LEMMA TotalAppend ==
  /\ Building!Total(<< >>) = 0
  /\ \A w \in Seq(Int), x \in Int : Building!Total(Append(w, x)) = Building!Total(w) + x
<1>1. Building!Total(<< >>) = 0
  <2>1. << >> \in Seq(Int) /\ Len(<< >>) = 0
    OBVIOUS
  <2>2. PICK t : Runs(<< >>, t)
    BY <2>1, TotalIs
  <2>3. Building!Total(<< >>) = t[Len(<< >>)]
    BY <2>1, <2>2, TotalIs
  <2> QED BY <2>1, <2>2, <2>3 DEF Runs
<1>2. ASSUME NEW w \in Seq(Int), NEW x \in Int
      PROVE  Building!Total(Append(w, x)) = Building!Total(w) + x
  <2>1. PICK t : Runs(w, t)
    BY TotalIs
  <2>2. PICK v : v = Append(w, x)
    OBVIOUS
  <2>3. /\ v \in Seq(Int) /\ Len(v) = Len(w) + 1 /\ \A i \in 1..Len(w) : v[i] = w[i]
        /\ v[Len(w) + 1] = x /\ Len(w) \in Nat
    BY <2>2
  <2> DEFINE u == [i \in 0..(Len(w) + 1) |-> IF i <= Len(w) THEN t[i] ELSE t[Len(w)] + x]
  <2>4. u[0] = 0
    BY <2>1, <2>3 DEF Runs
  <2>5. ASSUME NEW i \in 1..Len(v) PROVE u[i] = u[i - 1] + v[i]
    <3>1. CASE i <= Len(w)
      <4>1. u[i] = t[i] /\ u[i - 1] = t[i - 1] /\ v[i] = w[i] /\ i \in 1..Len(w)
        BY <2>3, <3>1
      <4> QED BY <2>1, <4>1 DEF Runs
    <3>2. CASE i = Len(w) + 1
      <4>1. u[i] = t[Len(w)] + x /\ u[i - 1] = t[Len(w)] /\ v[i] = x
        BY <2>3, <3>2
      <4> QED BY <4>1
    <3> QED BY <2>3, <3>1, <3>2
  <2>6. Runs(v, u)
    <3> HIDE DEF u
    <3> QED BY <2>4, <2>5 DEF Runs
  <2>7. u[Len(v)] = t[Len(w)] + x
    BY <2>3
  <2> HIDE DEF u
  <2>8. Building!Total(v) = u[Len(v)]
    BY <2>3, <2>6, TotalIs
  <2>9. Building!Total(w) = t[Len(w)]
    BY <2>1, TotalIs
  <2> QED BY <2>2, <2>7, <2>8, <2>9
<1> QED BY <1>1, <1>2

\* The total of two lists one after the other.
LEMMA TotalConcat ==
  ASSUME NEW w \in Seq(Int), NEW x \in Seq(Int)
  PROVE  Building!Total(w \o x) = Building!Total(w) + Building!Total(x)
<1>1. PICK t : Runs(w, t) /\ \A i \in 0..Len(w) : t[i] \in Int
  BY TotalIs
<1>2. PICK s : Runs(x, s) /\ \A i \in 0..Len(x) : s[i] \in Int
  BY TotalIs
<1>3. PICK v : v = w \o x
  OBVIOUS
<1>4. /\ v \in Seq(Int) /\ Len(v) = Len(w) + Len(x) /\ \A i \in 1..Len(w) : v[i] = w[i]
      /\ \A i \in (Len(w) + 1)..Len(v) : v[i] = x[i - Len(w)]
      /\ Len(w) \in Nat /\ Len(x) \in Nat
  BY <1>3
<1> DEFINE u == [i \in 0..Len(v) |-> IF i <= Len(w) THEN t[i] ELSE t[Len(w)] + s[i - Len(w)]]
<1>5. u[0] = 0
  BY <1>1, <1>4 DEF Runs
<1>6. ASSUME NEW i \in 1..Len(v) PROVE u[i] = u[i - 1] + v[i]
  <2>1. CASE i <= Len(w)
    <3>1. u[i] = t[i] /\ u[i - 1] = t[i - 1] /\ v[i] = w[i] /\ i \in 1..Len(w)
      BY <1>4, <2>1
    <3> QED BY <1>1, <3>1 DEF Runs
  <2>2. CASE i > Len(w)
    <3>1. PICK k : k = i - Len(w)
      OBVIOUS
    <3>0. /\ k \in 1..Len(x) /\ k - 1 \in 0..Len(x) /\ k \in 0..Len(x) /\ i = Len(w) + k
          /\ i \in (Len(w) + 1)..Len(v) /\ i \in 0..Len(v) /\ ~(i <= Len(w)) /\ i \in Int
      <4>1. PICK m, n, o : m = Len(w) /\ n = Len(x) /\ o = Len(v)
        OBVIOUS
      <4>2. m \in Nat /\ n \in Nat /\ o = m + n /\ i \in 1..o /\ i > m /\ k = i - m
        BY <1>4, <2>2, <3>1, <4>1
      <4>3. /\ k \in 1..n /\ k - 1 \in 0..n /\ k \in 0..n /\ i = m + k
            /\ i \in (m + 1)..o /\ i \in 0..o /\ ~(i <= m) /\ i \in Int
        BY <4>2
      <4> QED BY <4>1, <4>3, Zenon
    <3>2. u[i] = t[Len(w)] + s[k] /\ v[i] = x[k]
      <4>1. v[i] = x[i - Len(w)]
        BY <1>4, <3>0, Zenon
      <4>2. u[i] = t[Len(w)] + s[i - Len(w)]
        BY <3>0
      <4> QED BY <3>1, <4>1, <4>2, Zenon
    <3>3. u[i - 1] = t[Len(w)] + s[k - 1]
      <4>1. CASE k = 1
        <5>1. i - 1 = Len(w) /\ s[k - 1] = 0
          <6>1. i - 1 = Len(w) /\ k - 1 = 0
            BY <1>4, <3>0, <4>1
          <6>2. s[0] = 0
            BY <1>2 DEF Runs
          <6> QED BY <6>1, <6>2, Zenon
        <5>2. u[i - 1] = t[Len(w)] /\ t[Len(w)] \in Int
          BY <1>1, <1>4, <5>1
        <5> QED BY <5>1, <5>2
      <4>2. CASE k # 1
        <5>1. i - 1 > Len(w) /\ (i - 1) - Len(w) = k - 1 /\ i - 1 \in 0..Len(v)
          BY <1>4, <3>0, <4>2
        <5> QED BY <1>4, <5>1
      <4> QED BY <4>1, <4>2
    <3>4. s[k] = s[k - 1] + x[k]
      BY <1>2, <3>0 DEF Runs
    <3>5. t[Len(w)] \in Int /\ s[k - 1] \in Int /\ x[k] \in Int
      <4>1. Len(w) \in 0..Len(w)
        BY <1>4
      <4>2. x[k] \in Int
        BY <3>0
      <4> QED BY <1>1, <1>2, <3>0, <4>1, <4>2, Zenon
    <3> HIDE DEF u
    <3> QED BY <3>2, <3>3, <3>4, <3>5
  <2> QED BY <1>4, <2>1, <2>2
<1>7. Runs(v, u)
  <2> HIDE DEF u
  <2> QED BY <1>5, <1>6 DEF Runs
<1>8. u[Len(v)] = t[Len(w)] + s[Len(x)]
  <2>1. CASE Len(x) = 0
    <3>1. Len(v) = Len(w) /\ s[Len(x)] = 0 /\ t[Len(w)] \in Int
      BY <1>1, <1>2, <1>4, <2>1 DEF Runs
    <3> QED BY <1>4, <3>1, SMTT(30)
  <2>2. CASE Len(x) # 0
    <3>1. Len(v) > Len(w) /\ Len(v) - Len(w) = Len(x) /\ Len(v) \in 0..Len(v)
      BY <1>4, <2>2
    <3> QED BY <1>4, <3>1
  <2> QED BY <2>1, <2>2
<1> HIDE DEF u
<1>9. Building!Total(v) = u[Len(v)]
  BY <1>4, <1>7, TotalIs
<1>10. Building!Total(w) = t[Len(w)] /\ Building!Total(x) = s[Len(x)]
  BY <1>1, <1>2, TotalIs
<1> QED BY <1>3, <1>8, <1>9, <1>10

\* The total when one entry changes.
LEMMA TotalChange ==
  ASSUME NEW w \in Seq(Int), NEW v \in Seq(Int), Len(v) = Len(w), NEW k \in 1..Len(w),
         \A i \in 1..Len(w) : i # k => v[i] = w[i]
  PROVE  Building!Total(v) = Building!Total(w) + (v[k] - w[k])
<1>1. PICK t : Runs(w, t) /\ \A i \in 0..Len(w) : t[i] \in Int
  BY TotalIs
<1> DEFINE u == [i \in 0..Len(w) |-> IF i < k THEN t[i] ELSE t[i] + (v[k] - w[k])]
<1>2. u[0] = 0
  BY <1>1 DEF Runs
<1>3. ASSUME NEW i \in 1..Len(v) PROVE u[i] = u[i - 1] + v[i]
  <2>1. /\ t[i] = t[i - 1] + w[i] /\ t[i] \in Int /\ t[i - 1] \in Int /\ w[i] \in Int /\ v[i] \in Int
        /\ v[k] \in Int /\ w[k] \in Int /\ i \in 0..Len(w) /\ i - 1 \in 0..Len(w)
    BY <1>1 DEF Runs
  <2>2. CASE i < k
    BY <2>1, <2>2
  <2>3. CASE i = k
    BY <2>1, <2>3
  <2>4. CASE i > k
    <3>1. v[i] = w[i]
      BY <2>4
    <3>2. PICK a, b, c, d : a = t[i] /\ b = t[i - 1] /\ c = w[i] /\ d = v[k] - w[k]
      OBVIOUS
    <3>3. a \in Int /\ b \in Int /\ c \in Int /\ d \in Int /\ a = b + c
      BY <2>1, <3>2
    <3>4. ~(i < k) /\ ~(i - 1 < k)
      BY <2>1, <2>4
    <3>5. u[i] = a + d /\ u[i - 1] = b + d
      BY <2>1, <3>2, <3>4
    <3>6. a + d = (b + d) + c
      BY <3>3
    <3> QED BY <3>1, <3>2, <3>5, <3>6
  <2> QED BY <2>2, <2>3, <2>4
<1>4. Runs(v, u)
  <2> HIDE DEF u
  <2> QED BY <1>2, <1>3 DEF Runs
<1>5. u[Len(v)] = t[Len(w)] + (v[k] - w[k])
  OBVIOUS
<1> HIDE DEF u
<1>6. Building!Total(v) = u[Len(v)] /\ Building!Total(w) = t[Len(w)]
  BY <1>1, <1>4, TotalIs
<1> QED BY <1>5, <1>6

\* The total of zeros.
LEMMA TotalZero ==
  ASSUME NEW w \in Seq(Int), \A i \in 1..Len(w) : w[i] = 0
  PROVE  Building!Total(w) = 0
<1> DEFINE t == [i \in 0..Len(w) |-> 0]
<1>1. Runs(w, t)
  BY DEF Runs
<1>2. t[Len(w)] = 0
  OBVIOUS
<1> HIDE DEF t
<1> QED BY <1>1, <1>2, TotalIs

\* What a list weighs.
Weighed(W, ops) == [i \in DOMAIN ops |-> W[ops[i]]]
Weight(W, ops) == Building!Total(Weighed(W, ops))

\* One list after the other weighs as much as both.
LEMMA WeightConcat ==
  ASSUME NEW X, NEW W \in [X -> Int], NEW u \in Seq(X), NEW v \in Seq(X)
  PROVE  /\ Weight(W, u \o v) = Weight(W, u) + Weight(W, v)
         /\ Weight(W, u) \in Int /\ u \o v \in Seq(X)
<1>1. Weighed(W, u) \in Seq(Int) /\ Weighed(W, v) \in Seq(Int)
  BY DEF Weighed
<1>2. Weighed(W, u \o v) = Weighed(W, u) \o Weighed(W, v)
  <2>1. PICK a, b : a = Weighed(W, u) /\ b = Weighed(W, v)
    OBVIOUS
  <2>2. a \in Seq(Int) /\ Len(a) = Len(u) /\ b \in Seq(Int) /\ Len(b) = Len(v)
    BY <1>1, <2>1 DEF Weighed
  <2>3. PICK c, d : c = u \o v /\ d = a \o b
    OBVIOUS
  <2>4. /\ c \in Seq(X) /\ Len(c) = Len(u) + Len(v) /\ DOMAIN c = 1..(Len(u) + Len(v))
        /\ d \in Seq(Int) /\ Len(d) = Len(u) + Len(v) /\ DOMAIN d = 1..(Len(u) + Len(v))
    <3>1. /\ c \in Seq(X) /\ Len(c) = Len(u) + Len(v)
      BY <2>3
    <3>0. \A p, q \in Seq(Int) : p \o q \in Seq(Int) /\ Len(p \o q) = Len(p) + Len(q)
      OBVIOUS
    <3>2. d \in Seq(Int) /\ Len(d) = Len(a) + Len(b)
      BY <2>2, <2>3, <3>0, Zenon
    <3>3. Len(d) = Len(u) + Len(v)
      BY <2>2, <3>2
    <3>4. DOMAIN c = 1..Len(c) /\ DOMAIN d = 1..Len(d)
      BY <3>1, <3>2
    <3> QED BY <3>1, <3>2, <3>3, <3>4, Zenon
  <2>5. ASSUME NEW i \in 1..(Len(u) + Len(v)) PROVE d[i] = W[c[i]]
    <3>1. CASE i <= Len(u)
      <4>1. c[i] = u[i] /\ d[i] = a[i] /\ i \in DOMAIN u
        BY <2>2, <2>3, <3>1
      <4> QED BY <2>1, <4>1 DEF Weighed
    <3>2. CASE ~(i <= Len(u))
      <4>1. PICK k : k = i - Len(u)
        OBVIOUS
      <4>2. k \in DOMAIN v
        BY <3>2, <4>1
      <4>3. c[i] = v[i - Len(u)] /\ d[i] = b[i - Len(u)]
        BY <2>2, <2>3, <3>2
      <4>4. c[i] = v[k] /\ d[i] = b[k]
        BY <4>1, <4>3
      <4> QED BY <2>1, <4>2, <4>4 DEF Weighed
    <3> QED BY <3>1, <3>2
  <2>6. d = [i \in DOMAIN c |-> W[c[i]]]
    BY <2>4, <2>5
  <2> QED BY <2>1, <2>3, <2>6 DEF Weighed
<1>3. u \o v \in Seq(X)
  OBVIOUS
<1> QED BY <1>1, <1>2, <1>3, TotalConcat, TotalIs DEF Weight

\* What is strung together weighs as much as its parts.
LEMMA WeightFlatten ==
  ASSUME NEW X, NEW W \in [X -> Int], NEW seqs \in Seq(Seq(X))
  PROVE  Weight(W, Building!FlattenSeq(seqs))
           = Building!Total([i \in DOMAIN seqs |-> Weight(W, seqs[i])])
<1> DEFINE n == Len(seqs)
           parts == [i \in DOMAIN seqs |-> Weight(W, seqs[i])]
<1>0. n \in Nat /\ DOMAIN seqs = 1..n /\ \A i \in 1..n : seqs[i] \in Seq(X)
  OBVIOUS
<1>1. CASE n = 0
  <2>1. Building!FlattenSeq(seqs) = seqs /\ DOMAIN seqs = {}
    BY <1>0, <1>1 DEF Building!FlattenSeq
  <2>2. Weighed(W, seqs) = << >> /\ parts = << >>
    BY <2>1 DEF Weighed
  <2> HIDE DEF parts
  <2>3. Weight(W, seqs) = 0 /\ Building!Total(parts) = 0
    BY <2>2, TotalAppend DEF Weight
  <2> QED BY <2>1, <2>3 DEF parts
<1>2. CASE n # 0
  <2>1. PICK t : /\ t[1] = seqs[1] /\ \A i \in 2..n : t[i] = t[i - 1] \o seqs[i]
                 /\ Building!FlattenSeq(seqs) = t[n]
    <3>1. Len(seqs) >= 1
      BY <1>0, <1>2
    <3> HIDE DEF n
    <3> QED BY <3>1, FlattenUnrolls DEF n
  <2>2. \A i \in 1..n : Weight(W, seqs[i]) \in Int
    BY <1>0, WeightConcat
  <2>3. parts \in Seq(Int) /\ Len(parts) = n /\ \A i \in 1..n : parts[i] = Weight(W, seqs[i])
    BY <1>0, <2>2
  <2> HIDE DEF parts
  <2>4. PICK s : Runs(parts, s)
    BY <2>3, TotalIs
  <2> DEFINE M == {m \in Nat : m + 1 <= n => t[m + 1] \in Seq(X) /\ Weight(W, t[m + 1]) = s[m + 1]}
  <2>5. 0 \in M
    <3>1. 1 \in 1..n /\ s[0] = 0 /\ s[1] = s[0] + parts[1]
      BY <1>0, <1>2, <2>3, <2>4 DEF Runs
    <3>2. s[1] = Weight(W, seqs[1])
      BY <2>2, <2>3, <3>1
    <3> QED BY <1>0, <2>1, <3>1, <3>2
  <2>6. ASSUME NEW m \in M PROVE m + 1 \in M
    <3> SUFFICES ASSUME (m + 1) + 1 <= n
                 PROVE  t[(m + 1) + 1] \in Seq(X) /\ Weight(W, t[(m + 1) + 1]) = s[(m + 1) + 1]
      OBVIOUS
    <3>1. PICK k : k = (m + 1) + 1
      OBVIOUS
    <3>2. k \in 2..n /\ k \in 1..n /\ k - 1 = m + 1 /\ t[m + 1] \in Seq(X) /\ Weight(W, t[m + 1]) = s[m + 1]
      BY <3>1
    <3>3. t[k] = t[m + 1] \o seqs[k] /\ s[k] = s[m + 1] + Weight(W, seqs[k])
      BY <2>1, <2>3, <2>4, <3>2 DEF Runs
    <3>4. t[k] \in Seq(X) /\ Weight(W, t[k]) = s[k]
      <4>1. PICK a, b : a = t[m + 1] /\ b = seqs[k]
        OBVIOUS
      <4>2. a \in Seq(X) /\ b \in Seq(X)
        BY <1>0, <3>2, <4>1
      <4>3. Weight(W, a \o b) = Weight(W, a) + Weight(W, b) /\ a \o b \in Seq(X)
        BY <4>2, WeightConcat
      <4> QED BY <3>2, <3>3, <4>1, <4>3
    <3> QED BY <3>1, <3>4
  <2>7. M = Nat
    <3> HIDE DEF M
    <3>1. M \in SUBSET Nat
      BY DEF M
    <3> QED BY <2>5, <2>6, <3>1, NatInductionSet
  <2>8. Weight(W, t[n]) = s[n]
    <3>0. \A k \in Nat : k # 0 => k - 1 \in Nat /\ (k - 1) + 1 = k /\ k <= k
      OBVIOUS
    <3>1. PICK m \in Nat : m + 1 = n
      <4> HIDE DEF n
      <4> QED BY <1>0, <1>2, <3>0
    <3>2. m \in M /\ m + 1 <= n
      <4> HIDE DEF n, M
      <4> QED BY <1>0, <2>7, <3>1
    <3>3. Weight(W, t[m + 1]) = s[m + 1]
      BY <3>2
    <3> HIDE DEF n
    <3> QED BY <3>1, <3>3
  <2>9. Building!Total(parts) = s[n]
    BY <2>3, <2>4, TotalIs
  <2> QED BY <2>1, <2>8, <2>9 DEF parts
<1> QED BY <1>1, <1>2

-----------------------------------------------------------------------------
(* What a block gives, and what was asked for.                             *)

AmountsOk(ops) ==
  Listing(ops) /\ \A i \in DOMAIN ops : ops[i].op = "send" => ops[i].amount \in Int
GivenOf(ops, to, token) == [i \in DOMAIN ops |-> Building!Given(ops[i], to, token)]

\* The amounts of a list.
LEMMA GivenInts ==
  ASSUME NEW ops, AmountsOk(ops), NEW to, NEW token
  PROVE  /\ GivenOf(ops, to, token) \in Seq(Int) /\ Len(GivenOf(ops, to, token)) = Len(ops)
         /\ Len(ops) \in Nat /\ DOMAIN ops = 1..Len(ops)
         /\ Building!TotalGiven(ops, to, token) = Building!Total(GivenOf(ops, to, token))
         /\ Building!TotalGiven(ops, to, token) \in Int
<1>1. Len(ops) \in Nat /\ DOMAIN ops = 1..Len(ops)
  BY ListingIs DEF AmountsOk, Listing
<1>2. \A i \in DOMAIN ops : Building!Given(ops[i], to, token) \in Int
  BY DEF AmountsOk, Building!Given
<1>3. GivenOf(ops, to, token) \in Seq(Int) /\ Len(GivenOf(ops, to, token)) = Len(ops)
  BY <1>1, <1>2 DEF GivenOf
<1>4. Building!TotalGiven(ops, to, token) = Building!Total(GivenOf(ops, to, token))
  BY DEF Building!TotalGiven, GivenOf
<1> QED BY <1>1, <1>3, <1>4, TotalIs

\* One operation more.
LEMMA GivenAppend ==
  ASSUME NEW ops, AmountsOk(ops), NEW op, op.op = "send" => op.amount \in Int
  PROVE  /\ AmountsOk(Append(ops, op))
         /\ \A to, token : Building!TotalGiven(Append(ops, op), to, token)
              = Building!TotalGiven(ops, to, token) + Building!Given(op, to, token)
<1>1. PICK more : more = Append(ops, op)
  OBVIOUS
<1>2. /\ Listing(more) /\ Len(ops) \in Nat /\ DOMAIN ops = 1..Len(ops) /\ Len(more) = Len(ops) + 1
      /\ DOMAIN more = 1..(Len(ops) + 1) /\ \A i \in DOMAIN ops : more[i] = ops[i]
      /\ more[Len(ops) + 1] = op
  BY <1>1, ListingAppend DEF AmountsOk
<1>3. AmountsOk(more)
  <2>1. \A i \in DOMAIN more : i \in DOMAIN ops \/ i = Len(ops) + 1
    BY <1>2
  <2> QED BY <1>2, <2>1 DEF AmountsOk
<1>4. ASSUME NEW to, NEW token
      PROVE  Building!TotalGiven(more, to, token)
               = Building!TotalGiven(ops, to, token) + Building!Given(op, to, token)
  <2>1. PICK w, v : w = GivenOf(ops, to, token) /\ v = GivenOf(more, to, token)
    OBVIOUS
  <2>2. /\ w \in Seq(Int) /\ Len(w) = Len(ops) /\ Building!TotalGiven(ops, to, token) = Building!Total(w)
        /\ v \in Seq(Int) /\ Len(v) = Len(ops) + 1
        /\ Building!TotalGiven(more, to, token) = Building!Total(v)
    BY <1>2, <1>3, <2>1, GivenInts
  <2>3. PICK x : x = Building!Given(op, to, token)
    OBVIOUS
  <2>4. x \in Int
    BY <2>3 DEF Building!Given
  <2>5. \A i \in 1..Len(w) : v[i] = w[i]
    BY <1>2, <2>1, <2>2 DEF GivenOf
  <2>6. v[Len(w) + 1] = x
    BY <1>2, <2>1, <2>2, <2>3 DEF GivenOf
  <2>7. v = Append(w, x)
    BY <2>2, <2>4, <2>5, <2>6
  <2> QED BY <2>2, <2>3, <2>4, <2>7, TotalAppend
<1> QED BY <1>1, <1>3, <1>4

\* No sends, nothing given.
LEMMA GivenNone ==
  ASSUME NEW ops, AmountsOk(ops), \A i \in DOMAIN ops : ops[i].op # "send", NEW to, NEW token
  PROVE  Building!TotalGiven(ops, to, token) = 0
<1>1. PICK w : w = GivenOf(ops, to, token)
  OBVIOUS
<1>2. w \in Seq(Int) /\ Len(w) = Len(ops) /\ Building!TotalGiven(ops, to, token) = Building!Total(w)
  BY <1>1, GivenInts
<1>3. \A i \in 1..Len(w) : w[i] = 0
  BY <1>1, <1>2, GivenInts DEF GivenOf, Building!Given
<1> QED BY <1>2, <1>3, TotalZero

\* The sums by recipient and token are of one kind, and there is one of each.
SumsOk(sums) ==
  /\ AmountsOk(sums)
  /\ \A i \in DOMAIN sums : {"op", "to", "token", "amount"} \subseteq DOMAIN sums[i] /\ sums[i].op = "send"
  /\ \A i, j \in DOMAIN sums : sums[i].to = sums[j].to /\ sums[i].token = sums[j].token => i = j

\* AggregatedSend keeps the amounts.
LEMMA AddedKeeps ==
  ASSUME NEW sums, SumsOk(sums), NEW send, send.op = "send", send.amount \in Int,
         {"op", "to", "token", "amount"} \subseteq DOMAIN send,
         NEW more, more = Building!AddedSend(sums, send)
  PROVE  /\ SumsOk(more)
         /\ \A to, token : Building!TotalGiven(more, to, token)
              = Building!TotalGiven(sums, to, token) + Building!Given(send, to, token)
<1> DEFINE same(s) == s.to = send.to /\ s.token = send.token
<1>1. /\ Len(sums) \in Nat /\ DOMAIN sums = 1..Len(sums) /\ AmountsOk(sums)
      /\ \A i \in DOMAIN sums : sums[i].amount \in Int
  BY ListingIs DEF SumsOk, AmountsOk, Listing
<1>2. CASE \E i \in DOMAIN sums : same(sums[i])
  <2>1. more = [i \in DOMAIN sums |->
                  IF same(sums[i]) THEN [sums[i] EXCEPT !.amount = @ + send.amount] ELSE sums[i]]
    BY <1>2 DEF Building!AddedSend
  <2>2. PICK k \in DOMAIN sums : same(sums[k])
    BY <1>2
  <2>3. \A i \in DOMAIN sums : i # k => ~same(sums[i])
    BY <2>2 DEF SumsOk
  <2>4. /\ DOMAIN more = DOMAIN sums /\ more[k] = [sums[k] EXCEPT !.amount = sums[k].amount + send.amount]
        /\ \A i \in DOMAIN sums : i # k => more[i] = sums[i]
    BY <2>1, <2>2, <2>3
  <2>5. /\ more[k].op = "send" /\ more[k].to = sums[k].to /\ more[k].token = sums[k].token
        /\ more[k].amount = sums[k].amount + send.amount /\ DOMAIN more[k] = DOMAIN sums[k]
    BY <2>2, <2>4 DEF SumsOk
  <2>6. Listing(more)
    <3>1. DOMAIN more = 1..Len(sums) /\ more = [i \in 1..Len(sums) |-> more[i]]
      BY <1>1, <2>1, <2>4
    <3> QED BY <1>1, <3>1, ListingMade
  <2>7. \A i \in DOMAIN more : /\ more[i].amount \in Int /\ more[i].op = "send"
                               /\ more[i].to = sums[i].to /\ more[i].token = sums[i].token
                               /\ {"op", "to", "token", "amount"} \subseteq DOMAIN more[i]
    BY <1>1, <2>4, <2>5 DEF SumsOk
  <2>8. AmountsOk(more)
    BY <2>6, <2>7 DEF AmountsOk
  <2>9. SumsOk(more)
    BY <2>4, <2>7, <2>8 DEF SumsOk
  <2>10. ASSUME NEW to, NEW token
         PROVE  Building!TotalGiven(more, to, token)
                  = Building!TotalGiven(sums, to, token) + Building!Given(send, to, token)
    <3>1. PICK w, v : w = GivenOf(sums, to, token) /\ v = GivenOf(more, to, token)
      OBVIOUS
    <3>2. /\ w \in Seq(Int) /\ Len(w) = Len(sums) /\ v \in Seq(Int) /\ Len(v) = Len(more)
          /\ Building!TotalGiven(sums, to, token) = Building!Total(w)
          /\ Building!TotalGiven(more, to, token) = Building!Total(v)
          /\ DOMAIN more = 1..Len(more) /\ Len(more) \in Nat
      BY <1>1, <2>8, <3>1, GivenInts
    <3>3. Len(v) = Len(w)
      BY <1>1, <2>4, <3>2
    <3>4. \A i \in 1..Len(w) : i # k => v[i] = w[i]
      BY <1>1, <2>4, <3>1, <3>2 DEF GivenOf
    <3>5. w[k] = Building!Given(sums[k], to, token) /\ v[k] = Building!Given(more[k], to, token)
      BY <2>4, <3>1 DEF GivenOf
    <3>6. v[k] - w[k] = Building!Given(send, to, token)
      <4>1. sums[k].op = "send" /\ sums[k].amount \in Int
        BY <1>1 DEF SumsOk
      <4> QED BY <2>2, <2>5, <3>5, <4>1 DEF Building!Given
    <3>7. Building!Total(v) = Building!Total(w) + (v[k] - w[k])
      BY <1>1, <3>2, <3>3, <3>4, TotalChange
    <3> QED BY <3>2, <3>6, <3>7
  <2> QED BY <2>9, <2>10
<1>3. CASE ~\E i \in DOMAIN sums : same(sums[i])
  <2>1. more = Append(sums, send)
    BY <1>3 DEF Building!AddedSend
  <2>2. /\ AmountsOk(more)
        /\ \A to, token : Building!TotalGiven(more, to, token)
             = Building!TotalGiven(sums, to, token) + Building!Given(send, to, token)
    BY <1>1, <2>1, GivenAppend
  <2>3. /\ DOMAIN more = 1..(Len(sums) + 1) /\ \A i \in DOMAIN sums : more[i] = sums[i]
        /\ more[Len(sums) + 1] = send
    BY <1>1, <2>1, ListingAppend DEF AmountsOk
  <2>4. \A i \in DOMAIN more : 
           (i \in DOMAIN sums /\ more[i] = sums[i]) \/ (i = Len(sums) + 1 /\ more[i] = send)
    BY <1>1, <2>3
  <2>5. SumsOk(more)
    <3>1. \A i \in DOMAIN more : {"op", "to", "token", "amount"} \subseteq DOMAIN more[i] /\ more[i].op = "send"
      BY <2>4 DEF SumsOk
    <3>2. ASSUME NEW i \in DOMAIN more, NEW j \in DOMAIN more,
                 more[i].to = more[j].to, more[i].token = more[j].token
          PROVE  i = j
      BY <1>3, <2>4, <3>2 DEF SumsOk
    <3> QED BY <2>2, <3>1, <3>2 DEF SumsOk
  <2> QED BY <2>2, <2>5
<1> QED BY <1>2, <1>3

\* The sums c[1] that are kept still add up.
KeptSums(c, n, kept) ==
  /\ AmountsOk(kept)
  /\ \A t : Runs(GivenOf(c[1], c[2], c[3]), t) => Building!TotalGiven(kept, c[2], c[3]) = t[n]
SumFold == INSTANCE FoldFacts WITH Step <- KeepStep, Inv <- KeptSums

\* Sums that came to zero are no loss.
LEMMA NonZeroAdds ==
  ASSUME NEW sums, SumsOk(sums), NEW to, NEW token
  PROVE  /\ AmountsOk(Building!NonZero(sums))
         /\ Building!TotalGiven(Building!NonZero(sums), to, token)
              = Building!TotalGiven(sums, to, token)
<1> DEFINE c == <<sums, to, token>>
           w == GivenOf(sums, to, token)
<1>1. Building!NonZero(sums) = SumFold!Fold(c, << >>, sums)
  BY DEF Building!NonZero, Building!FoldLeft, Building!MapThenFoldSet, Building!Max,
         SumFold!Fold, SumFold!FoldLeft, SumFold!MapThenFoldSet, SumFold!Max, KeepStep
<1>2. /\ w \in Seq(Int) /\ Len(w) = Len(sums) /\ Len(sums) \in Nat /\ DOMAIN sums = 1..Len(sums)
      /\ Building!TotalGiven(sums, to, token) = Building!Total(w)
  BY GivenInts DEF SumsOk
<1>3. KeptSums(c, 0, << >>)
  <2>1. AmountsOk(<< >>)
    BY DEF AmountsOk, Listing
  <2>2. Building!TotalGiven(<< >>, to, token) = 0
    BY <2>1, GivenNone
  <2> QED BY <2>1, <2>2 DEF KeptSums, Runs
<1>4. ASSUME NEW i \in 1..Len(sums), NEW kept, KeptSums(c, i - 1, kept)
      PROVE  KeptSums(c, i, KeepStep(c, kept, sums[i]))
  <2>1. /\ AmountsOk(kept)
        /\ \A t : Runs(w, t) => Building!TotalGiven(kept, to, token) = t[i - 1]
    BY <1>4 DEF KeptSums
  <2>2. /\ i \in 1..Len(w) /\ w[i] = Building!Given(sums[i], to, token)
        /\ sums[i].op = "send" /\ sums[i].amount \in Int
    BY <1>2 DEF GivenOf, SumsOk, AmountsOk
  <2>3. \A t : Runs(w, t) => t[i] = t[i - 1] + w[i]
    BY <2>2 DEF Runs
  <2> HIDE DEF w
  <2>4. CASE sums[i].amount = 0
    <3>1. w[i] = 0
      BY <2>2, <2>4 DEF Building!Given
    <3>2. Building!TotalGiven(kept, to, token) \in Int
      BY <2>1, GivenInts
    <3>3. \A t : Runs(w, t) => Building!TotalGiven(kept, to, token) = t[i]
      BY <2>1, <2>3, <3>1, <3>2
    <3> QED BY <2>1, <2>4, <3>3 DEF KeptSums, KeepStep, w
  <2>5. CASE sums[i].amount # 0
    <3>1. PICK more : more = Append(kept, sums[i])
      OBVIOUS
    <3>2. /\ AmountsOk(more)
          /\ Building!TotalGiven(more, to, token) = Building!TotalGiven(kept, to, token) + w[i]
      BY <2>1, <2>2, <3>1, GivenAppend
    <3>3. \A t : Runs(w, t) => Building!TotalGiven(more, to, token) = t[i]
      BY <2>1, <2>3, <3>2
    <3>4. KeepStep(c, kept, sums[i]) = more
      BY <2>5, <3>1 DEF KeepStep
    <3> QED BY <3>2, <3>3, <3>4 DEF KeptSums, w
  <2> QED BY <2>4, <2>5
<1>5. PICK kept : kept = Building!NonZero(sums)
  OBVIOUS
<1>6. KeptSums(c, Len(sums), kept)
  <2>1. sums \in Seq({sums[i] : i \in DOMAIN sums})
    BY DEF SumsOk, AmountsOk, Listing
  <2> HIDE DEF c
  <2> QED BY <1>1, <1>3, <1>4, <1>5, <2>1, SumFold!FoldKeeps
<1>7. PICK t : Runs(w, t) /\ Building!Total(w) = t[Len(w)]
  BY <1>2, TotalIs
<1>8. AmountsOk(kept) /\ Building!TotalGiven(kept, to, token) = t[Len(sums)]
  BY <1>6, <1>7 DEF KeptSums
<1> QED BY <1>2, <1>5, <1>7, <1>8

-----------------------------------------------------------------------------
(* Where the sends of a group are.                                         *)

SendBuckets == {"external", "aggregated", "raw"}
Sends(r) ==
  /\ SumsOk(r.buckets["aggregated"])
  /\ \A b \in BucketSet : AmountsOk(r.buckets[b])
  /\ \A b \in BucketSet \ SendBuckets : \A i \in DOMAIN r.buckets[b] : r.buckets[b][i].op # "send"
Spent(r, to, token) ==
  Building!TotalGiven(r.buckets["external"], to, token)
    + Building!TotalGiven(r.buckets["aggregated"], to, token)
    + Building!TotalGiven(r.buckets["raw"], to, token)

\* The buckets with sends, by position.
LEMMA SendPlaces ==
  /\ SendBuckets \subseteq BucketSet
  /\ Building!Buckets[2] = "external" /\ Building!Buckets[3] = "aggregated" /\ Building!Buckets[11] = "raw"
  /\ \A i \in 1..11 : i \notin {2, 3, 11} => Building!Buckets[i] \in BucketSet \ SendBuckets
<1>1. SendBuckets \subseteq BucketSet
  BY BucketNames DEF SendBuckets
<1>2. \A i \in 1..11 : i = 1 \/ i = 2 \/ i = 3 \/ i = 4 \/ i = 5 \/ i = 6 \/ i = 7 \/ i = 8 \/ i = 9
                       \/ i = 10 \/ i = 11
  OBVIOUS
<1>3. /\ Building!Buckets[1] = "creates" /\ Building!Buckets[2] = "external"
      /\ Building!Buckets[3] = "aggregated" /\ Building!Buckets[4] = "receives"
      /\ Building!Buckets[5] = "info" /\ Building!Buckets[6] = "setRep"
      /\ Building!Buckets[7] = "supply" /\ Building!Buckets[8] = "certificates"
      /\ Building!Buckets[9] = "balance" /\ Building!Buckets[10] = "permissions"
      /\ Building!Buckets[11] = "raw"
  BY DEF Building!Buckets
<1>4. {"creates", "receives", "info", "setRep", "supply", "certificates", "balance", "permissions"}
        \subseteq BucketSet \ SendBuckets
  BY BucketNames DEF SendBuckets
<1>5. \A i \in 1..11 : i \notin {2, 3, 11} => Building!Buckets[i] \in
        {"creates", "receives", "info", "setRep", "supply", "certificates", "balance", "permissions"}
  BY <1>2, <1>3
<1> QED BY <1>1, <1>3, <1>4, <1>5

\* The operations of a block give what its buckets hold.
LEMMA IntoSpends ==
  ASSUME NEW r, RShape(r), Sends(r), NEW ops, ops = Building!IntoOperations(r), NEW to, NEW token
  PROVE  AmountsOk(ops) /\ Building!TotalGiven(ops, to, token) = Spent(r, to, token)
<1> DEFINE seqs == [i \in DOMAIN Building!Buckets |-> Building!Whole(r, Building!Buckets[i])]
           X == UNION {{seqs[i][j] : j \in DOMAIN seqs[i]} : i \in 1..11}
           W == [op \in X |-> Building!Given(op, to, token)]
<1>1. DOMAIN seqs = 1..11 /\ ops = Building!FlattenSeq(seqs)
  BY BucketNames DEF Building!IntoOperations
<1>2. \A i \in 1..11 : Building!Buckets[i] \in BucketSet
  BY SendPlaces DEF SendBuckets
<1>3. ASSUME NEW i \in 1..11
      PROVE  /\ AmountsOk(seqs[i])
             /\ Building!TotalGiven(seqs[i], to, token)
                  = Building!TotalGiven(r.buckets[Building!Buckets[i]], to, token)
  <2>1. PICK b \in BucketSet : b = Building!Buckets[i]
    BY <1>2
  <2>2. seqs[i] = Building!Whole(r, b)
    BY <1>1, <2>1
  <2> HIDE DEF seqs
  <2>3. CASE b = "aggregated"
    <3>1. seqs[i] = Building!NonZero(r.buckets[b]) /\ SumsOk(r.buckets[b])
      BY <2>2, <2>3 DEF Building!Whole, Sends
    <3> QED BY <2>1, <3>1, NonZeroAdds
  <2>4. CASE b # "aggregated"
    <3>1. seqs[i] = r.buckets[b] /\ AmountsOk(r.buckets[b])
      BY <2>2, <2>4 DEF Building!Whole, Sends
    <3> QED BY <2>1, <3>1
  <2> QED BY <2>3, <2>4
<1>4. seqs = [i \in 1..11 |-> seqs[i]]
  BY <1>1
<1> HIDE DEF seqs
<1>5. \A i \in 1..11 : seqs[i] \in Seq(X)
  <2> SUFFICES ASSUME NEW i \in 1..11 PROVE seqs[i] \in Seq(X)
    OBVIOUS
  <2>1. \A j \in DOMAIN seqs[i] : seqs[i][j] \in X
    OBVIOUS
  <2>2. Listing(seqs[i])
    BY <1>3 DEF AmountsOk
  <2> HIDE DEF X
  <2> QED BY <2>1, <2>2, ListingIn
<1>6. \A op \in X : op.op = "send" => op.amount \in Int
  BY <1>3 DEF AmountsOk
<1> HIDE DEF X
<1>7. seqs \in Seq(Seq(X)) /\ Len(seqs) = 11
  BY <1>4, <1>5
<1>8. W \in [X -> Int]
  BY <1>6 DEF Building!Given
<1>9. \A s \in Seq(X) : AmountsOk(s) /\ Building!TotalGiven(s, to, token) = Weight(W, s)
  <2> SUFFICES ASSUME NEW s \in Seq(X)
               PROVE  AmountsOk(s) /\ Building!TotalGiven(s, to, token) = Weight(W, s)
    OBVIOUS
  <2>1. AmountsOk(s)
    BY <1>6, ListingIs DEF AmountsOk
  <2>2. [i \in DOMAIN s |-> Building!Given(s[i], to, token)] = [i \in DOMAIN s |-> W[s[i]]]
    OBVIOUS
  <2> HIDE DEF W
  <2> QED BY <2>1, <2>2 DEF Building!TotalGiven, Weight, Weighed
<1>10. ops \in Seq(X)
  BY <1>1, <1>7, FlattenFacts
<1> HIDE DEF W
<1> DEFINE parts == [i \in DOMAIN seqs |-> Weight(W, seqs[i])]
<1>11. Building!TotalGiven(ops, to, token) = Building!Total(parts)
  BY <1>1, <1>7, <1>8, <1>9, <1>10, WeightFlatten
<1> DEFINE part(b) == Building!TotalGiven(r.buckets[b], to, token)
<1>12. \A i \in 1..11 : parts[i] = part(Building!Buckets[i])
  BY <1>1, <1>3, <1>5, <1>9
<1>13. \A b \in BucketSet : part(b) \in Int
  BY GivenInts DEF Sends
<1>14. parts \in Seq(Int) /\ Len(parts) = 11
  BY <1>1, <1>2, <1>12, <1>13
<1>15. \A b \in BucketSet \ SendBuckets : part(b) = 0
  BY GivenNone DEF Sends
<1>16. /\ parts[2] = part("external") /\ parts[3] = part("aggregated") /\ parts[11] = part("raw")
       /\ \A i \in 1..11 : i \notin {2, 3, 11} => parts[i] = 0
  BY <1>12, <1>15, SendPlaces
<1>17. part("external") \in Int /\ part("aggregated") \in Int /\ part("raw") \in Int
  BY <1>13, SendPlaces DEF SendBuckets
<1>18. Building!Total(parts) = part("external") + part("aggregated") + part("raw")
  <2> HIDE DEF parts, part
  <2> DEFINE t == [i \in 0..11 |-> IF i < 2 THEN 0 ELSE IF i = 2 THEN part("external")
                     ELSE IF i < 11 THEN part("external") + part("aggregated")
                     ELSE part("external") + part("aggregated") + part("raw")]
  <2>1. \A i \in 1..11 : t[i] = t[i - 1] + parts[i]
    <3> SUFFICES ASSUME NEW i \in 1..11 PROVE t[i] = t[i - 1] + parts[i]
      OBVIOUS
    <3>1. CASE i = 1
      BY <1>16, <3>1
    <3>2. CASE i = 2
      BY <1>16, <1>17, <3>2
    <3>3. CASE i = 3
      BY <1>16, <1>17, <3>3
    <3>4. CASE i \in 4..10
      <4>1. parts[i] = 0
        BY <1>16, <3>4
      <4> QED BY <1>17, <3>4, <4>1
    <3>5. CASE i = 11
      BY <1>16, <1>17, <3>5
    <3> QED BY <3>1, <3>2, <3>3, <3>4, <3>5
  <2>2. Runs(parts, t)
    BY <1>14, <2>1 DEF Runs
  <2>3. t[11] = part("external") + part("aggregated") + part("raw")
    OBVIOUS
  <2> HIDE DEF t
  <2> QED BY <1>14, <2>2, <2>3, TotalIs
<1> QED BY <1>9, <1>10, <1>11, <1>18 DEF Spent

\* Handles that are filled stay filled.
Grown(cells, more) ==
  \A h \in DOMAIN cells : cells[h] # Building!NoAccount => more[h] = cells[h]

\* Who a send is for can be told.
Settled(op, cells) ==
  op.op = "send" /\ op.amount # 0 =>
    ~Building!Unresolved(op.to, cells) /\ ~Building!Unresolved(op.token, cells)

\* What was asked of a settled send stays the same.
LEMMA AskedStays ==
  ASSUME NEW n \in Nat, NEW cells, DOMAIN cells = 1..n, NEW more, Grown(cells, more),
         NEW op, OpOk(op, n), Settled(op, cells)
  PROVE  /\ Settled(op, more)
         /\ \A to, token : Building!Asked(op, to, token, more) = Building!Asked(op, to, token, cells)
<1>1. CASE op.op = "send" /\ op.amount # 0
  <2>1. /\ op.to.handle \in 0..n /\ op.token.handle \in 0..n
        /\ op.to.handle # 0 => cells[op.to.handle] # Building!NoAccount
        /\ op.token.handle # 0 => cells[op.token.handle] # Building!NoAccount
    BY <1>1 DEF OpOk, SendForm, Settled, Building!Unresolved
  <2>2. \A h \in 0..n : h # 0 => h \in DOMAIN cells
    OBVIOUS
  <2>3. /\ op.to.handle # 0 => more[op.to.handle] = cells[op.to.handle]
        /\ op.token.handle # 0 => more[op.token.handle] = cells[op.token.handle]
    BY <2>1, <2>2 DEF Grown
  <2>4. /\ Building!Resolve(op.to, more) = Building!Resolve(op.to, cells)
        /\ Building!Resolve(op.token, more) = Building!Resolve(op.token, cells)
    BY <2>3 DEF Building!Resolve
  <2>5. Settled(op, more)
    BY <2>1, <2>3 DEF Settled, Building!Unresolved
  <2> QED BY <1>1, <2>4, <2>5 DEF Building!Asked
<1>2. CASE ~(op.op = "send" /\ op.amount # 0)
  BY <1>2 DEF Settled, Building!Asked
<1> QED BY <1>1, <1>2

\* A bucket with one operation more.
LEMMA IntoSends ==
  ASSUME NEW r, RShape(r), Sends(r), NEW b \in BucketSet \ {"aggregated"}, NEW e,
         e.op = "send" => e.amount \in Int /\ b \in SendBuckets,
         NEW s, s = Building!Into(r, b, e)
  PROVE  /\ Sends(s) /\ s.cells = r.cells
         /\ \A to, token : Spent(s, to, token) = Spent(r, to, token) + Building!Given(e, to, token)
<1>1. s = [r EXCEPT !.buckets = [r.buckets EXCEPT ![b] = Append(r.buckets[b], e)]]
  BY DEF Building!Into
<1>2. {"external", "aggregated", "raw"} \subseteq BucketSet
  BY BucketNames
<1>3. /\ s.cells = r.cells /\ s.buckets[b] = Append(r.buckets[b], e)
      /\ \A a \in BucketSet \ {b} : s.buckets[a] = r.buckets[a]
  BY <1>1 DEF RShape
<1>4. PICK l, m : l = r.buckets[b] /\ m = Append(r.buckets[b], e)
  OBVIOUS
<1>5. AmountsOk(l)
  BY <1>4 DEF Sends
<1>6. /\ AmountsOk(m)
      /\ \A to, token : Building!TotalGiven(m, to, token)
           = Building!TotalGiven(l, to, token) + Building!Given(e, to, token)
  BY <1>4, <1>5, GivenAppend
<1>7. b \notin SendBuckets => \A i \in DOMAIN m : m[i].op # "send"
  <2>1. /\ DOMAIN m = 1..(Len(l) + 1) /\ Len(l) \in Nat /\ DOMAIN l = 1..Len(l)
        /\ \A i \in DOMAIN l : m[i] = l[i]
        /\ m[Len(l) + 1] = e
    BY <1>4, <1>5, ListingAppend DEF AmountsOk
  <2>2. \A i \in DOMAIN m : i \in DOMAIN l \/ i = Len(l) + 1
    BY <2>1
  <2>3. b \notin SendBuckets => \A i \in DOMAIN l : l[i].op # "send"
    BY <1>4 DEF Sends
  <2> QED BY <2>1, <2>2, <2>3
<1>8. s.buckets[b] = m
  BY <1>3, <1>4
<1>9. Sends(s)
  BY <1>2, <1>3, <1>6, <1>7, <1>8 DEF Sends
<1>10. ASSUME NEW to, NEW token
       PROVE  Spent(s, to, token) = Spent(r, to, token) + Building!Given(e, to, token)
  <2> DEFINE was(a) == Building!TotalGiven(r.buckets[a], to, token)
             is(a) == Building!TotalGiven(s.buckets[a], to, token)
             x == Building!Given(e, to, token)
  <2>1. was("external") \in Int /\ was("aggregated") \in Int /\ was("raw") \in Int /\ x \in Int
    BY <1>2, GivenInts DEF Sends, Building!Given
  <2>2. is(b) = was(b) + x /\ \A a \in BucketSet \ {b} : is(a) = was(a)
    BY <1>3, <1>4, <1>6, <1>8
  <2>3. b \notin SendBuckets => x = 0
    BY DEF Building!Given
  <2> HIDE DEF was, is, x
  <2>4. is("external") + is("aggregated") + is("raw")
          = was("external") + was("aggregated") + was("raw") + x
    <3>1. CASE b = "external"
      BY <1>2, <2>1, <2>2, <3>1
    <3>2. CASE b = "raw"
      BY <1>2, <2>1, <2>2, <3>2
    <3>3. CASE b \notin SendBuckets
      <4>1. is("external") = was("external") /\ is("aggregated") = was("aggregated") /\ is("raw") = was("raw")
        BY <1>2, <2>2, <3>3 DEF SendBuckets
      <4> QED BY <2>1, <2>3, <3>3, <4>1
    <3> QED BY <3>1, <3>2, <3>3 DEF SendBuckets
  <2> QED BY <2>4 DEF Spent, was, is, x
<1> QED BY <1>3, <1>9, <1>10

\* Any operation but a creation that is rendered gives what it asks for.
LEMMA OtherSpends ==
  ASSUME NEW g, NEW previous, NEW r, RShape(r), Sends(r), r.ok, NEW n \in Nat, DOMAIN r.cells = 1..n,
         NEW op, OpOk(op, n), op.op # "createIdentifier",
         NEW s, s = Building!Render(g, previous, r, op), s.ok
  PROVE  /\ Sends(s) /\ Settled(op, r.cells)
         /\ \A to, token : Spent(s, to, token)
              = Spent(r, to, token) + Building!Asked(op, to, token, r.cells)
<1>0. /\ "op" \in DOMAIN op /\ op.op \in StagedKinds
      /\ op.op = "raw" => op.of.op # "createIdentifier" /\ (op.of.op = "send" => op.of.amount \in Int)
      /\ op.op = "send" => SendForm(op, n)
  BY DEF OpOk
<1> DEFINE Good == /\ Sends(s) /\ Settled(op, r.cells)
                   /\ \A to, token : Spent(s, to, token)
                        = Spent(r, to, token) + Building!Asked(op, to, token, r.cells)
<1> SUFFICES Good
  OBVIOUS
<1>1. [r EXCEPT !.ok = FALSE].ok = FALSE
  BY ErrorKeeps
<1>2. \A to, token : Spent(r, to, token) \in Int
  <2>1. {"external", "aggregated", "raw"} \subseteq BucketSet
    BY BucketNames
  <2>2. \A to, token : \A b \in BucketSet : Building!TotalGiven(r.buckets[b], to, token) \in Int
    BY GivenInts DEF Sends
  <2>3. \A a, b, c \in Int : a + b + c \in Int
    OBVIOUS
  <2>4. "external" \in BucketSet /\ "aggregated" \in BucketSet /\ "raw" \in BucketSet
    BY <2>1
  <2> QED BY <2>2, <2>3, <2>4, Zenon DEF Spent
\* An operation other than a send goes into a bucket of its own.
<1>3. ASSUME NEW b \in BucketSet \ SendBuckets, NEW e, e.op # "send", s = Building!Into(r, b, e),
             op.op \notin {"send", "raw"}
      PROVE  Good
  <2>1. b # "aggregated"
    BY DEF SendBuckets
  <2>2. /\ Sends(s)
        /\ \A to, token : Spent(s, to, token) = Spent(r, to, token) + Building!Given(e, to, token)
    BY <1>3, <2>1, IntoSends
  <2>3. \A to, token : Building!Given(e, to, token) = 0 /\ Building!Asked(op, to, token, r.cells) = 0
    BY <1>3 DEF Building!Given, Building!Asked
  <2>4. Settled(op, r.cells)
    BY <1>3 DEF Settled
  <2> QED BY <2>2, <2>3, <2>4
<1>4. CASE s = r /\ op.op \in {"send", "receive"} /\ op.amount = 0
  <2>1. Settled(op, r.cells) /\ \A to, token : Building!Asked(op, to, token, r.cells) = 0
    BY <1>4 DEF Settled, Building!Asked
  <2> QED BY <1>2, <1>4, <2>1
<1>5. CASE op.op = "send"
  <2> DEFINE send == [op EXCEPT !.to = Building!Resolve(@, r.cells),
                                !.token = Building!Resolve(@, r.cells)]
             sums == r.buckets["aggregated"]
             added == [r EXCEPT !.buckets["aggregated"] = Building!AddedSend(sums, send)]
  <2>0. SUFFICES ASSUME op.amount # 0 PROVE Good
    BY <1>4, <1>5 DEF Building!Render
  <2>1. s = Building!PushSend(r, op)
    BY <1>5, <2>0 DEF Building!Render
  <2>2. ~Building!Unresolved(op.to, r.cells) /\ ~Building!Unresolved(op.token, r.cells)
    <3>1. Building!Unresolved(op.to, r.cells) \/ Building!Unresolved(op.token, r.cells)
            => s = [r EXCEPT !.ok = FALSE]
      BY <2>1 DEF Building!PushSend
    <3> QED BY <1>1, <3>1
  <2>3. s \in {Building!Into(r, "external", send), added}
    BY <2>1, <2>2 DEF Building!PushSend
  <2>4. /\ send.op = "send" /\ send.amount = op.amount /\ op.amount \in Int
        /\ send.to = Building!Resolve(op.to, r.cells) /\ send.token = Building!Resolve(op.token, r.cells)
        /\ {"op", "to", "token", "amount"} \subseteq DOMAIN send
    BY <1>0, <1>5 DEF SendForm
  <2> HIDE DEF send
  <2>5. Settled(op, r.cells)
    BY <2>2 DEF Settled
  <2>6. \A to, token : Building!Given(send, to, token) = Building!Asked(op, to, token, r.cells)
    BY <1>5, <2>4 DEF Building!Given, Building!Asked
  <2>7. /\ Sends(s)
        /\ \A to, token : Spent(s, to, token) = Spent(r, to, token) + Building!Given(send, to, token)
    <3>1. CASE s = Building!Into(r, "external", send)
      <4>1. "external" \in BucketSet \ {"aggregated"} /\ "external" \in SendBuckets
        BY BucketNames DEF SendBuckets
      <4> QED BY <2>4, <3>1, <4>1, IntoSends
    <3>2. CASE s = added
      <4>1. {"external", "aggregated", "raw"} \subseteq BucketSet
        BY BucketNames
      <4>2. PICK more : more = Building!AddedSend(sums, send)
        OBVIOUS
      <4>3. /\ SumsOk(more)
            /\ \A to, token : Building!TotalGiven(more, to, token)
                 = Building!TotalGiven(sums, to, token) + Building!Given(send, to, token)
        BY <2>4, <4>2, AddedKeeps DEF Sends
      <4>4. /\ s.buckets["aggregated"] = more
            /\ \A a \in BucketSet \ {"aggregated"} : s.buckets[a] = r.buckets[a]
        BY <3>2, <4>1, <4>2 DEF RShape
      <4>5. Sends(s)
        <5>1. AmountsOk(more)
          BY <4>3 DEF SumsOk
        <5> HIDE DEF sums
        <5> QED BY <4>3, <4>4, <5>1 DEF Sends, SendBuckets
      <4>6. ASSUME NEW to, NEW token
            PROVE  Spent(s, to, token) = Spent(r, to, token) + Building!Given(send, to, token)
        <5> DEFINE was(a) == Building!TotalGiven(r.buckets[a], to, token)
                   is(a) == Building!TotalGiven(s.buckets[a], to, token)
                   x == Building!Given(send, to, token)
        <5>1. was("external") \in Int /\ was("aggregated") \in Int /\ was("raw") \in Int /\ x \in Int
          BY <2>4, <4>1, GivenInts DEF Sends, Building!Given
        <5>2. is("aggregated") = was("aggregated") + x /\ is("external") = was("external")
              /\ is("raw") = was("raw")
          BY <4>1, <4>3, <4>4
        <5> HIDE DEF was, is, x
        <5>3. is("external") + is("aggregated") + is("raw")
                = was("external") + was("aggregated") + was("raw") + x
          BY <5>1, <5>2
        <5> QED BY <5>3 DEF Spent, was, is, x
      <4> QED BY <4>5, <4>6
    <3> QED BY <2>3, <3>1, <3>2
  <2> QED BY <2>5, <2>6, <2>7
<1>6. CASE op.op = "receive"
  <2> DEFINE e == [op EXCEPT !.from = Building!Resolve(@, r.cells),
                             !.token = Building!Resolve(@, r.cells),
                             !.forward = Building!Resolve(@, r.cells)]
  <2>0. SUFFICES ASSUME op.amount # 0 PROVE Good
    BY <1>4, <1>6 DEF Building!Render
  <2>1. s = Building!Into(r, "receives", e)
    BY <1>1, <1>6, <2>0 DEF Building!Render, Building!PushReceive
  <2>2. e.op # "send"
    BY <1>0, <1>6
  <2>3. "receives" \in BucketSet \ SendBuckets
    BY BucketNames DEF SendBuckets
  <2> HIDE DEF Good, e
  <2> QED BY <1>3, <1>6, <2>1, <2>2, <2>3
<1>7. CASE op.op = "tokenAdminModifyBalance"
  <2> DEFINE e == [op EXCEPT !.token = Building!Resolve(@, r.cells)]
  <2>1. s = Building!Into(r, "balance", e)
    BY <1>1, <1>7 DEF Building!Render, Building!PushBalance
  <2>2. e.op # "send"
    BY <1>0, <1>7
  <2>3. "balance" \in BucketSet \ SendBuckets
    BY BucketNames DEF SendBuckets
  <2>4. op.op \notin {"send", "raw"}
    BY <1>7
  <2> HIDE DEF Good, e
  <2> QED BY <1>3, <2>1, <2>2, <2>3, <2>4
<1>8. CASE op.op = "raw"
  <2>1. s = Building!Into(r, "raw", op.of)
    BY <1>8 DEF Building!Render
  <2>2. "raw" \in BucketSet \ {"aggregated"} /\ "raw" \in SendBuckets
    BY BucketNames DEF SendBuckets
  <2>3. /\ Sends(s)
        /\ \A to, token : Spent(s, to, token) = Spent(r, to, token) + Building!Given(op.of, to, token)
    BY <1>0, <1>8, <2>1, <2>2, IntoSends
  <2>4. \A to, token : Building!Given(op.of, to, token) = Building!Asked(op, to, token, r.cells)
    BY <1>8 DEF Building!Given, Building!Asked
  <2>5. Settled(op, r.cells)
    BY <1>8 DEF Settled
  <2> QED BY <2>3, <2>4, <2>5
<1>9. CASE op.op \in DOMAIN Building!BucketOf
  <2>1. op.op \notin {"createIdentifier", "send", "receive", "tokenAdminModifyBalance", "raw"}
    BY <1>9 DEF Building!BucketOf
  <2>2. s = Building!Into(r, Building!BucketOf[op.op], op)
    BY <2>1 DEF Building!Render
  <2>3. Building!BucketOf[op.op] \in {"info", "setRep", "supply", "certificates", "permissions"}
    BY <1>9 DEF Building!BucketOf
  <2>4. Building!BucketOf[op.op] \in BucketSet \ SendBuckets
    BY <2>3, BucketNames DEF SendBuckets
  <2>5. op.op \notin {"send", "raw"} /\ op.op # "send"
    BY <2>1
  <2> HIDE DEF Good
  <2> QED BY <1>3, <2>2, <2>4, <2>5
<1> QED BY <1>0, <1>5, <1>6, <1>7, <1>8, <1>9 DEF StagedKinds

\* What the operations of a group ask for.
AskedIn(ops, to, token, cells) == [j \in DOMAIN ops |-> Building!Asked(ops[j], to, token, cells)]
AskedOf(ops, to, token, cells) == Building!Total(AskedIn(ops, to, token, cells))

\* render_ops spends what the first n operations ask for.
SpendInv(c, n, r) ==
  /\ Rendered(c, n, r)
  /\ r.ok =>
       /\ Sends(r) /\ Grown(c[3], r.cells)
       /\ \A j \in 1..n : Settled(c[1].ops[j], r.cells)
       /\ \A F, to, token, t :
            Grown(r.cells, F) /\ Runs(AskedIn(c[1].ops, to, token, F), t) => Spent(r, to, token) = t[n]
SpendFold == INSTANCE FoldFacts WITH Step <- RenderStep, Inv <- SpendInv

\* Filled once, filled ever after.
LEMMA GrownTwice ==
  ASSUME NEW a, NEW b, NEW c, DOMAIN a = DOMAIN b, Grown(a, b), Grown(b, c)
  PROVE  Grown(a, c)
BY DEF Grown

\* A creation spends nothing and fills a handle.
LEMMA CreateSpends ==
  ASSUME NEW g, NEW previous, NEW r, Sends(r), NEW op, op.op = "createIdentifier",
         op.handle \in DOMAIN r.cells, r.cells[op.handle] = Building!NoAccount,
         NEW s, Created(g, previous, r, op, s), s.ok, DerivedAt(g, previous, s.buckets["creates"])
  PROVE  /\ Sends(s) /\ Grown(r.cells, s.cells)
         /\ \A to, token : Spent(s, to, token) = Spent(r, to, token)
<1>1. /\ RShape(s) /\ \A b \in BucketSet \ {"creates"} : s.buckets[b] = r.buckets[b]
      /\ \E id : s.cells = [r.cells EXCEPT ![op.handle] = id]
  BY DEF Created
<1>2. {"creates", "external", "aggregated", "raw"} \subseteq BucketSet
  BY BucketNames
<1>3. /\ AmountsOk(s.buckets["creates"])
      /\ \A i \in DOMAIN s.buckets["creates"] : s.buckets["creates"][i].op # "send"
  <2>1. PICK creates : creates = s.buckets["creates"]
    OBVIOUS
  <2>2. Listing(creates) /\ \A i \in DOMAIN creates : creates[i].op = "createIdentifier"
    BY <1>1, <1>2, <2>1 DEF RShape, DerivedAt
  <2> QED BY <2>1, <2>2 DEF AmountsOk
<1>4. /\ s.buckets["external"] = r.buckets["external"] /\ s.buckets["raw"] = r.buckets["raw"]
      /\ s.buckets["aggregated"] = r.buckets["aggregated"]
  BY <1>1, <1>2
<1>5. Sends(s)
  <2>1. SumsOk(s.buckets["aggregated"])
    BY <1>4 DEF Sends
  <2>2. ASSUME NEW b \in BucketSet
        PROVE  /\ AmountsOk(s.buckets[b])
               /\ b \notin SendBuckets => \A i \in DOMAIN s.buckets[b] : s.buckets[b][i].op # "send"
    <3>1. CASE b = "creates"
      BY <1>3, <3>1
    <3>2. CASE b # "creates"
      BY <1>1, <3>2 DEF Sends
    <3> QED BY <3>1, <3>2
  <2> QED BY <2>1, <2>2 DEF Sends
<1>6. Grown(r.cells, s.cells)
  BY <1>1 DEF Grown
<1>7. \A to, token : Spent(s, to, token) = Spent(r, to, token)
  BY <1>4 DEF Spent
<1> QED BY <1>5, <1>6, <1>7

\* One more operation spends what it asks for.
LEMMA SpendStep ==
  ASSUME NEW g, NEW previous, NEW size \in Nat, NEW cells, DOMAIN cells = 1..size,
         FreshOps(g, cells), NEW n \in Nat,
         n + 1 <= Len(g.ops), Len(g.ops) \in Nat, DOMAIN g.ops = 1..Len(g.ops),
         \A i \in DOMAIN g.ops : OpOk(g.ops[i], size),
         NEW r, SpendInv(<<g, previous, cells>>, n, r)
  PROVE  SpendInv(<<g, previous, cells>>, n + 1, RenderStep(<<g, previous, cells>>, r, g.ops[n + 1]))
<1>0. PICK op : op = g.ops[n + 1]
  OBVIOUS
<1> SUFFICES ASSUME NEW s, s = Building!Render(g, previous, r, op)
             PROVE  SpendInv(<<g, previous, cells>>, n + 1, s)
  BY <1>0 DEF RenderStep
<1>1. Rendered(<<g, previous, cells>>, n, r) /\ n + 1 \in DOMAIN g.ops /\ OpOk(op, size)
  BY <1>0 DEF SpendInv
<1>2. Rendered(<<g, previous, cells>>, n + 1, s)
  <2>1. s = RenderStep(<<g, previous, cells>>, r, g.ops[n + 1])
    BY <1>0 DEF RenderStep
  <2> QED BY <1>0, <1>1, <2>1, RenderedStep
<1>3. /\ RShape(r) /\ DOMAIN r.cells = 1..size
      /\ \A h \in DOMAIN cells :
           (\A j \in CreatesOf(g, n) : g.ops[j].handle # h) => r.cells[h] = cells[h]
  BY <1>1 DEF Rendered
<1>4. DerivedAt(g, previous, s.buckets["creates"]) /\ DOMAIN s.cells = 1..size
  BY <1>2 DEF Rendered
<1>5. SUFFICES ASSUME s.ok
      PROVE  /\ Sends(s) /\ Grown(cells, s.cells)
             /\ \A j \in 1..(n + 1) : Settled(g.ops[j], s.cells)
             /\ \A F, to, token, t :
                  Grown(s.cells, F) /\ Runs(AskedIn(g.ops, to, token, F), t)
                    => Spent(s, to, token) = t[n + 1]
  BY <1>2 DEF SpendInv
<1>6. r.ok
  <2>1. CASE op.op = "createIdentifier"
    <3>1. ~r.ok => s = r
      BY DEF Building!Render
    <3> QED BY <1>5, <3>1
  <2>2. CASE op.op # "createIdentifier"
    BY <1>1, <1>3, <1>5, <2>2, RenderOther
  <2> QED BY <2>1, <2>2
<1>7. /\ Sends(r) /\ Grown(cells, r.cells)
      /\ \A j \in 1..n : Settled(g.ops[j], r.cells)
      /\ \A F, to, token, t :
           Grown(r.cells, F) /\ Runs(AskedIn(g.ops, to, token, F), t) => Spent(r, to, token) = t[n]
  BY <1>6 DEF SpendInv
<1>8. /\ Sends(s) /\ Grown(r.cells, s.cells) /\ Settled(op, s.cells)
      /\ \A F, to, token : Grown(s.cells, F) =>
           Spent(s, to, token) = Spent(r, to, token) + Building!Asked(op, to, token, F)
  <2>1. CASE op.op = "createIdentifier"
    <3>1. n + 1 \in CreatesOf(g, Len(g.ops)) /\ \A j \in CreatesOf(g, n) : j \in CreatesOf(g, Len(g.ops)) /\ j # n + 1
      BY <1>0, <2>1 DEF CreatesOf
    <3>2. /\ op.handle \in DOMAIN cells /\ cells[op.handle] = Building!NoAccount
          /\ \A j \in CreatesOf(g, n) : g.ops[j].handle # op.handle
      BY <1>0, <3>1 DEF FreshOps
    <3>3. op.handle \in DOMAIN r.cells /\ r.cells[op.handle] = Building!NoAccount
      BY <1>3, <3>2
    <3>4. Created(g, previous, r, op, s)
      BY <1>3, <1>6, <2>1, <3>3, RenderCreate
    <3>5. /\ Sends(s) /\ Grown(r.cells, s.cells)
          /\ \A to, token : Spent(s, to, token) = Spent(r, to, token)
      BY <1>4, <1>5, <1>7, <2>1, <3>3, <3>4, CreateSpends
    <3>6. \A to, token, F : Building!Asked(op, to, token, F) = 0
      BY <2>1 DEF Building!Asked
    <3>7. \A to, token : Spent(r, to, token) \in Int
      <4>1. "external" \in BucketSet /\ "aggregated" \in BucketSet /\ "raw" \in BucketSet
        BY BucketNames
      <4>2. \A to, token : \A b \in BucketSet : Building!TotalGiven(r.buckets[b], to, token) \in Int
        BY <1>7, GivenInts DEF Sends
      <4>3. \A a, b, c \in Int : a + b + c \in Int
        OBVIOUS
      <4> QED BY <4>1, <4>2, <4>3, Zenon DEF Spent
    <3>8. Settled(op, s.cells)
      BY <2>1 DEF Settled
    <3> QED BY <3>5, <3>6, <3>7, <3>8
  <2>2. CASE op.op # "createIdentifier"
    <3>1. s.cells = r.cells
      BY <1>1, <1>3, <2>2, RenderOther
    <3>2. /\ Sends(s) /\ Settled(op, r.cells)
          /\ \A to, token : Spent(s, to, token)
               = Spent(r, to, token) + Building!Asked(op, to, token, r.cells)
      BY <1>1, <1>3, <1>5, <1>6, <1>7, <2>2, OtherSpends
    <3>3. \A F : Grown(r.cells, F) =>
            \A to, token : Building!Asked(op, to, token, F) = Building!Asked(op, to, token, r.cells)
      BY <1>1, <1>3, <3>2, AskedStays
    <3>4. Grown(r.cells, r.cells)
      BY DEF Grown
    <3> QED BY <3>1, <3>2, <3>3, <3>4
  <2> QED BY <2>1, <2>2
<1>9. Grown(cells, s.cells)
  BY <1>3, <1>7, <1>8, GrownTwice
<1>10. ASSUME NEW j \in 1..(n + 1) PROVE Settled(g.ops[j], s.cells)
  <2>1. CASE j = n + 1
    BY <1>0, <1>8, <2>1
  <2>2. CASE j \in 1..n
    <3>1. OpOk(g.ops[j], size) /\ Settled(g.ops[j], r.cells)
      BY <1>7, <2>2
    <3> QED BY <1>3, <1>8, <3>1, AskedStays
  <2> QED BY <2>1, <2>2
<1>11. ASSUME NEW F, NEW to, NEW token, NEW t, Grown(s.cells, F), Runs(AskedIn(g.ops, to, token, F), t)
       PROVE  Spent(s, to, token) = t[n + 1]
  <2>1. PICK w : w = AskedIn(g.ops, to, token, F)
    OBVIOUS
  <2>2. w = [j \in 1..Len(g.ops) |-> Building!Asked(g.ops[j], to, token, F)]
    BY <2>1 DEF AskedIn
  <2>3. Len(w) = Len(g.ops) /\ n + 1 \in 1..Len(w) /\ (n + 1) - 1 = n
    BY <2>2
  <2>4. t[n + 1] = t[n] + w[n + 1] /\ w[n + 1] = Building!Asked(op, to, token, F)
    BY <1>0, <1>11, <2>1, <2>2, <2>3 DEF Runs
  <2>5. Grown(r.cells, F)
    BY <1>3, <1>4, <1>8, <1>11, GrownTwice
  <2>6. Spent(r, to, token) = t[n]
    BY <1>7, <1>11, <2>5
  <2> QED BY <1>8, <1>11, <2>4, <2>6
<1> QED BY <1>8, <1>9, <1>10, <1>11

\* What a group asks for, its block gives.
GroupSpent(g, r) ==
  /\ Grown(handles, r.cells) /\ \A j \in DOMAIN g.ops : Settled(g.ops[j], r.cells)
  /\ AmountsOk(Building!IntoOperations(r))
  /\ \A to, token : AskedOf(g.ops, to, token, r.cells)
       = Building!TotalGiven(Building!IntoOperations(r), to, token)

\* The amounts that are asked for.
LEMMA AskedInts ==
  ASSUME NEW ops, Listing(ops), NEW n, \A i \in DOMAIN ops : OpOk(ops[i], n), NEW to, NEW token, NEW cells
  PROVE  /\ AskedIn(ops, to, token, cells) \in Seq(Int) /\ Len(AskedIn(ops, to, token, cells)) = Len(ops)
         /\ Len(ops) \in Nat /\ DOMAIN ops = 1..Len(ops) /\ AskedOf(ops, to, token, cells) \in Int
<1>1. Len(ops) \in Nat /\ DOMAIN ops = 1..Len(ops)
  BY ListingIs DEF Listing
<1>2. \A i \in DOMAIN ops : Building!Asked(ops[i], to, token, cells) \in Int
  BY DEF OpOk, SendForm, Building!Asked
<1>3. AskedIn(ops, to, token, cells) \in Seq(Int) /\ Len(AskedIn(ops, to, token, cells)) = Len(ops)
  BY <1>1, <1>2 DEF AskedIn
<1> QED BY <1>1, <1>3, TotalIs DEF AskedOf

\* render_ops, then into_operations: nothing is lost and nothing added.
LEMMA GroupSpends ==
  ASSUME NEW g, NEW previous, FreshOps(g, handles), Listing(handles), Listing(g.ops),
         \A i \in DOMAIN g.ops : OpOk(g.ops[i], Len(handles)),
         NEW r, r = Building!RenderOps(g, previous), r.ok
  PROVE  GroupSpent(g, r)
<1> DEFINE c == <<g, previous, handles>>
           base == Building!NothingRendered(handles)
<1>1. r = SpendFold!Fold(c, base, g.ops)
  BY DEF Building!RenderOps, Building!FoldLeft, Building!MapThenFoldSet, Building!Max,
         SpendFold!Fold, SpendFold!FoldLeft, SpendFold!MapThenFoldSet, SpendFold!Max, RenderStep
<1>2. Len(g.ops) \in Nat /\ DOMAIN g.ops = 1..Len(g.ops) /\ Len(handles) \in Nat
      /\ DOMAIN handles = 1..Len(handles)
  BY ListingIs DEF Listing
<1>3. SpendInv(c, 0, base)
  <2>1. "creates" \in BucketSet /\ "aggregated" \in BucketSet /\ "external" \in BucketSet /\ "raw" \in BucketSet
    BY BucketNames
  <2>2. /\ DOMAIN base = {"ok", "cells", "buckets"} /\ base.cells = handles
        /\ base.buckets = [b \in BucketSet |-> << >>]
    BY DEF Building!NothingRendered, BucketSet
  <2>3. Listing(<< >>) /\ DOMAIN << >> = {}
    BY DEF Listing
  <2> HIDE DEF base
  <2>4. CreatesOf(g, 0) = {}
    BY DEF CreatesOf
  <2>5. RShape(base)
    BY <2>1, <2>2, <2>3 DEF RShape
  <2>6. DerivedAt(g, previous, base.buckets["creates"])
    BY <2>1, <2>2, <2>3 DEF DerivedAt
  <2>7. Plain(handles)
    BY DEF Listing, Plain
  <2>8. Rendered(c, 0, base)
    BY <2>2, <2>4, <2>5, <2>6, <2>7 DEF Rendered
  <2>9. AmountsOk(<< >>) /\ SumsOk(<< >>)
    BY <2>3 DEF AmountsOk, SumsOk
  <2>10. \A b \in BucketSet : base.buckets[b] = << >>
    BY <2>2
  <2>11. Sends(base)
    BY <2>1, <2>3, <2>9, <2>10 DEF Sends
  <2>12. \A to, token : Spent(base, to, token) = 0
    <3>1. \A to, token : Building!TotalGiven(<< >>, to, token) = 0
      BY <2>3, <2>9, GivenNone
    <3> QED BY <2>1, <2>10, <3>1 DEF Spent
  <2>13. Grown(handles, base.cells)
    BY <2>2 DEF Grown
  <2>14. \A F, to, token, t : Runs(AskedIn(g.ops, to, token, F), t) => Spent(base, to, token) = t[0]
    BY <2>12 DEF Runs
  <2> QED BY <2>8, <2>11, <2>13, <2>14 DEF SpendInv
<1>4. ASSUME NEW i \in 1..Len(g.ops), NEW q, SpendInv(c, i - 1, q)
      PROVE  SpendInv(c, i, RenderStep(c, q, g.ops[i]))
  <2>1. i - 1 \in Nat /\ (i - 1) + 1 = i /\ i <= Len(g.ops)
    BY <1>2
  <2>2. PICK m \in Nat : m = i - 1 /\ m + 1 = i
    BY <2>1
  <2>3. SpendInv(c, m, q)
    BY <1>4, <2>2
  <2>4. SpendInv(c, m + 1, RenderStep(c, q, g.ops[m + 1]))
    BY <1>2, <2>1, <2>2, <2>3, SpendStep
  <2> HIDE DEF c
  <2> QED BY <2>2, <2>4
<1> HIDE DEF c, base
<1>5. SpendInv(c, Len(g.ops), r)
  BY <1>1, <1>3, <1>4, SpendFold!FoldKeeps DEF Listing
<1>6. /\ RShape(r) /\ Sends(r) /\ Grown(handles, r.cells) /\ \A j \in DOMAIN g.ops : Settled(g.ops[j], r.cells)
      /\ \A to, token, t :
           Runs(AskedIn(g.ops, to, token, r.cells), t) => Spent(r, to, token) = t[Len(g.ops)]
  <2>1. Grown(r.cells, r.cells)
    BY DEF Grown
  <2> QED BY <1>2, <1>5, <2>1 DEF SpendInv, Rendered, c
<1>7. ASSUME NEW to, NEW token
      PROVE  AskedOf(g.ops, to, token, r.cells) = Spent(r, to, token)
  <2>1. PICK w : w = AskedIn(g.ops, to, token, r.cells)
    OBVIOUS
  <2>2. w \in Seq(Int) /\ Len(w) = Len(g.ops)
    <3>1. PICK cells, ops, n : cells = r.cells /\ ops = g.ops /\ n = Len(handles)
      OBVIOUS
    <3>2. Listing(ops) /\ (\A i \in DOMAIN ops : OpOk(ops[i], n)) /\ w = AskedIn(ops, to, token, cells)
      BY <2>1, <3>1
    <3>3. w \in Seq(Int) /\ Len(w) = Len(ops)
      BY <3>2, AskedInts
    <3> QED BY <3>1, <3>3
  <2>3. PICK t : Runs(w, t) /\ Building!Total(w) = t[Len(w)]
    BY <2>2, TotalIs
  <2> QED BY <1>6, <2>1, <2>2, <2>3 DEF AskedOf
<1>8. PICK ops : ops = Building!IntoOperations(r)
  OBVIOUS
<1>9. \A to, token : AmountsOk(ops) /\ Building!TotalGiven(ops, to, token) = Spent(r, to, token)
  BY <1>6, <1>8, IntoSpends
<1> QED BY <1>6, <1>7, <1>8, <1>9 DEF GroupSpent

-----------------------------------------------------------------------------
(* What a call of build has sent so far.                                   *)

AskedUpTo(all, n, to, token, cells) == [i \in 1..n |-> AskedOf(all[i].ops, to, token, cells)]
GivenBy(made, to, token) == [m \in DOMAIN made |-> Building!TotalGiven(made[m].data.ops, to, token)]

\* The blocks made for the first n groups give what these groups ask for.
Balanced(all, n, made, cells) ==
  /\ \A i \in 1..n : \A j \in DOMAIN all[i].ops : Settled(all[i].ops[j], cells)
  /\ \A m \in DOMAIN made : AmountsOk(made[m].data.ops)
  /\ \A to, token : Building!Total(AskedUpTo(all, n, to, token, cells))
                      = Building!Total(GivenBy(made, to, token))

SumInv ==
  build.phase \in {"running", "ok"} =>
    Balanced(build.all, Len(build.all) - Len(build.todo), build.made, handles)

\* What a group asks for does not change once its sends are settled.
LEMMA GroupStays ==
  ASSUME NEW size \in Nat, NEW cells, DOMAIN cells = 1..size, NEW more, Grown(cells, more),
         NEW ops, \A j \in DOMAIN ops : OpOk(ops[j], size) /\ Settled(ops[j], cells)
  PROVE  /\ \A j \in DOMAIN ops : Settled(ops[j], more)
         /\ \A to, token : AskedOf(ops, to, token, more) = AskedOf(ops, to, token, cells)
<1>1. ASSUME NEW j \in DOMAIN ops
      PROVE  /\ Settled(ops[j], more)
             /\ \A to, token : Building!Asked(ops[j], to, token, more) = Building!Asked(ops[j], to, token, cells)
  BY AskedStays
<1>2. \A to, token : AskedIn(ops, to, token, more) = AskedIn(ops, to, token, cells)
  BY <1>1 DEF AskedIn
<1> QED BY <1>1, <1>2 DEF AskedOf

\* More handles, or filled ones, disturb nothing.
LEMMA BalancedGrows ==
  ASSUME NEW size \in Nat, NEW cells, DOMAIN cells = 1..size, NEW more, Grown(cells, more),
         NEW all, GroupsOk(all, size), NEW n, 1..n \subseteq DOMAIN all,
         NEW made, Balanced(all, n, made, cells)
  PROVE  Balanced(all, n, made, more)
<1>1. ASSUME NEW i \in 1..n
      PROVE  /\ \A j \in DOMAIN all[i].ops : Settled(all[i].ops[j], more)
             /\ \A to, token : AskedOf(all[i].ops, to, token, more) = AskedOf(all[i].ops, to, token, cells)
  <2>1. PICK ops : ops = all[i].ops
    OBVIOUS
  <2>2. \A j \in DOMAIN ops : OpOk(ops[j], size) /\ Settled(ops[j], cells)
    BY <2>1 DEF GroupsOk, GroupOk, Balanced
  <2> QED BY <2>1, <2>2, GroupStays
<1>2. \A to, token : AskedUpTo(all, n, to, token, more) = AskedUpTo(all, n, to, token, cells)
  BY <1>1 DEF AskedUpTo
<1> QED BY <1>1, <1>2 DEF Balanced

\* What groups ask for, as a list of integers.
LEMMA AskedUpToInts ==
  ASSUME NEW size \in Nat, NEW cells, NEW all, GroupsOk(all, size), NEW n \in Nat, 1..n \subseteq DOMAIN all,
         NEW to, NEW token, NEW w, w = AskedUpTo(all, n, to, token, cells)
  PROVE  w \in Seq(Int) /\ Len(w) = n
<1>1. ASSUME NEW i \in 1..n PROVE AskedOf(all[i].ops, to, token, cells) \in Int
  <2>1. PICK ops : ops = all[i].ops
    OBVIOUS
  <2>2. Listing(ops) /\ \A j \in DOMAIN ops : OpOk(ops[j], size)
    BY <2>1 DEF GroupsOk, GroupOk
  <2> QED BY <2>1, <2>2, AskedInts
<1> QED BY <1>1 DEF AskedUpTo

\* What blocks give, as a list of integers.
LEMMA GivenByInts ==
  ASSUME NEW made, Listing(made), \A m \in DOMAIN made : AmountsOk(made[m].data.ops), NEW to, NEW token,
         NEW w, w = GivenBy(made, to, token)
  PROVE  w \in Seq(Int) /\ Len(w) = Len(made)
<1>1. Len(made) \in Nat /\ DOMAIN made = 1..Len(made)
  BY ListingIs DEF Listing
<1>2. \A m \in DOMAIN made : Building!TotalGiven(made[m].data.ops, to, token) \in Int
  BY GivenInts
<1> QED BY <1>1, <1>2 DEF GivenBy

\* One more group, with the block it was rendered to or with none.
LEMMA BalancedNext ==
  ASSUME NEW size \in Nat, NEW cells, NEW all, GroupsOk(all, size), NEW n \in Nat,
         1..(n + 1) \subseteq DOMAIN all, NEW made, Listing(made), Balanced(all, n, made, cells),
         NEW ops, AmountsOk(ops), \A j \in DOMAIN all[n + 1].ops : Settled(all[n + 1].ops[j], cells),
         \A to, token : AskedOf(all[n + 1].ops, to, token, cells) = Building!TotalGiven(ops, to, token),
         NEW after,
         \/ ops = << >> /\ after = made
         \/ \E b : b.data.ops = ops /\ after = Append(made, b)
  PROVE  Balanced(all, n + 1, after, cells)
<1>0. 1..n \subseteq 1..(n + 1) /\ 1..n \subseteq DOMAIN all /\ n + 1 \in 1..(n + 1)
      /\ Len(made) \in Nat /\ DOMAIN made = 1..Len(made)
  BY ListingIs DEF Listing
<1>1. \A i \in 1..(n + 1) : \A j \in DOMAIN all[i].ops : Settled(all[i].ops[j], cells)
  <2>1. \A i \in 1..(n + 1) : i = n + 1 \/ i \in 1..n
    OBVIOUS
  <2> QED BY <2>1 DEF Balanced
<1>2. \A m \in DOMAIN made : AmountsOk(made[m].data.ops)
  BY DEF Balanced
<1>3. ASSUME NEW to, NEW token
      PROVE  Building!Total(AskedUpTo(all, n + 1, to, token, cells))
               = Building!Total(AskedUpTo(all, n, to, token, cells)) + Building!TotalGiven(ops, to, token)
  <2>1. PICK w, v, x : /\ w = AskedUpTo(all, n, to, token, cells) /\ v = AskedUpTo(all, n + 1, to, token, cells)
                       /\ x = Building!TotalGiven(ops, to, token)
    OBVIOUS
  <2>2. w \in Seq(Int) /\ Len(w) = n
    BY <1>0, <2>1, AskedUpToInts
  <2>6. v \in Seq(Int) /\ Len(v) = n + 1
    <3>1. PICK k \in Nat : k = n + 1
      OBVIOUS
    <3> QED BY <2>1, <3>1, AskedUpToInts
  <2>3. x \in Int
    BY <2>1, GivenInts
  <2>4. (\A i \in 1..n : v[i] = w[i]) /\ v[n + 1] = x
    BY <1>0, <2>1 DEF AskedUpTo
  <2>5. v = Append(w, x)
    BY <2>2, <2>3, <2>4, <2>6
  <2> QED BY <2>1, <2>2, <2>3, <2>5, TotalAppend
<1>4. CASE ops = << >> /\ after = made
  <2>1. \A to, token : Building!TotalGiven(ops, to, token) = 0
    BY <1>4, GivenNone
  <2>2. \A to, token : Building!Total(AskedUpTo(all, n, to, token, cells)) \in Int
    BY <1>0, AskedUpToInts, TotalIs
  <2>3. \A to, token : Building!Total(AskedUpTo(all, n + 1, to, token, cells))
                         = Building!Total(AskedUpTo(all, n, to, token, cells))
    BY <1>3, <2>1, <2>2
  <2> QED BY <1>1, <1>4, <2>3 DEF Balanced
<1>5. ASSUME NEW b, b.data.ops = ops, after = Append(made, b) PROVE Balanced(all, n + 1, after, cells)
  <2>2. /\ DOMAIN after = 1..(Len(made) + 1) /\ after[Len(made) + 1] = b
        /\ \A m \in DOMAIN made : after[m] = made[m]
    BY <1>5, ListingAppend
  <2>4. \A m \in DOMAIN after : m \in DOMAIN made \/ m = Len(made) + 1
    BY <1>0, <2>2
  <2>5. \A m \in DOMAIN after : AmountsOk(after[m].data.ops)
    BY <1>2, <1>5, <2>2, <2>4
  <2>6. ASSUME NEW to, NEW token
        PROVE  Building!Total(GivenBy(after, to, token))
                 = Building!Total(GivenBy(made, to, token)) + Building!TotalGiven(ops, to, token)
    <3>1. PICK w, v, x : /\ w = GivenBy(made, to, token) /\ v = GivenBy(after, to, token)
                         /\ x = Building!TotalGiven(ops, to, token)
      OBVIOUS
    <3>2. x \in Int
      BY <3>1, GivenInts
    <3>3. /\ w = [m \in 1..Len(made) |-> Building!TotalGiven(made[m].data.ops, to, token)]
          /\ v = [m \in 1..(Len(made) + 1) |-> Building!TotalGiven(after[m].data.ops, to, token)]
      BY <1>0, <2>2, <3>1 DEF GivenBy
    <3>4. w \in Seq(Int) /\ Len(w) = Len(made)
      BY <1>2, <3>1, GivenByInts
    <3>5. PICK k : k = Len(made) /\ k \in Nat
      BY <1>0
    <3>6. ASSUME NEW m \in 1..(k + 1) PROVE v[m] = IF m = k + 1 THEN x ELSE w[m]
      <4>1. v[m] = Building!TotalGiven(after[m].data.ops, to, token)
        BY <3>3, <3>5
      <4>2. CASE m = k + 1
        BY <1>5, <2>2, <3>1, <3>5, <4>1, <4>2
      <4>3. CASE m \in 1..k
        <5>1. m # k + 1 /\ m \in DOMAIN made
          BY <1>0, <3>5, <4>3
        <5>2. w[m] = Building!TotalGiven(made[m].data.ops, to, token)
          BY <3>1, <5>1 DEF GivenBy
        <5> QED BY <2>2, <4>1, <5>1, <5>2
      <4>4. m = k + 1 \/ m \in 1..k
        BY <3>5
      <4> QED BY <4>2, <4>3, <4>4
    <3>7. v = Append(w, x)
      <4>1. v = [m \in 1..(k + 1) |-> IF m = k + 1 THEN x ELSE w[m]]
        BY <3>3, <3>5, <3>6
      <4>2. w \in Seq(Int) /\ Len(w) = k
        BY <3>4, <3>5
      <4> QED BY <3>2, <3>5, <4>1, <4>2
    <3> QED BY <3>1, <3>2, <3>4, <3>7, TotalAppend
  <2> QED BY <1>1, <1>3, <2>5, <2>6 DEF Balanced
<1> QED BY <1>4, <1>5

\* Staging hands out handles at most.
LEMMA StagingBalances ==
  ASSUME TxInv, SumInv, UNCHANGED build,
         UNCHANGED handles \/ handles' = Append(handles, Building!NoAccount)
  PROVE  SumInv'
<1>1. CASE UNCHANGED handles
  BY <1>1 DEF SumInv
<1>2. CASE handles' = Append(handles, Building!NoAccount)
  <2> SUFFICES ASSUME build.phase \in {"running", "ok"}
               PROVE  Balanced(build.all, Len(build.all) - Len(build.todo), build.made, handles')
    BY DEF SumInv
  <2>1. PICK all, n, made, size : /\ all = build.all /\ n = Len(build.all) - Len(build.todo)
                                  /\ made = build.made /\ size = Len(handles)
    OBVIOUS
  <2>2. Listing(handles) /\ GroupsOk(all, size) /\ Listing(build.todo) /\ Len(build.todo) <= Len(all)
    BY <2>1 DEF TxInv, BuilderInv, CallInv, GroupsOk
  <2>3. /\ Len(handles) \in Nat /\ DOMAIN handles = 1..Len(handles)
        /\ \A i \in DOMAIN handles : handles'[i] = handles[i]
    BY <1>2, <2>2, ListingAppend
  <2>4. Grown(handles, handles')
    BY <2>3 DEF Grown
  <2>5. 1..n \subseteq DOMAIN all
    <3>1. Len(all) \in Nat /\ DOMAIN all = 1..Len(all) /\ Len(build.todo) \in Nat
      BY <2>2, ListingIs DEF GroupsOk, Listing
    <3>2. PICK a, b : a = Len(all) /\ b = Len(build.todo)
      OBVIOUS
    <3>3. a \in Nat /\ b \in Nat /\ n = a - b /\ DOMAIN all = 1..a
      BY <2>1, <3>1, <3>2
    <3> QED BY <3>3
  <2>6. Balanced(all, n, made, handles)
    BY <2>1 DEF SumInv
  <2>7. Balanced(all, n, made, handles')
    BY <2>1, <2>2, <2>3, <2>4, <2>5, <2>6, BalancedGrows
  <2> QED BY <2>1, <2>7
<1> QED BY <1>1, <1>2

\* A call begins with nothing asked for and nothing given.
LEMMA BuildBalances ==
  ASSUME TxInv, Building!Build
  PROVE  SumInv'
<1>0. PICK kept : kept = Building!Kept(builder.groups, builder.current)
  OBVIOUS
<1>1. /\ build' = [Building!Idle EXCEPT !.phase = "running", !.all = kept, !.todo = kept,
                                        !.count = build.count + 1]
  BY <1>0 DEF Building!Build
<1>2. build'.all = kept /\ build'.todo = kept /\ build'.made = << >>
  BY <1>1 DEF Building!Idle
<1>3. TxInv'
  BY BuildKeeps
<1>4. Len(kept) \in Nat
  <2>1. Listing(build'.all)
    BY <1>3 DEF TxInv, CallInv, GroupsOk
  <2> QED BY <1>2, <2>1, ListingIs DEF Listing
<1>5. Len(build'.all) - Len(build'.todo) = 0
  BY <1>2, <1>4
<1>6. \A cells : Balanced(kept, 0, << >>, cells)
  <2>1. \A cells, to, token : AskedUpTo(kept, 0, to, token, cells) = << >> /\ GivenBy(<< >>, to, token) = << >>
    BY DEF AskedUpTo, GivenBy
  <2> QED BY <2>1 DEF Balanced
<1>7. Balanced(build'.all, 0, build'.made, handles')
  BY <1>2, <1>6
<1> QED BY <1>5, <1>7 DEF SumInv

\* A group that is done.
LEMMA TakenBalances ==
  ASSUME TxInv, SumInv, build.phase = "running", build.todo # << >>, NEW g, g = Head(build.todo),
         NEW previous, NEW r, r = Building!RenderOps(g, previous), r.ok,
         NEW ops, ops = Building!IntoOperations(r),
         handles' = r.cells, build'.all = build.all, build'.todo = Tail(build.todo),
         \/ ops = << >> /\ build'.made = build.made
         \/ \E b : b.data.ops = ops /\ build'.made = Append(build.made, b)
  PROVE  SumInv'
<1>0. PICK all, todo, made : all = build.all /\ todo = build.todo /\ made = build.made
  OBVIOUS
<1>1. PICK size, n : size = Len(handles) /\ n = Len(all) - Len(todo)
  OBVIOUS
<1>2. /\ GroupsOk(all, size) /\ GroupsOk(todo, size) /\ Len(todo) <= Len(all)
      /\ \A i \in DOMAIN todo : todo[i] = all[n + i]
      /\ Listing(handles) /\ Unfilled(todo, handles) /\ Listing(made)
  BY <1>0, <1>1 DEF TxInv, CallInv, BuilderInv, HashInv, Held
<1>3. /\ Len(todo) \in Nat /\ Len(Tail(todo)) = Len(todo) - 1 /\ Len(todo) >= 1
      /\ DOMAIN todo = 1..Len(todo) /\ Head(todo) = todo[1]
  BY <1>0, <1>2, ListingTail DEF GroupsOk
<1>4. Len(all) \in Nat /\ DOMAIN all = 1..Len(all) /\ size \in Nat /\ DOMAIN handles = 1..size
  BY <1>1, <1>2, ListingIs DEF GroupsOk, Listing
<1>5. /\ n \in Nat /\ 1..(n + 1) \subseteq DOMAIN all /\ 1..n \subseteq DOMAIN all
      /\ Len(all) - Len(Tail(todo)) = n + 1 /\ 1 \in DOMAIN todo
  <2>1. PICK a, b, c : a = Len(all) /\ b = Len(todo) /\ c = Len(Tail(todo))
    OBVIOUS
  <2>2. /\ a \in Nat /\ b \in Nat /\ c = b - 1 /\ b >= 1 /\ b <= a /\ n = a - b
        /\ DOMAIN all = 1..a /\ DOMAIN todo = 1..b
    BY <1>1, <1>2, <1>3, <1>4, <2>1
  <2>3. /\ n \in Nat /\ 1..(n + 1) \subseteq DOMAIN all /\ 1..n \subseteq DOMAIN all
        /\ a - c = n + 1 /\ 1 \in DOMAIN todo
    BY <2>2
  <2> QED BY <2>1, <2>3, Zenon
<1>6. g = all[n + 1]
  BY <1>0, <1>2, <1>3, <1>5
<1>7. /\ Listing(g.ops) /\ \A i \in DOMAIN g.ops : OpOk(g.ops[i], Len(handles))
  BY <1>1, <1>2, <1>5, <1>6 DEF GroupsOk, GroupOk
<1>8. FreshOps(g, handles)
  <2>1. g = todo[1] /\ \A j \in CreatesIn(g) : handles[g.ops[j].handle] = Building!NoAccount
    BY <1>0, <1>2, <1>3, <1>5 DEF Unfilled
  <2>2. \A j, k \in CreatesIn(g) : g.ops[j].handle = g.ops[k].handle => j = k
    BY <1>2, <1>5, <2>1 DEF Unfilled
  <2>3. Len(g.ops) \in Nat /\ DOMAIN g.ops = 1..Len(g.ops)
    BY <1>7, ListingIs DEF Listing
  <2>4. ASSUME NEW j \in CreatesIn(g) PROVE g.ops[j].handle \in DOMAIN handles
    <3>1. j \in DOMAIN g.ops /\ g.ops[j].op = "createIdentifier"
      BY <2>3 DEF CreatesIn, CreatesOf
    <3>2. PICK op : op = g.ops[j]
      OBVIOUS
    <3>3. OpOk(op, size) /\ op.op = "createIdentifier"
      BY <1>1, <1>7, <3>1, <3>2
    <3>4. op.handle \in 1..size
      BY <3>3 DEF OpOk, StagedKinds, Building!BucketOf
    <3> QED BY <1>4, <3>2, <3>4
  <2> QED BY <2>1, <2>2, <2>4 DEF FreshOps, CreatesIn
<1>9. GroupSpent(g, r)
  BY <1>2, <1>7, <1>8, GroupSpends
<1>10. PICK cells : cells = r.cells
  OBVIOUS
<1>11. Balanced(all, n, made, handles)
  BY <1>0, <1>1 DEF SumInv
<1>12. Balanced(all, n, made, cells)
  BY <1>2, <1>4, <1>5, <1>9, <1>10, <1>11, BalancedGrows DEF GroupSpent
<1>13. /\ AmountsOk(ops) /\ \A j \in DOMAIN all[n + 1].ops : Settled(all[n + 1].ops[j], cells)
       /\ \A to, token : AskedOf(all[n + 1].ops, to, token, cells) = Building!TotalGiven(ops, to, token)
  BY <1>6, <1>9, <1>10 DEF GroupSpent
<1>14. PICK after : after = build'.made
  OBVIOUS
<1>15. Balanced(all, n + 1, after, cells)
  BY <1>0, <1>2, <1>4, <1>5, <1>12, <1>13, <1>14, BalancedNext
<1>16. Balanced(build'.all, Len(build'.all) - Len(build'.todo), build'.made, handles')
  BY <1>0, <1>5, <1>10, <1>14, <1>15
<1> QED BY <1>16 DEF SumInv

\* Every step keeps what was sent equal to what was asked for.
LEMMA SpendingStep ==
  ASSUME TxInv, SumInv, [Building!Next]_(Building!vars)
  PROVE  SumInv'
<1>1. CASE UNCHANGED <<build, handles>>
  BY <1>1, StagingBalances
<1>2. ASSUME NEW type \in {"token", "storage"}, Building!GenerateIdentifier(type) PROVE SumInv'
  BY <1>2, StagingBalances DEF Building!GenerateIdentifier, Building!Push
<1>3. CASE Building!BuildGroup
  <2>0. PICK g, previous : g = Head(build.todo) /\ previous = Building!PreviousFor(g)
    OBVIOUS
  <2>1. PICK r, ops : r = Building!RenderOps(g, previous) /\ ops = Building!IntoOperations(r)
    OBVIOUS
  <2>2. PICK data : data = Building!BlockOf(g, previous, ops)
    OBVIOUS
  <2>3. /\ build.phase = "running" /\ build.todo # << >> /\ handles' = r.cells
        /\ \/ /\ r.ok /\ ops = << >>
              /\ build' = [build EXCEPT !.todo = Tail(@)]
           \/ /\ r.ok
              /\ build' = [[build EXCEPT !.todo = Tail(@)] EXCEPT
                              !.made = Append(@, [hash |-> hashes + 1, data |-> data]),
                              !.rendered = <<data>>]
           \/ build' = [build EXCEPT !.phase = "failed",
                                     !.rendered = IF r.ok THEN <<data>> ELSE << >>]
    BY <1>3, <2>0, <2>1, <2>2 DEF Building!BuildGroup
  <2>4. DOMAIN build = {"phase", "all", "todo", "made", "rendered", "count"}
    BY DEF TxInv, CallInv
  <2>5. data.ops = ops
    BY <2>2 DEF Building!BlockOf
  <2>6. CASE r.ok /\ ops = << >> /\ build' = [build EXCEPT !.todo = Tail(@)]
    <3>1. build'.all = build.all /\ build'.todo = Tail(build.todo) /\ build'.made = build.made
      BY <2>4, <2>6
    <3> QED BY <2>0, <2>1, <2>3, <2>6, <3>1, TakenBalances
  <2>7. CASE /\ r.ok
             /\ build' = [[build EXCEPT !.todo = Tail(@)] EXCEPT
                              !.made = Append(@, [hash |-> hashes + 1, data |-> data]),
                              !.rendered = <<data>>]
    <3>1. PICK b : b = [hash |-> hashes + 1, data |-> data]
      OBVIOUS
    <3>2. /\ build'.all = build.all /\ build'.todo = Tail(build.todo)
          /\ build'.made = Append(build.made, b)
      BY <2>4, <2>7, <3>1
    <3>3. b.data.ops = ops
      BY <2>5, <3>1
    <3> QED BY <2>0, <2>1, <2>3, <2>7, <3>2, <3>3, TakenBalances
  <2>8. CASE build' = [build EXCEPT !.phase = "failed",
                                    !.rendered = IF r.ok THEN <<data>> ELSE << >>]
    <3>1. build'.phase = "failed"
      BY <2>4, <2>8
    <3> QED BY <3>1 DEF SumInv
  <2> QED BY <2>3, <2>6, <2>7, <2>8
<1>4. CASE Building!BuildInterrupted
  <2>1. build'.phase = "failed"
    BY <1>4 DEF Building!BuildInterrupted, TxInv, CallInv
  <2> QED BY <2>1 DEF SumInv
<1>5. CASE Building!BuildReturns
  <2>1. DOMAIN build = {"phase", "all", "todo", "made", "rendered", "count"}
    BY DEF TxInv, CallInv
  <2>2. build.phase = "running" /\ build' = [build EXCEPT !.phase = "ok"] /\ UNCHANGED handles
    BY <1>5 DEF Building!BuildReturns
  <2>3. build'.all = build.all /\ build'.todo = build.todo /\ build'.made = build.made
    BY <2>1, <2>2
  <2> QED BY <2>2, <2>3 DEF SumInv
<1>6. CASE UNCHANGED Building!vars
  BY <1>1, <1>6 DEF Building!vars
<1>7. CASE \E g \in Groups : Building!ForAccount(g[1], g[2])
  BY <1>1, <1>7 DEF Building!ForAccount
<1>8. ASSUME NEW op \in Staged, Building!Stage(op) PROVE SumInv'
  BY <1>1, <1>8 DEF Building!Stage, Building!Push
<1>12. ASSUME NEW op \in Staged, NEW h \in DOMAIN handles,
              NEW pointing \in Building!Pointing(op, h), Building!Stage(pointing)
       PROVE  SumInv'
  BY <1>1, <1>12 DEF Building!Stage, Building!Push
<1>9. ASSUME NEW op \in Staged, op.op = "setInfo", Building!SetInfo(op) PROVE SumInv'
  BY <1>1, <1>9 DEF Building!SetInfo, Building!Push
<1>10. CASE Building!WithPrevious(hashes)
  BY <1>1, <1>10 DEF Building!WithPrevious
<1>11. CASE \E a \in Building!Ledger : Building!HeadMoves(a)
  BY <1>1, <1>11 DEF Building!HeadMoves
<1>13. CASE Building!Build
  BY <1>13, BuildBalances
<1> QED BY <1>2, <1>3, <1>4, <1>5, <1>6, <1>7, <1>8, <1>9, <1>10, <1>11, <1>12, <1>13 DEF Building!Next

\* The elements of what is strung together are elements of its parts.
LEMMA FlattenIn ==
  ASSUME NEW X, NEW seqs \in Seq(Seq(X))
  PROVE  Building!FlattenSeq(seqs) \in Seq(X)
<1>1. Len(seqs) \in Nat /\ DOMAIN seqs = 1..Len(seqs)
  OBVIOUS
<1>2. CASE Len(seqs) = 0
  <2>1. Building!FlattenSeq(seqs) = seqs /\ seqs = << >>
    BY <1>1, <1>2 DEF Building!FlattenSeq
  <2> QED BY <2>1
<1>3. CASE Len(seqs) # 0
  <2>1. Len(seqs) >= 1
    BY <1>1, <1>3
  <2> QED BY <2>1, FlattenFacts
<1> QED BY <1>2, <1>3

\* A list weighs as much as the lists it was strung together from.
SameWeight(W, X, flat, n, lists) ==
  /\ \A i \in DOMAIN flat : flat[i] \in X
  /\ Building!Total([i \in DOMAIN flat |-> W[flat[i]]])
       = Building!Total([i \in 1..n |-> Building!Total([j \in DOMAIN lists[i] |-> W[lists[i][j]]])])

\* Lists strung together, weighed one after the other.
LEMMA FlattenWeighs ==
  ASSUME NEW n \in Nat, NEW lists, lists = [i \in 1..n |-> lists[i]], \A i \in 1..n : Listing(lists[i]),
         NEW X, \A i \in 1..n : \A j \in DOMAIN lists[i] : lists[i][j] \in X,
         NEW W \in [X -> Int], NEW flat, flat = Building!FlattenSeq(lists)
  PROVE  SameWeight(W, X, flat, n, lists)
<1>1. ASSUME NEW i \in 1..n PROVE lists[i] \in Seq(X)
  <2>1. PICK s : s = lists[i]
    OBVIOUS
  <2>2. Listing(s) /\ \A j \in DOMAIN s : s[j] \in X
    BY <2>1
  <2> QED BY <2>1, <2>2, ListingIn
<1>2. PICK Y : Y = Seq(X)
  OBVIOUS
<1>3. lists \in Seq(Y) /\ DOMAIN lists = 1..n
  <2>1. \A i \in 1..n : lists[i] \in Y
    BY <1>1, <1>2
  <2>2. [i \in 1..n |-> lists[i]] \in Seq(Y)
    BY <2>1
  <2>3. DOMAIN [i \in 1..n |-> lists[i]] = 1..n
    OBVIOUS
  <2> QED BY <2>2, <2>3, Zenon
<1>4. flat \in Seq(X)
  BY <1>2, <1>3, FlattenIn
<1>5. Weight(W, flat) = Building!Total([i \in DOMAIN lists |-> Weight(W, lists[i])])
  BY <1>2, <1>3, WeightFlatten, ZenonT(60)
<1>6. \A i \in DOMAIN flat : flat[i] \in X
  BY <1>4
<1>7. Weight(W, flat) = Building!Total([i \in 1..n |-> Weight(W, lists[i])])
  BY <1>3, <1>5
<1> QED BY <1>6, <1>7, Zenon DEF SameWeight, Weight, Weighed

\* What all the groups ask for together.
LEMMA AskedTogether ==
  ASSUME NEW size, NEW all, GroupsOk(all, size), NEW to, NEW token, NEW asked,
         asked = Building!FlattenSeq([i \in DOMAIN all |-> all[i].ops])
  PROVE  Building!TotalAsked(asked, to, token)
           = Building!Total(AskedUpTo(all, Len(all), to, token, handles))
<1> DEFINE n == Len(all)
           lists == [i \in 1..n |-> all[i].ops]
           X == UNION {{lists[i][j] : j \in DOMAIN lists[i]} : i \in 1..n}
           W == [op \in X |-> Building!Asked(op, to, token, handles)]
<1>1. n \in Nat /\ DOMAIN all = 1..n
  BY ListingIs DEF GroupsOk, Listing
<1>2. lists = [i \in 1..n |-> lists[i]] /\ asked = Building!FlattenSeq(lists)
  BY <1>1
<1>3. ASSUME NEW i \in 1..n PROVE Listing(lists[i]) /\ \A j \in DOMAIN lists[i] : OpOk(lists[i][j], size)
  BY <1>1 DEF GroupsOk, GroupOk
<1>4. lists = [i \in 1..n |-> all[i].ops]
  OBVIOUS
<1> HIDE DEF n, lists
<1>5. W \in [X -> Int]
  <2>1. ASSUME NEW op \in X PROVE Building!Asked(op, to, token, handles) \in Int
    <3>1. OpOk(op, size)
      BY <1>3
    <3> QED BY <3>1 DEF OpOk, SendForm, Building!Asked
  <2> QED BY <2>1
<1>6. X = UNION {{lists[i][j] : j \in DOMAIN lists[i]} : i \in 1..n} /\ \A op \in X : W[op] = Building!Asked(op, to, token, handles)
  OBVIOUS
<1> HIDE DEF X, W
<1>11. \A i \in 1..n : \A j \in DOMAIN lists[i] : lists[i][j] \in X
  BY <1>6
<1>12. \A i \in 1..n : Listing(lists[i])
  BY <1>3
<1>13. SameWeight(W, X, asked, n, lists)
  BY <1>1, <1>2, <1>5, <1>11, <1>12, FlattenWeighs
<1>7. /\ \A i \in DOMAIN asked : asked[i] \in X
      /\ Building!Total([i \in DOMAIN asked |-> W[asked[i]]])
           = Building!Total([i \in 1..n |-> Building!Total([j \in DOMAIN lists[i] |-> W[lists[i][j]]])])
  BY <1>13, Zenon DEF SameWeight
<1>8. [i \in DOMAIN asked |-> W[asked[i]]] = [i \in DOMAIN asked |-> Building!Asked(asked[i], to, token, handles)]
  BY <1>6, <1>7
<1>9. ASSUME NEW i \in 1..n
      PROVE  Building!Total([j \in DOMAIN lists[i] |-> W[lists[i][j]]]) = AskedOf(all[i].ops, to, token, handles)
  <2>1. lists[i] = all[i].ops
    BY <1>4
  <2>2. [j \in DOMAIN lists[i] |-> W[lists[i][j]]] = AskedIn(lists[i], to, token, handles)
    BY <1>6, <1>11 DEF AskedIn
  <2> QED BY <2>1, <2>2 DEF AskedOf
<1>10. [i \in 1..n |-> Building!Total([j \in DOMAIN lists[i] |-> W[lists[i][j]]])] = AskedUpTo(all, n, to, token, handles)
  BY <1>9 DEF AskedUpTo
<1> QED BY <1>7, <1>8, <1>10 DEF Building!TotalAsked, n

\* What all the blocks give together.
LEMMA GivenTogether ==
  ASSUME NEW made, Listing(made), \A m \in DOMAIN made : AmountsOk(made[m].data.ops), NEW to, NEW token,
         NEW done, done = Building!FlattenSeq([i \in DOMAIN made |-> made[i].data.ops])
  PROVE  Building!TotalGiven(done, to, token) = Building!Total(GivenBy(made, to, token))
<1> DEFINE n == Len(made)
           lists == [i \in 1..n |-> made[i].data.ops]
           X == UNION {{lists[i][j] : j \in DOMAIN lists[i]} : i \in 1..n}
           W == [op \in X |-> Building!Given(op, to, token)]
<1>1. n \in Nat /\ DOMAIN made = 1..n
  BY ListingIs DEF Listing
<1>2. lists = [i \in 1..n |-> lists[i]] /\ done = Building!FlattenSeq(lists)
  BY <1>1
<1>3. ASSUME NEW i \in 1..n
      PROVE  Listing(lists[i]) /\ \A j \in DOMAIN lists[i] : lists[i][j].op = "send" => lists[i][j].amount \in Int
  BY <1>1 DEF AmountsOk
<1>4. lists = [i \in 1..n |-> made[i].data.ops]
  OBVIOUS
<1> HIDE DEF n, lists
<1>5. W \in [X -> Int]
  <2>1. ASSUME NEW op \in X PROVE Building!Given(op, to, token) \in Int
    <3>1. op.op = "send" => op.amount \in Int
      BY <1>3
    <3> QED BY <3>1 DEF Building!Given
  <2> QED BY <2>1
<1>6. X = UNION {{lists[i][j] : j \in DOMAIN lists[i]} : i \in 1..n} /\ \A op \in X : W[op] = Building!Given(op, to, token)
  OBVIOUS
<1> HIDE DEF X, W
<1>11. \A i \in 1..n : \A j \in DOMAIN lists[i] : lists[i][j] \in X
  BY <1>6
<1>12. \A i \in 1..n : Listing(lists[i])
  BY <1>3
<1>13. SameWeight(W, X, done, n, lists)
  BY <1>1, <1>2, <1>5, <1>11, <1>12, FlattenWeighs
<1>7. /\ \A i \in DOMAIN done : done[i] \in X
      /\ Building!Total([i \in DOMAIN done |-> W[done[i]]])
           = Building!Total([i \in 1..n |-> Building!Total([j \in DOMAIN lists[i] |-> W[lists[i][j]]])])
  BY <1>13, Zenon DEF SameWeight
<1>8. [i \in DOMAIN done |-> W[done[i]]] = [i \in DOMAIN done |-> Building!Given(done[i], to, token)]
  BY <1>6, <1>7
<1>9. ASSUME NEW i \in 1..n
      PROVE  Building!Total([j \in DOMAIN lists[i] |-> W[lists[i][j]]]) = Building!TotalGiven(made[i].data.ops, to, token)
  <2>1. lists[i] = made[i].data.ops
    BY <1>4
  <2>2. [j \in DOMAIN lists[i] |-> W[lists[i][j]]] = [j \in DOMAIN lists[i] |-> Building!Given(lists[i][j], to, token)]
    BY <1>6, <1>11
  <2> QED BY <2>1, <2>2 DEF Building!TotalGiven
<1>10. [i \in 1..n |-> Building!Total([j \in DOMAIN lists[i] |-> W[lists[i][j]]])] = GivenBy(made, to, token)
  BY <1>1, <1>9 DEF GivenBy
<1> QED BY <1>7, <1>8, <1>10 DEF Building!TotalGiven

\* A call of build that returns sends to every recipient exactly what was
\* staged for it, whatever was aggregated, dropped or skipped (render_ops,
\* into_operations).
THEOREM SendsConservedHolds == LocalSpec => []SendsConserved
<1>1. LocalInit => SumInv
  BY DEF LocalInit, Building!Init, Building!Idle, SumInv
<1>2. TxInv /\ SumInv /\ [LocalNext]_localVars => SumInv'
  <2> SUFFICES ASSUME TxInv, SumInv, [LocalNext]_localVars PROVE SumInv'
    OBVIOUS
  <2>1. [Building!Next]_(Building!vars)
    BY OnlyBuilding
  <2> QED BY <2>1, SpendingStep
<1>3. ASSUME TxInv, SumInv PROVE SendsConserved
  <2> SUFFICES ASSUME build.phase = "ok" PROVE SendsConserved
    BY DEF SendsConserved, Building!SendsConserved
  <2>1. PICK all, made : all = build.all /\ made = build.made
    OBVIOUS
  <2>2. PICK asked, done : /\ asked = Building!FlattenSeq([i \in DOMAIN all |-> all[i].ops])
                           /\ done = Building!FlattenSeq([i \in DOMAIN made |-> made[i].data.ops])
    OBVIOUS
  <2>3. GroupsOk(all, Len(handles)) /\ Listing(made) /\ Len(build.todo) = 0
    BY <1>3, <2>1 DEF TxInv, CallInv, HashInv
  <2>4. Len(all) \in Nat
    BY <2>3, ListingIs DEF GroupsOk, Listing
  <2>5. Balanced(all, Len(all), made, handles)
    <3>1. Balanced(all, Len(all) - Len(build.todo), made, handles)
      BY <1>3, <2>1 DEF SumInv
    <3>2. Len(all) - Len(build.todo) = Len(all)
      BY <2>3, <2>4
    <3> QED BY <3>1, <3>2
  <2>6. \A to, token : Building!TotalAsked(asked, to, token)
                         = Building!Total(AskedUpTo(all, Len(all), to, token, handles))
    BY <2>2, <2>3, AskedTogether
  <2>7. \A to, token : Building!TotalGiven(done, to, token) = Building!Total(GivenBy(made, to, token))
    BY <2>2, <2>3, <2>5, GivenTogether DEF Balanced
  <2>8. \A to, token : Building!TotalAsked(asked, to, token) = Building!TotalGiven(done, to, token)
    BY <2>5, <2>6, <2>7 DEF Balanced
  <2> QED BY <2>1, <2>2, <2>8 DEF SendsConserved, Building!SendsConserved
<1> QED BY <1>1, <1>2, <1>3, TxInvariant, PTL DEF LocalSpec
=============================================================================
