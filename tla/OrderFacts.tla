----------------------------- MODULE OrderFacts -----------------------------
(***************************************************************************)
(* Least and greatest elements of sets of naturals, induction as a fact    *)
(* about such sets, sums over finite sets, and sequences: what the proofs  *)
(* need where the code takes a first, a last, a lowest or a highest entry, *)
(* runs over a list or adds up weights.                                    *)
(***************************************************************************)
EXTENDS Naturals, Sequences, WellFoundedInduction, FiniteSetsExt, FiniteSetTheorems, TLAPS

\* A nonempty set of naturals has a least element.
LEMMA LeastNat ==
  ASSUME NEW T \in SUBSET Nat, T # {}
  PROVE  \E x \in T : \A y \in T : x <= y
<1> DEFINE R == OpToRel(<, Nat)
<1>0. IsWellFoundedOn(R, Nat)
  BY NatLessThanWellFounded
<1>1. \A x, y \in Nat : <<y, x>> \in R <=> y < x
  BY DEF OpToRel
<1> HIDE DEF R
<1>2. PICK x \in T : \A y \in T : ~(<<y, x>> \in R)
  BY <1>0, WFMin
<1>3. ASSUME NEW y \in T PROVE x <= y
  <2>1. x \in Nat /\ y \in Nat /\ ~(y < x)
    BY <1>1, <1>2
  <2> QED BY <2>1
<1> QED BY <1>3

\* A nonempty bounded set of naturals has a greatest element.
LEMMA GreatestNat ==
  ASSUME NEW N \in Nat, NEW T \in SUBSET (0..N), T # {}
  PROVE  \E x \in T : \A y \in T : y <= x
<1> DEFINE U == {u \in Nat : N - u \in T}
<1>1. U \in SUBSET Nat /\ U # {}
  <2>1. PICK x \in T : TRUE
    OBVIOUS
  <2>2. N - x \in Nat /\ N - (N - x) = x
    OBVIOUS
  <2> QED BY <2>2
<1>2. PICK u \in U : \A v \in U : u <= v
  <2> HIDE DEF U
  <2> QED BY <1>1, LeastNat
<1>3. ASSUME NEW y \in T PROVE y <= N - u
  <2>1. y \in Nat /\ N - y \in Nat /\ N - (N - y) = y
    OBVIOUS
  <2>2. u <= N - y
    BY <1>2, <2>1
  <2> QED BY <2>1, <2>2
<1> QED BY <1>2, <1>3
\* A set of naturals that contains zero, and with a number the next one, contains
\* them all.
LEMMA NatInductionSet ==
  ASSUME NEW M \in SUBSET Nat, 0 \in M, \A m \in M : m + 1 \in M
  PROVE  M = Nat
<1> SUFFICES ASSUME M # Nat PROVE FALSE
  OBVIOUS
<1> DEFINE T == Nat \ M
<1>1. PICK x \in T : \A y \in T : x <= y
  <2>1. T \in SUBSET Nat /\ T # {}
    OBVIOUS
  <2> HIDE DEF T
  <2> QED BY <2>1, LeastNat
<1>2. x \in Nat /\ x # 0
  OBVIOUS
<1>3. x - 1 \in Nat /\ x - 1 \notin T
  BY <1>1, <1>2
<1>4. x - 1 \in M
  BY <1>3
<1>5. (x - 1) + 1 = x
  BY <1>2
<1> QED BY <1>4, <1>5

-----------------------------------------------------------------------------
(* Sums over finite sets.                                                  *)

\* The sum of the values of W over S.
SumOf(W, S) == MapThenSumSet(LAMBDA x : W[x], S)

\* The element that is added last, and what the sums over the subsets of S obey.
Picked(s) == CHOOSE x \in s : TRUE
SumsBelow(W, D, g) ==
  g = [s \in D |-> IF s = {} THEN 0 ELSE W[Picked(s)] + g[s \ {Picked(s)}]]
UpTo(S, m) == {s \in SUBSET S : Cardinality(s) <= m}

LEMMA SumIsChoice ==
  ASSUME NEW W, NEW S
  PROVE  SumOf(W, S) = (CHOOSE g : SumsBelow(W, SUBSET S, g))[S]
BY DEF SumOf, MapThenSumSet, MapThenFoldSet, SumsBelow, Picked

\* Taking the picked element away leaves a smaller subset.
LEMMA PickedLess ==
  ASSUME NEW s, IsFiniteSet(s), s # {}
  PROVE  /\ Picked(s) \in s /\ IsFiniteSet(s \ {Picked(s)})
         /\ Cardinality(s) \in Nat \ {0}
         /\ Cardinality(s \ {Picked(s)}) = Cardinality(s) - 1
<1>1. Picked(s) \in s
  BY DEF Picked
<1>2. IsFiniteSet(s \ {Picked(s)}) /\ Cardinality(s \ {Picked(s)}) = Cardinality(s) - 1
  BY <1>1, FS_RemoveElement
<1>3. Cardinality(s) \in Nat /\ Cardinality(s) # 0
  BY FS_CardinalityType, FS_EmptySet
<1> QED BY <1>1, <1>2, <1>3

\* The sums over the subsets of a finite set exist ...
LEMMA SumsExist ==
  ASSUME NEW W, NEW S, IsFiniteSet(S)
  PROVE  \E g : SumsBelow(W, SUBSET S, g)
<1> DEFINE Some(m) == \E g : SumsBelow(W, UpTo(S, m), g)
           M == {m \in Nat : Some(m)}
<1>0. \A s \in SUBSET S : IsFiniteSet(s) /\ Cardinality(s) \in Nat
  BY FS_Subset, FS_CardinalityType
<1>1. 0 \in M
  <2>1. \A s \in UpTo(S, 0) : s = {}
    BY <1>0, FS_EmptySet DEF UpTo
  <2>2. SumsBelow(W, UpTo(S, 0), [s \in UpTo(S, 0) |-> 0])
    BY <2>1 DEF SumsBelow
  <2> QED BY <2>2
<1>2. ASSUME NEW m \in M PROVE m + 1 \in M
  <2>1. m \in Nat /\ Some(m)
    <3> HIDE DEF Some
    <3> QED OBVIOUS
  <2>2. PICK g : SumsBelow(W, UpTo(S, m), g)
    BY <2>1
  <2> DEFINE h == [s \in UpTo(S, m + 1) |->
                     IF s \in UpTo(S, m) THEN g[s] ELSE W[Picked(s)] + g[s \ {Picked(s)}]]
  <2>3. ASSUME NEW s \in UpTo(S, m + 1)
        PROVE  h[s] = IF s = {} THEN 0 ELSE W[Picked(s)] + h[s \ {Picked(s)}]
    <3>1. CASE s = {}
      <4>1. s \in UpTo(S, m)
        BY <2>1, <3>1, FS_EmptySet DEF UpTo
      <4> QED BY <2>2, <3>1, <4>1 DEF SumsBelow
    <3>2. CASE s # {}
      <4>1. /\ Cardinality(s) \in Nat /\ Cardinality(s) <= m + 1
            /\ Cardinality(s \ {Picked(s)}) = Cardinality(s) - 1
            /\ s \ {Picked(s)} \in SUBSET S
        BY <1>0, <3>2, PickedLess DEF UpTo
      <4>2. s \ {Picked(s)} \in UpTo(S, m) /\ s \ {Picked(s)} \in UpTo(S, m + 1)
        BY <2>1, <4>1 DEF UpTo
      <4>3. h[s \ {Picked(s)}] = g[s \ {Picked(s)}]
        BY <4>2
      <4>4. h[s] = W[Picked(s)] + g[s \ {Picked(s)}]
        <5>1. CASE s \in UpTo(S, m)
          BY <2>2, <3>2, <5>1 DEF SumsBelow
        <5>2. CASE s \notin UpTo(S, m)
          BY <5>2
        <5> QED BY <5>1, <5>2
      <4> QED BY <3>2, <4>3, <4>4
    <3> QED BY <3>1, <3>2
  <2>4. SumsBelow(W, UpTo(S, m + 1), h)
    BY <2>3 DEF SumsBelow
  <2> QED BY <2>1, <2>4
<1>3. M = Nat
  <2> HIDE DEF M
  <2>1. M \in SUBSET Nat
    BY DEF M
  <2> QED BY <1>1, <1>2, <2>1, NatInductionSet
<1>4. Cardinality(S) \in Nat /\ Some(Cardinality(S))
  <2> HIDE DEF Some
  <2> QED BY <1>0, <1>3
<1>5. \A s \in SUBSET S : Cardinality(s) <= Cardinality(S)
  BY FS_Subset
<1>6. UpTo(S, Cardinality(S)) = SUBSET S
  BY <1>5 DEF UpTo
<1> QED BY <1>4, <1>6

\* ... and are determined, whatever set they are taken below.
LEMMA SumsAgree ==
  ASSUME NEW W, NEW S, IsFiniteSet(S), NEW T \in SUBSET S, NEW g, NEW h,
         SumsBelow(W, SUBSET S, g), SumsBelow(W, SUBSET T, h)
  PROVE  g[T] = h[T]
<1> DEFINE Same(m) == \A s \in SUBSET T : Cardinality(s) = m => g[s] = h[s]
           M == {m \in Nat : Same(m)}
<1>0. \A s \in SUBSET T : s \in SUBSET S /\ IsFiniteSet(s) /\ Cardinality(s) \in Nat
  BY FS_Subset, FS_CardinalityType
<1>1. 0 \in M
  <2>1. \A s \in SUBSET T : Cardinality(s) = 0 => s = {}
    BY <1>0, FS_EmptySet
  <2> QED BY <2>1 DEF SumsBelow
<1>2. ASSUME NEW m \in M PROVE m + 1 \in M
  <2>1. m \in Nat /\ Same(m)
    <3> HIDE DEF Same
    <3> QED OBVIOUS
  <2>2. ASSUME NEW s \in SUBSET T, Cardinality(s) = m + 1 PROVE g[s] = h[s]
    <3>1. s # {}
      <4>1. Cardinality(s) # 0
        BY <2>1, <2>2
      <4> QED BY <4>1, FS_EmptySet
    <3>2. s \ {Picked(s)} \in SUBSET T /\ Cardinality(s \ {Picked(s)}) = m
      BY <1>0, <2>1, <2>2, <3>1, PickedLess
    <3>3. g[s \ {Picked(s)}] = h[s \ {Picked(s)}]
      BY <2>1, <3>2
    <3>4. /\ g[s] = W[Picked(s)] + g[s \ {Picked(s)}]
          /\ h[s] = W[Picked(s)] + h[s \ {Picked(s)}]
      BY <1>0, <3>1 DEF SumsBelow
    <3> QED BY <3>3, <3>4
  <2> QED BY <2>1, <2>2
<1>3. M = Nat
  <2> HIDE DEF M
  <2>1. M \in SUBSET Nat
    BY DEF M
  <2> QED BY <1>1, <1>2, <2>1, NatInductionSet
<1>4. Same(Cardinality(T))
  <2> HIDE DEF Same
  <2> QED BY <1>0, <1>3
<1> QED BY <1>4

\* The sum of a set is that of the rest and the picked element.
LEMMA SumStep ==
  ASSUME NEW W, NEW S, IsFiniteSet(S)
  PROVE  SumOf(W, S) = IF S = {} THEN 0 ELSE W[Picked(S)] + SumOf(W, S \ {Picked(S)})
<1> DEFINE G(T) == CHOOSE g : SumsBelow(W, SUBSET T, g)
<1>1. ASSUME NEW T \in SUBSET S PROVE SumsBelow(W, SUBSET T, G(T)) /\ SumOf(W, T) = G(T)[T]
  BY FS_Subset, SumsExist, SumIsChoice
<1> HIDE DEF G
<1>2. G(S)[S] = IF S = {} THEN 0 ELSE W[Picked(S)] + G(S)[S \ {Picked(S)}]
  BY <1>1 DEF SumsBelow
<1>3. G(S)[S \ {Picked(S)}] = G(S \ {Picked(S)})[S \ {Picked(S)}]
  <2>1. PICK rest : rest = S \ {Picked(S)}
    OBVIOUS
  <2>2. rest \in SUBSET S /\ S \in SUBSET S
    BY <2>1
  <2>3. SumsBelow(W, SUBSET S, G(S)) /\ SumsBelow(W, SUBSET rest, G(rest))
    BY <1>1, <2>2
  <2>4. G(S)[rest] = G(rest)[rest]
    BY <2>2, <2>3, SumsAgree
  <2> QED BY <2>1, <2>4
<1> QED BY <1>1, <1>2, <1>3

\* The sum over no element is zero, and any element may be added last.
LEMMA SumEmpty == ASSUME NEW W PROVE SumOf(W, {}) = 0
BY SumStep, FS_EmptySet

LEMMA SumTakes ==
  ASSUME NEW D, NEW W \in [D -> Nat], NEW S \in SUBSET D, IsFiniteSet(S)
  PROVE  /\ SumOf(W, S) \in Nat
         /\ \A x \in S : SumOf(W, S) = W[x] + SumOf(W, S \ {x})
<1> DEFINE Fine(s) == /\ SumOf(W, s) \in Nat
                      /\ \A x \in s : SumOf(W, s) = W[x] + SumOf(W, s \ {x})
           Small(m) == \A s \in SUBSET S : Cardinality(s) <= m => Fine(s)
           M == {m \in Nat : Small(m)}
<1>0. \A s \in SUBSET S : IsFiniteSet(s) /\ Cardinality(s) \in Nat
  BY FS_Subset, FS_CardinalityType
<1>1. Fine({})
  BY SumEmpty
<1>2. 0 \in M
  <2>1. \A s \in SUBSET S : Cardinality(s) <= 0 => s = {}
    BY <1>0, FS_EmptySet
  <2> HIDE DEF Fine
  <2> QED BY <1>1, <2>1
<1>3. ASSUME NEW m \in M PROVE m + 1 \in M
  <2>1. m \in Nat /\ Small(m)
    <3> HIDE DEF Small
    <3> QED OBVIOUS
  <2>2. ASSUME NEW s \in SUBSET S, s # {}, Cardinality(s) <= m + 1 PROVE Fine(s)
    <3> DEFINE y == Picked(s)
    <3>1. y \in s /\ W[y] \in Nat
      BY <1>0, <2>2, PickedLess
    <3>2. ASSUME NEW z \in s PROVE s \ {z} \in SUBSET S /\ Cardinality(s \ {z}) <= m
      <4>1. Cardinality(s \ {z}) = Cardinality(s) - 1
        BY <1>0, FS_RemoveElement
      <4> QED BY <1>0, <2>1, <2>2, <4>1
    <3>3. ASSUME NEW z \in s PROVE Fine(s \ {z})
      <4> HIDE DEF Fine
      <4> QED BY <2>1, <3>2
    <3>4. SumOf(W, s) = W[y] + SumOf(W, s \ {y})
      BY <1>0, <2>2, SumStep
    <3>5. SumOf(W, s) \in Nat
      BY <3>1, <3>3, <3>4
    <3>6. ASSUME NEW x \in s, x # y PROVE SumOf(W, s) = W[x] + SumOf(W, s \ {x})
      <4> DEFINE both == (s \ {x}) \ {y}
      <4>1. x \in s \ {y} /\ y \in s \ {x} /\ (s \ {y}) \ {x} = both
        BY <3>1, <3>6
      <4>2. both \in SUBSET S /\ Cardinality(both) <= m
        <5>1. s \ {x} \in SUBSET S /\ Cardinality(s \ {x}) <= m
          BY <3>2
        <5>2. both \in SUBSET (s \ {x}) /\ both \in SUBSET S
          BY <5>1
        <5>3. Cardinality(both) <= Cardinality(s \ {x})
          BY <1>0, <5>1, <5>2, FS_Subset
        <5> QED BY <1>0, <2>1, <5>1, <5>2, <5>3
      <4>3. SumOf(W, both) \in Nat
        BY <2>1, <4>2
      <4>4. SumOf(W, s \ {y}) = W[x] + SumOf(W, both)
        BY <3>1, <3>3, <4>1
      <4>5. SumOf(W, s \ {x}) = W[y] + SumOf(W, both)
        BY <3>3, <4>1
      <4>6. W[x] \in Nat
        OBVIOUS
      <4> HIDE DEF both, y
      <4> QED BY <3>1, <3>4, <4>3, <4>4, <4>5, <4>6
    <3> QED BY <3>4, <3>5, <3>6
  <2> HIDE DEF Fine
  <2> QED BY <1>1, <2>1, <2>2
<1>4. M = Nat
  <2> HIDE DEF M
  <2>1. M \in SUBSET Nat
    BY DEF M
  <2> QED BY <1>2, <1>3, <2>1, NatInductionSet
<1>5. Small(Cardinality(S))
  <2> HIDE DEF Small
  <2> QED BY <1>0, <1>4
<1> QED BY <1>0, <1>5

\* One more element adds its value.
LEMMA SumAdds ==
  ASSUME NEW D, NEW W \in [D -> Nat], NEW S \in SUBSET D, IsFiniteSet(S),
         NEW x \in D, x \notin S
  PROVE  SumOf(W, S \cup {x}) = SumOf(W, S) + W[x]
<1>1. S \cup {x} \in SUBSET D /\ IsFiniteSet(S \cup {x}) /\ (S \cup {x}) \ {x} = S
  BY FS_AddElement
<1>2. SumOf(W, S) \in Nat /\ W[x] \in Nat
  BY SumTakes
<1>3. SumOf(W, S \cup {x}) = W[x] + SumOf(W, (S \cup {x}) \ {x})
  BY <1>1, SumTakes
<1>4. PICK rest : rest = (S \cup {x}) \ {x}
  OBVIOUS
<1>5. SumOf(W, S \cup {x}) = W[x] + SumOf(W, rest) /\ rest = S
  BY <1>1, <1>3, <1>4
<1> QED BY <1>2, <1>5

-----------------------------------------------------------------------------
(* Sequences without a set of their entries at hand.                       *)

Listing(s) == s \in Seq({s[i] : i \in DOMAIN s})

\* What a listing is.
LEMMA ListingIs ==
  ASSUME NEW S, NEW s \in Seq(S)
  PROVE  Listing(s) /\ Len(s) \in Nat /\ DOMAIN s = 1..Len(s)
<1>1. Len(s) \in Nat /\ DOMAIN s = 1..Len(s) /\ s = [i \in 1..Len(s) |-> s[i]]
  OBVIOUS
<1> DEFINE T == {s[i] : i \in DOMAIN s}
<1>2. \A i \in 1..Len(s) : s[i] \in T
  BY <1>1
<1> HIDE DEF T
<1>3. s \in Seq(T)
  BY <1>1, <1>2
<1> QED BY <1>1, <1>3 DEF Listing, T

\* A listing over a wider set of entries.
LEMMA ListingIn ==
  ASSUME NEW s, Listing(s), NEW S, \A i \in DOMAIN s : s[i] \in S
  PROVE  s \in Seq(S)
<1> DEFINE T == {s[i] : i \in DOMAIN s}
<1>1. s \in Seq(T)
  BY DEF Listing
<1>2. \A x \in T : x \in S
  OBVIOUS
<1> HIDE DEF T
<1> QED BY <1>1, <1>2

\* A function over a first part of the naturals is one.
LEMMA ListingMade ==
  ASSUME NEW n \in Nat, NEW f, DOMAIN f = 1..n, f = [i \in 1..n |-> f[i]]
  PROVE  Listing(f) /\ Len(f) = n
<1> DEFINE T == {f[i] : i \in DOMAIN f}
<1>1. \A i \in 1..n : f[i] \in T
  OBVIOUS
<1> HIDE DEF T
<1>2. f \in Seq(T) /\ Len(f) = n
  BY <1>1
<1> QED BY <1>2 DEF Listing, T

\* Appending to one.
LEMMA ListingAppend ==
  ASSUME NEW s, Listing(s), NEW e
  PROVE  /\ Listing(Append(s, e)) /\ Len(s) \in Nat /\ DOMAIN s = 1..Len(s)
         /\ Len(Append(s, e)) = Len(s) + 1
         /\ DOMAIN Append(s, e) = 1..(Len(s) + 1)
         /\ \A i \in DOMAIN s : Append(s, e)[i] = s[i]
         /\ Append(s, e)[Len(s) + 1] = e
<1> DEFINE T == {s[i] : i \in DOMAIN s} \cup {e}
<1>1. \A i \in DOMAIN s : s[i] \in T
  OBVIOUS
<1>2. e \in T
  OBVIOUS
<1> HIDE DEF T
<1>3. s \in Seq(T)
  BY <1>1, ListingIn
<1>4. Append(s, e) \in Seq(T)
  BY <1>2, <1>3
<1>5. Listing(Append(s, e))
  BY <1>4, ListingIs
<1> QED BY <1>3, <1>5
=============================================================================
