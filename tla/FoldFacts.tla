----------------------------- MODULE FoldFacts ------------------------------
(***************************************************************************)
(* What a fold over a sequence computes, for any step, and what it keeps.  *)
(* A module that needs it names its step and what the step keeps, in an    *)
(* instance of this one.                                                   *)
(***************************************************************************)
EXTENDS Integers, SequencesExt, OrderFacts

CONSTANTS
  Step(_, _, _),   \* Step(c, r, x): from r, at the entry x, in the context c
  Inv(_, _, _)     \* Inv(c, n, r): what r satisfies after n entries

Fold(c, base, s) == FoldLeft(LAMBDA r, x : Step(c, r, x), base, s)

\* t is the way from the base to the result, one entry of the sequence at a time.
Trace(c, base, s, t) ==
  /\ DOMAIN t = 0..Len(s) /\ t[0] = base
  /\ \A i \in 1..Len(s) : t[i] = Step(c, t[i - 1], s[i])

\* The greatest entry of a set of positions.
LEMMA MaxIs ==
  ASSUME NEW T, NEW m \in T, \A x \in T : x \in Nat /\ x <= m, m \in Nat
  PROVE  Max(T) = m
<1>1. Max(T) = CHOOSE x \in T : \A y \in T : x >= y
  BY DEF Max
<1>2. \E x \in T : \A y \in T : x >= y
  OBVIOUS
<1> DEFINE z == CHOOSE x \in T : \A y \in T : x >= y
<1>3. z \in T /\ \A y \in T : z >= y
  BY <1>2
<1> HIDE DEF z
<1>4. z = m
  BY <1>3
<1> QED BY <1>1, <1>4 DEF z

\* A fold has a trace.
LEMMA FoldHasTrace ==
  ASSUME NEW c, NEW base, NEW S, NEW s \in Seq(S)
  PROVE  \E t : Trace(c, base, s, t) /\ Fold(c, base, s) = t[Len(s)]
<1> DEFINE n == Len(s)
           F(D, g) == [t \in SUBSET D |-> IF t = {} THEN base
                                          ELSE Step(c, g[t \ {Max(t)}], s[Max(t)])]
           Some(m) == \E g : g = F(1..m, g)
           M == {m \in Nat : m <= n => Some(m)}
<1>1. n \in Nat /\ DOMAIN s = 1..n
  OBVIOUS
<1>2. 0 \in M
  <2> DEFINE g == [t \in SUBSET (1..0) |-> base]
  <2>1. g = F(1..0, g)
    OBVIOUS
  <2> QED BY <2>1
<1>3. ASSUME NEW m \in M PROVE m + 1 \in M
  <2> SUFFICES ASSUME m + 1 <= n PROVE Some(m + 1)
    <3> HIDE DEF Some
    <3> QED OBVIOUS
  <2>1. m \in Nat /\ Some(m)
    <3> HIDE DEF Some
    <3> QED OBVIOUS
  <2>2. PICK g : g = F(1..m, g)
    BY <2>1
  <2> DEFINE h == [t \in SUBSET (1..(m + 1)) |->
                     IF m + 1 \in t THEN Step(c, g[t \ {m + 1}], s[m + 1]) ELSE g[t]]
  <2>3. ASSUME NEW t \in SUBSET (1..(m + 1))
        PROVE  h[t] = IF t = {} THEN base ELSE Step(c, h[t \ {Max(t)}], s[Max(t)])
    <3>1. CASE m + 1 \in t
      <4>1. Max(t) = m + 1
        <5>1. m + 1 \in Nat /\ \A x \in t : x \in Nat /\ x <= m + 1
          BY <2>1
        <5> QED BY <3>1, <5>1, MaxIs
      <4>2. t \ {m + 1} \in SUBSET (1..m) /\ t \ {m + 1} \in SUBSET (1..(m + 1))
        BY <2>1
      <4>3. h[t] = Step(c, g[t \ {m + 1}], s[m + 1])
        BY <3>1
      <4>4. h[t \ {m + 1}] = g[t \ {m + 1}]
        BY <4>2
      <4> QED BY <3>1, <4>1, <4>3, <4>4
    <3>2. CASE m + 1 \notin t
      <4>1. t \in SUBSET (1..m)
        BY <2>1, <3>2
      <4>2. h[t] = g[t]
        BY <3>2
      <4>3. g[t] = IF t = {} THEN base ELSE Step(c, g[t \ {Max(t)}], s[Max(t)])
        BY <2>2, <4>1
      <4>4. /\ t \ {Max(t)} \in SUBSET (1..(m + 1))
            /\ m + 1 \notin t \ {Max(t)}
        BY <3>2
      <4>5. h[t \ {Max(t)}] = g[t \ {Max(t)}]
        BY <4>4
      <4> QED BY <4>2, <4>3, <4>5
    <3> QED BY <3>1, <3>2
  <2>4. h = F(1..(m + 1), h)
    BY <2>3
  <2> QED BY <2>4
<1>4. M = Nat
  <2> HIDE DEF M
  <2>1. M \in SUBSET Nat
    BY DEF M
  <2> QED BY <1>2, <1>3, <2>1, NatInductionSet
<1>5. PICK h : h = F(1..n, h)
  <2>1. Some(n)
    <3> HIDE DEF Some
    <3> QED BY <1>1, <1>4
  <2> QED BY <2>1
<1>6. Fold(c, base, s) = (CHOOSE g : g = F(DOMAIN s, g))[DOMAIN s]
  BY DEF Fold, FoldLeft, MapThenFoldSet
<1> DEFINE g == CHOOSE g : g = F(1..n, g)
<1>7. g = F(1..n, g)
  BY <1>5
<1>8. Fold(c, base, s) = g[1..n]
  BY <1>1, <1>6
<1> HIDE DEF g
<1> DEFINE t == [i \in 0..n |-> g[1..i]]
<1>9. t[0] = base
  BY <1>1, <1>7
<1>10. ASSUME NEW i \in 1..n PROVE t[i] = Step(c, t[i - 1], s[i])
  <2>1. Max(1..i) = i
    <3>1. i \in Nat /\ i \in 1..i /\ \A x \in 1..i : x \in Nat /\ x <= i
      BY <1>1
    <3> QED BY <3>1, MaxIs
  <2>2. 1..i \in SUBSET (1..n) /\ 1..i # {} /\ (1..i) \ {i} = 1..(i - 1)
    BY <1>1
  <2>3. g[1..i] = Step(c, g[1..(i - 1)], s[i])
    BY <1>7, <2>1, <2>2
  <2> QED BY <1>1, <2>3
<1>11. t[n] = g[1..n]
  BY <1>1
<1> QED BY <1>1, <1>8, <1>9, <1>10, <1>11 DEF Trace

\* What every step keeps, a fold keeps.
LEMMA FoldKeeps ==
  ASSUME NEW c, NEW base, NEW S, NEW s \in Seq(S), Inv(c, 0, base),
         \A i \in 1..Len(s) : \A r : Inv(c, i - 1, r) => Inv(c, i, Step(c, r, s[i]))
  PROVE  Inv(c, Len(s), Fold(c, base, s))
<1>1. PICK t : Trace(c, base, s, t) /\ Fold(c, base, s) = t[Len(s)]
  BY FoldHasTrace
<1>2. /\ t[0] = base /\ Len(s) \in Nat
      /\ \A i \in 1..Len(s) : t[i] = Step(c, t[i - 1], s[i])
  BY <1>1 DEF Trace
<1> DEFINE M == {n \in Nat : n <= Len(s) => Inv(c, n, t[n])}
<1>3. 0 \in M
  BY <1>2
<1>4. ASSUME NEW n \in M PROVE n + 1 \in M
  <2> SUFFICES ASSUME n + 1 <= Len(s) PROVE Inv(c, n + 1, t[n + 1])
    OBVIOUS
  <2>1. n + 1 \in 1..Len(s) /\ (n + 1) - 1 = n /\ Inv(c, n, t[n])
    BY <1>2
  <2>2. t[n + 1] = Step(c, t[n], s[n + 1])
    BY <1>2, <2>1
  <2> QED BY <2>1, <2>2
<1>5. M = Nat
  <2> HIDE DEF M
  <2>1. M \in SUBSET Nat
    BY DEF M
  <2> QED BY <1>3, <1>4, <2>1, NatInductionSet
<1>6. Inv(c, Len(s), t[Len(s)])
  BY <1>2, <1>5
<1> QED BY <1>1, <1>6
=============================================================================
