---------------------------- MODULE LocalProofs ----------------------------
(***************************************************************************)
(* What works without the network, except the transaction builder, for any *)
(* number of handles, open objects and fees, and any accounts, signers,    *)
(* operations and flags.                                                   *)
(*                                                                         *)
(* The Java host: a method is a nest of operators on the guest's state.    *)
(* Each is given a contract relative to the tables L it started from: it   *)
(* Leaves L as it was, it Makes one object beside L or leaves L, or it     *)
(* also names what it has Lost.  The contracts compose along the calls,    *)
(* and the invariant (Sound) is that the live handles are divided among    *)
(* the open Java objects and the lost ones.                                *)
(*                                                                         *)
(* Blocks: one is sealed only when it is valid, so what its permissions    *)
(* confer follows from the rules of validation; the argument is about the  *)
(* flags OWNER and ADMIN imply, and the walk over the flags that finds     *)
(* their group.  The tree of signers is unfolded level by level, by        *)
(* induction; every operation that can be staged reads back from its wire  *)
(* form, so a sealed block does, and its first signature ties the bytes    *)
(* that are accepted to its own (CodecInv).                                *)
(*                                                                         *)
(* Accounts: every conversion keeps the type and the canonical key of the  *)
(* account it started from (NameInv).                                      *)
(***************************************************************************)
EXTENDS Local, OrderFacts, FiniteSetTheorems

-----------------------------------------------------------------------------
(* The Java host and its core module.                                      *)

\* f lists x and the first m iterates of F on it.
Iterates(f, F, x, m) == f = [i \in 0..m |-> IF i = 0 THEN x ELSE F[f[i - 1]]]

\* The iterates of a function exist.
LEMMA IteratesExist ==
  ASSUME NEW F, NEW x, NEW m \in Nat
  PROVE  \E f : Iterates(f, F, x, m)
<1> DEFINE T == {n \in Nat : ~ \E f : f = [i \in 0..n |-> IF i = 0 THEN x ELSE F[f[i - 1]]]}
<1> SUFFICES ASSUME T # {} PROVE FALSE
  BY DEF Iterates
<1>1. PICK n \in T : \A k \in T : n <= k
  <2>1. T \in SUBSET Nat
    OBVIOUS
  <2> HIDE DEF T
  <2> QED BY <2>1, LeastNat
<1>2. n \in Nat /\ ~ \E f : f = [i \in 0..n |-> IF i = 0 THEN x ELSE F[f[i - 1]]]
  OBVIOUS
<1>3. n # 0
  <2> SUFFICES ASSUME n = 0 PROVE FALSE
    OBVIOUS
  <2> DEFINE g == [i \in 0..n |-> x]
  <2>1. g = [i \in 0..n |-> IF i = 0 THEN x ELSE F[g[i - 1]]]
    OBVIOUS
  <2> QED BY <1>2, <2>1
<1>4. n - 1 \in Nat /\ n - 1 \notin T
  <2> HIDE DEF T
  <2>1. n - 1 \in Nat /\ ~(n <= n - 1)
    BY <1>2, <1>3
  <2> QED BY <1>1, <2>1
<1>5. PICK f : f = [i \in 0..(n - 1) |-> IF i = 0 THEN x ELSE F[f[i - 1]]]
  BY <1>4
<1> HIDE DEF T
<1> DEFINE g == [i \in 0..n |-> IF i = n THEN F[f[n - 1]] ELSE f[i]]
<1>6. \A i \in 0..n : g[i] = IF i = 0 THEN x ELSE F[g[i - 1]]
  <2> SUFFICES ASSUME NEW i \in 0..n PROVE g[i] = IF i = 0 THEN x ELSE F[g[i - 1]]
    OBVIOUS
  <2>1. CASE i = 0
    <3>1. i \in 0..(n - 1) /\ i # n
      BY <1>2, <1>3, <2>1
    <3>2. g[i] = f[i]
      BY <3>1
    <3> HIDE DEF g
    <3>3. f[i] = x
      BY <1>5, <2>1, <3>1
    <3> QED BY <2>1, <3>2, <3>3
  <2>2. CASE i # 0
    <3>1. i - 1 \in 0..(n - 1) /\ i - 1 \in 0..n /\ i - 1 # n
      BY <1>2, <2>2
    <3>2. g[i - 1] = f[i - 1]
      BY <3>1
    <3>3. CASE i = n
      BY <2>2, <3>2, <3>3
    <3>4. CASE i # n
      <4>1. g[i] = f[i] /\ i \in 0..(n - 1)
        BY <1>2, <3>4
      <4> HIDE DEF g
      <4>2. f[i] = F[f[i - 1]]
        BY <1>5, <2>2, <4>1
      <4> QED BY <2>2, <3>2, <4>1, <4>2
    <3> QED BY <3>3, <3>4
  <2> QED BY <2>1, <2>2
<1>7. g = [i \in 0..n |-> IF i = 0 THEN x ELSE F[g[i - 1]]]
  <2>1. g = [i \in 0..n |-> g[i]]
    OBVIOUS
  <2> HIDE DEF g
  <2> QED BY <1>6, <2>1
<1> QED BY <1>2, <1>7

\* What holds at first and is handed on from each to the next holds of all.
LEMMA IteratesStay ==
  ASSUME NEW m \in Nat, NEW f, NEW D,
         f[0] \in D[0], \A i \in 1..m : f[i - 1] \in D[i - 1] => f[i] \in D[i]
  PROVE  \A i \in 0..m : f[i] \in D[i]
<1> DEFINE T == {i \in 0..m : f[i] \notin D[i]}
<1> SUFFICES ASSUME T # {} PROVE FALSE
  OBVIOUS
<1>1. PICK n \in T : \A k \in T : n <= k
  <2>1. T \in SUBSET Nat
    OBVIOUS
  <2> HIDE DEF T
  <2> QED BY <2>1, LeastNat
<1>2. n \in 1..m
  OBVIOUS
<1>3. n - 1 \in 0..m /\ n - 1 \notin T
  BY <1>1, <1>2
<1> QED BY <1>2, <1>3

-----------------------------------------------------------------------------
Lives == [Kinds -> SUBSET Handles]
Guests == [next : [Kinds -> 0..MaxHandle], live : Lives, error : {"none", "earlier", "now"}]

Free(L, k) == L[k] # Handles
Plus(L, k, h) == [L EXCEPT ![k] = @ \cup {h}]
Minus(L, k, h) == [L EXCEPT ![k] = @ \ {h}]

\* Releasing what was just stored leaves the table as it was.
LEMMA PlusMinus ==
  ASSUME NEW L \in Lives, NEW k \in Kinds, NEW h, h \notin L[k]
  PROVE  Minus(Plus(L, k, h), k, h) = L
  BY DEF Lives, Plus, Minus

\* Releasing a handle changes the one table and no error.
LEMMA RemoveFacts ==
  ASSUME NEW g \in Guests, NEW k \in Kinds, NEW h
  PROVE  /\ Remove(g, k, h) \in Guests
         /\ Remove(g, k, h).live = Minus(g.live, k, h)
         /\ Remove(g, k, h).error = g.error
  BY DEF Remove, Guests, Lives, Minus

\* A table that is not full has a next handle, and it is free.
LEMMA NextFree ==
  ASSUME NEW next \in 0..MaxHandle, NEW live \in SUBSET Handles, live # Handles
  PROVE  NextHandle(next, live) \in Handles \ live
<1> DEFINE S == {Distance(next, h) : h \in Handles \ live}
<1>1. \A h \in Handles : Distance(next, h) \in Nat
  BY MaxHandleAssumption DEF Distance, Handles
<1>2. S \in SUBSET Nat /\ S # {}
  BY <1>1
<1>3. PICK d \in S : \A e \in S : d <= e
  <2> HIDE DEF S
  <2> QED BY <1>2, LeastNat
<1>4. PICK h \in Handles \ live : Distance(next, h) = d
  OBVIOUS
<1>5. \A other \in Handles \ live : Distance(next, h) <= Distance(next, other)
  BY <1>3, <1>4
<1> QED BY <1>4, <1>5 DEF NextHandle

\* Storing in a table that is not full gives a handle that was free.
LEMMA PutFacts ==
  ASSUME NEW g \in Guests, NEW k \in Kinds, Free(g.live, k)
  PROVE  /\ Put(g, k) \in [g : Guests, h : Handles]
         /\ Put(g, k).h \notin g.live[k]
         /\ Put(g, k).g.live = Plus(g.live, k, Put(g, k).h)
         /\ Put(g, k).g.error = g.error
<1> DEFINE h == NextHandle(g.next[k], g.live[k])
<1>1. h \in Handles \ g.live[k]
  BY NextFree DEF Guests, Lives, Free
<1>2. h \in 0..MaxHandle
  BY <1>1, MaxHandleAssumption DEF Handles
<1>3. Put(g, k) = [g |-> [g EXCEPT !.next[k] = h, !.live[k] = @ \cup {h}], h |-> h]
  BY DEF Put
<1> HIDE DEF h
<1> DEFINE p == [g EXCEPT !.next[k] = h, !.live[k] = @ \cup {h}]
<1>4. p.live = Plus(g.live, k, h) /\ p.error = g.error /\ p.next = [g.next EXCEPT ![k] = h]
  BY DEF Guests, Plus
<1>5. Plus(g.live, k, h) \in Lives /\ [g.next EXCEPT ![k] = h] \in [Kinds -> 0..MaxHandle]
  BY <1>1, <1>2 DEF Guests, Lives, Plus
<1>6. DOMAIN p = DOMAIN g /\ p = [f \in DOMAIN p |-> p[f]]
  BY DEF Guests
<1>7. p \in Guests
  <2>1. DOMAIN g = {"next", "live", "error"} /\ g.error \in {"none", "earlier", "now"}
    BY DEF Guests
  <2> HIDE DEF p
  <2>2. p = [next |-> p.next, live |-> p.live, error |-> p.error]
    BY <1>6, <2>1
  <2> QED BY <1>4, <1>5, <2>1, <2>2 DEF Guests
<1>8. Put(g, k) = [g |-> p, h |-> h]
  BY <1>3
<1> HIDE DEF p
<1> QED BY <1>1, <1>4, <1>7, <1>8

\* Bytes that are stored and released leave nothing behind.
LEMMA PassedFacts ==
  ASSUME NEW g \in Guests, NEW k \in Kinds, Free(g.live, k), NEW n \in Nat
  PROVE  /\ Passed(g, k, n) \in Guests
         /\ Passed(g, k, n).live = g.live
         /\ Passed(g, k, n).error = g.error
<1> DEFINE D == {q \in Guests : q.live = g.live /\ q.error = g.error}
           After(f) == f = [i \in 0..n |->
                              IF i = 0 THEN g
                              ELSE LET r == Put(f[i - 1], k) IN Remove(r.g, k, r.h)]
           F == [q \in D |-> Remove(Put(q, k).g, k, Put(q, k).h)]
           DD == [i \in 0..n |-> D]
<1>1. Passed(g, k, n) = (CHOOSE f : After(f))[n]
  BY DEF Passed
<1>2. ASSUME NEW q \in D PROVE Remove(Put(q, k).g, k, Put(q, k).h) \in D
  <2> DEFINE r == Put(q, k)
  <2>1. q \in Guests /\ q.live = g.live /\ q.error = g.error /\ Free(q.live, k)
    OBVIOUS
  <2>2. r.g \in Guests /\ r.h \notin g.live[k] /\ r.g.live = Plus(g.live, k, r.h)
        /\ r.g.error = g.error
    BY <2>1, PutFacts
  <2> HIDE DEF r
  <2>3. Minus(Plus(g.live, k, r.h), k, r.h) = g.live
    BY <2>2, PlusMinus DEF Guests
  <2>4. /\ Remove(r.g, k, r.h) \in Guests /\ Remove(r.g, k, r.h).live = g.live
        /\ Remove(r.g, k, r.h).error = g.error
    BY <2>2, <2>3, RemoveFacts
  <2> QED BY <2>4 DEF r
<1>3. \E f : After(f)
  <2>1. PICK f : f = [i \in 0..n |-> IF i = 0 THEN g ELSE F[f[i - 1]]]
    <3> HIDE DEF F
    <3>1. PICK f : Iterates(f, F, g, n)
      BY IteratesExist
    <3> QED BY <3>1 DEF Iterates
  <2>2. \A i \in 0..n : f[i] \in DD[i]
    <3>1. f[0] \in DD[0]
      BY <2>1
    <3>2. ASSUME NEW i \in 1..n, f[i - 1] \in DD[i - 1] PROVE f[i] \in DD[i]
      <4>1. i \in 0..n /\ i - 1 \in 0..n /\ i # 0
        OBVIOUS
      <4>2. f[i] = F[f[i - 1]] /\ f[i - 1] \in D
        BY <2>1, <3>2, <4>1
      <4>3. F[f[i - 1]] \in D
        <5> HIDE DEF D
        <5> QED BY <1>2, <4>2
      <4> QED BY <4>1, <4>2, <4>3
    <3> HIDE DEF DD
    <3> QED BY <3>1, <3>2, IteratesStay
  <2>3. \A i \in 0..n : i # 0 => F[f[i - 1]] = Remove(Put(f[i - 1], k).g, k, Put(f[i - 1], k).h)
    <3> SUFFICES ASSUME NEW i \in 0..n, i # 0
                 PROVE F[f[i - 1]] = Remove(Put(f[i - 1], k).g, k, Put(f[i - 1], k).h)
      OBVIOUS
    <3>1. i - 1 \in 0..n
      OBVIOUS
    <3>2. f[i - 1] \in D
      BY <2>2, <3>1
    <3> HIDE DEF D
    <3> QED BY <3>2
  <2>4. f = [i \in 0..n |-> IF i = 0 THEN g ELSE Remove(Put(f[i - 1], k).g, k, Put(f[i - 1], k).h)]
    <3> HIDE DEF F, D
    <3> QED BY <2>1, <2>3
  <2> QED BY <2>4
<1>4. PICK f : After(f) /\ Passed(g, k, n) = f[n]
  <2> HIDE DEF After
  <2> QED BY <1>1, <1>3
<1>5. \A i \in 0..n : f[i] \in DD[i]
  <2>1. f[0] \in DD[0]
    BY <1>4
  <2>2. ASSUME NEW i \in 1..n, f[i - 1] \in DD[i - 1] PROVE f[i] \in DD[i]
    <3>1. i \in 0..n /\ i - 1 \in 0..n /\ i # 0
      OBVIOUS
    <3>2. f[i] = Remove(Put(f[i - 1], k).g, k, Put(f[i - 1], k).h) /\ f[i - 1] \in D
      BY <1>4, <2>2, <3>1
    <3> HIDE DEF D
    <3> QED BY <1>2, <3>1, <3>2
  <2> HIDE DEF DD
  <2> QED BY <2>1, <2>2, IteratesStay
<1>6. f[n] \in D
  BY <1>5
<1> QED BY <1>4, <1>6

-----------------------------------------------------------------------------
(* Results: what an operator leaves live, relative to what was live before.*)

Exceptions == {"no", "guest", "node", "host"}
Result(r) ==
  /\ {"g", "h", "ex"} \subseteq DOMAIN r
  /\ r.g \in Guests /\ r.h \in 0..MaxHandle /\ r.ex \in Exceptions

\* b holds a new object of kind k beside those of L.
Holds(L, k, b) ==
  b.g \in Guests /\ b.h \in Handles /\ b.h \notin L[k] /\ b.g.live = Plus(L, k, b.h)

\* A coded error was recorded.
Coded(r) == r.ex = "guest" => r.g.error = "now"

\* Nothing is left behind, or nothing but the object that is returned.
Leaves(L, r) == Result(r) /\ r.g.live = L /\ Coded(r)
Makes(L, k, r) ==
  /\ Result(r) /\ Coded(r)
  /\ r.ex = "no" => Holds(L, k, r)
  /\ r.ex # "no" => r.g.live = L

\* The same, in the form the results below use.
LEMMA PutHolds ==
  ASSUME NEW g \in Guests, NEW k \in Kinds, Free(g.live, k)
  PROVE  Holds(g.live, k, Put(g, k)) /\ Put(g, k).g.error = g.error
<1>1. /\ Put(g, k) \in [g : Guests, h : Handles] /\ Put(g, k).h \notin g.live[k]
      /\ Put(g, k).g.live = Plus(g.live, k, Put(g, k).h) /\ Put(g, k).g.error = g.error
  BY PutFacts
<1> QED BY <1>1 DEF Holds

\* Releasing what is held beside L leaves L.
LEMMA Dropped ==
  ASSUME NEW L \in Lives, NEW k \in Kinds, NEW b, Holds(L, k, b)
  PROVE  /\ Remove(b.g, k, b.h) \in Guests /\ Remove(b.g, k, b.h).live = L
         /\ Remove(b.g, k, b.h).error = b.g.error
<1>1. b.g \in Guests /\ b.h \notin L[k] /\ b.g.live = Plus(L, k, b.h)
  BY DEF Holds
<1> QED BY <1>1, RemoveFacts, PlusMinus

\* What is held is live, and nothing of another kind is.
LEMMA HoldsLive ==
  ASSUME NEW L \in Lives, NEW k \in Kinds, NEW b, Holds(L, k, b)
  PROVE  /\ b.h \in b.g.live[k] /\ b.g.live \in Lives
         /\ \A j \in Kinds : j # k => b.g.live[j] = L[j]
  BY DEF Holds, Lives, Plus, Guests

\* A failed call records its error and touches no table.
LEMMA FailFacts ==
  ASSUME NEW g \in Guests
  PROVE  Fail(g).g \in Guests /\ Fail(g).h = 0 /\ Fail(g).g.live = g.live /\ Fail(g).g.error = "now"
  BY DEF Fail, Guests

\* A function that makes an object returns it, or the null handle and an error.
LEMMA MakeMakes ==
  ASSUME NEW g \in Guests, NEW k \in Kinds, Free(g.live, k), NEW ok
  PROVE  Makes(g.live, k, Checked(Make(g, k, ok)))
<1>1. CASE ok
  <2>1. Make(g, k, ok) = Put(g, k)
    BY <1>1 DEF Make
  <2>2. Holds(g.live, k, Put(g, k))
    BY PutHolds
  <2>3. Put(g, k).h # 0 /\ Put(g, k).h \in 0..MaxHandle
    BY <2>2, MaxHandleAssumption DEF Holds, Handles
  <2>4. Checked(Put(g, k)) = [g |-> Put(g, k).g, h |-> Put(g, k).h, ex |-> "no"]
    BY <2>3 DEF Checked
  <2> QED BY <2>1, <2>2, <2>3, <2>4 DEF Makes, Result, Holds, Coded, Exceptions
<1>2. CASE ~ok
  <2>1. Checked(Make(g, k, ok)) = [g |-> Fail(g).g, h |-> 0, ex |-> "guest"]
    BY <1>2, FailFacts DEF Make, Checked
  <2> QED BY <2>1, FailFacts, MaxHandleAssumption DEF Makes, Result, Coded, Exceptions
<1> QED BY <1>1, <1>2

\* The same when its arguments are handles, whether they are live or not.
LEMMA MakeFromMakes ==
  ASSUME NEW g \in Guests, NEW k \in Kinds, Free(g.live, k), NEW ok, NEW args
  PROVE  Makes(g.live, k, Checked(MakeFrom(g, args, k, ok)))
<1>1. CASE MakeFrom(g, args, k, ok) = Make(g, k, ok)
  BY <1>1, MakeMakes
<1>2. CASE MakeFrom(g, args, k, ok) = Make(g, k, FALSE)
  BY <1>2, MakeMakes
<1> QED BY <1>1, <1>2 DEF MakeFrom, Make

\* Closing an object on the way out keeps the result and its exception.
LEMMA ClosingFacts ==
  ASSUME NEW r, Result(r), NEW k \in Kinds, NEW h
  PROVE  /\ Result(Closing(r, k, h)) /\ Closing(r, k, h).g = Remove(r.g, k, h)
         /\ Closing(r, k, h).h = r.h /\ Closing(r, k, h).ex = r.ex
         /\ DOMAIN Closing(r, k, h) = DOMAIN r
         /\ "lost" \in DOMAIN r => Closing(r, k, h).lost = r.lost
         /\ Coded(r) => Coded(Closing(r, k, h))
<1>1. Remove(r.g, k, h) \in Guests /\ Remove(r.g, k, h).error = r.g.error
  BY RemoveFacts DEF Result
<1> QED BY <1>1 DEF Closing, Result, Coded

\* Bytes that are read are released; a failed read has none to release.
LEMMA TakeBytesLeaves ==
  ASSUME NEW L \in Lives, NEW r, Makes(L, "bytes", r)
  PROVE  Leaves(L, TakeBytes(r)) /\ DOMAIN TakeBytes(r) = DOMAIN r
<1>1. Result(r) /\ Coded(r) /\ "bytes" \in Kinds
  BY DEF Makes, Kinds
<1>2. CASE r.ex = "no"
  <2>1. Holds(L, "bytes", r)
    BY <1>2 DEF Makes
  <2>2. TakeBytes(r) = Closing(r, "bytes", r.h)
    BY <1>2 DEF TakeBytes, Closing
  <2> QED BY <1>1, <2>1, <2>2, ClosingFacts, Dropped DEF Leaves
<1>3. CASE r.ex # "no"
  BY <1>3 DEF TakeBytes, Makes, Leaves
<1> QED BY <1>2, <1>3

\* The two parts of an error are released once they are read.
LEMMA LastErrorFacts ==
  ASSUME NEW r, Result(r), r.g.live["bytes"] = {}
  PROVE  /\ Result(LastError(r)) /\ LastError(r).h = r.h /\ LastError(r).ex = r.ex
         /\ LastError(r).g.live = r.g.live /\ LastError(r).g.error = r.g.error
<1>0. CASE r.ex # "guest"
  BY <1>0 DEF LastError
<1>1. CASE r.ex = "guest"
  <2> DEFINE code == Put(r.g, "bytes")
             message == Put(code.g, "bytes")
             first == Remove(message.g, "bytes", code.h)
             last == Remove(first, "bytes", message.h)
  <2>0. "bytes" \in Kinds /\ r.g \in Guests /\ r.g.live \in Lives
    BY DEF Result, Guests, Kinds
  <2>1. Free(r.g.live, "bytes") /\ \A h : {h} # Handles
    <3>1. 1 \in Handles /\ 2 \in Handles
      BY MaxHandleAssumption DEF Handles
    <3> QED BY <3>1 DEF Free
  <2>2. Holds(r.g.live, "bytes", code) /\ code.g.error = r.g.error
    BY <2>0, <2>1, PutHolds
  <2> HIDE DEF code
  <2>3. code.g \in Guests /\ code.g.live["bytes"] = {code.h}
    BY <2>0, <2>2 DEF Holds, Plus, Lives
  <2>4. Holds(code.g.live, "bytes", message) /\ message.g.error = code.g.error
    BY <2>0, <2>1, <2>3, PutHolds DEF Free
  <2> HIDE DEF message
  <2>5. first \in Guests /\ first.live = Minus(message.g.live, "bytes", code.h)
        /\ first.error = message.g.error
    BY <2>0, <2>4, RemoveFacts DEF Holds
  <2> HIDE DEF first
  <2>6. last \in Guests /\ last.live = Minus(first.live, "bytes", message.h)
        /\ last.error = first.error
    BY <2>0, <2>5, RemoveFacts
  <2>7. last.live = r.g.live
    <3>1. message.g.live = Plus(Plus(r.g.live, "bytes", code.h), "bytes", message.h)
      BY <2>2, <2>4 DEF Holds
    <3>2. PICK L \in Lives : L = r.g.live
      BY <2>0
    <3>3. PICK c, m : c = code.h /\ m = message.h
      OBVIOUS
    <3>4. L["bytes"] = {}
      BY <3>2
    <3>5. Minus(Minus(Plus(Plus(L, "bytes", c), "bytes", m), "bytes", c), "bytes", m) = L
      BY <2>0, <3>4 DEF Plus, Minus, Lives
    <3> QED BY <2>5, <2>6, <3>1, <3>2, <3>3, <3>5
  <2>8. LastError(r) = [r EXCEPT !.g = last]
    BY <1>1 DEF LastError, last, first, message, code
  <2> HIDE DEF last
  <2> QED BY <2>2, <2>4, <2>5, <2>6, <2>7, <2>8 DEF Result
<1> QED BY <1>0, <1>1

-----------------------------------------------------------------------------
(* A builder from its first setter to the signed block.                    *)

Boxes == [g : Guests, h : Handles]

\* Storing changes one table only.
LEMMA PlusFacts ==
  ASSUME NEW L \in Lives, NEW k \in Kinds, NEW h \in Handles
  PROVE  /\ Plus(L, k, h) \in Lives
         /\ \A j \in Kinds : j # k => Plus(L, k, h)[j] = L[j]
  BY DEF Lives, Plus

\* Closing what is open no more changes nothing.
LEMMA MinusNone ==
  ASSUME NEW L \in Lives, NEW k \in Kinds, NEW h, h \notin L[k]
  PROVE  Minus(L, k, h) = L
  BY DEF Lives, Minus

\* Closing one object beside another that was made.
LEMMA PlusMinusOther ==
  ASSUME NEW L \in Lives, NEW k \in Kinds, NEW j \in Kinds, j # k, NEW h, NEW i, i \notin L[j]
  PROVE  Minus(Plus(Plus(L, j, i), k, h), j, i) = Plus(L, k, h)
  BY DEF Lives, Plus, Minus

\* A setter consumes the builder and makes another, or none.
LEMMA ReboxMakes ==
  ASSUME NEW L \in Lives, NEW b, Holds(L, "builder", b), Free(L, "builder"), NEW args, NEW ok
  PROVE  Makes(L, "builder", Checked(Rebox(b.g, b.h, args, ok)))
<1> DEFINE g == Remove(b.g, "builder", b.h)
<1>0. "builder" \in Kinds
  BY DEF Kinds
<1>1. g \in Guests /\ g.live = L
  BY <1>0, Dropped
<1>2. Rebox(b.g, b.h, args, ok) = MakeFrom(g, args, "builder", ok)
  BY <1>0, HoldsLive DEF Rebox, Known
<1> HIDE DEF g
<1> QED BY <1>0, <1>1, <1>2, MakeFromMakes

\* A setter that is not refused makes another builder.
LEMMA ReboxHolds ==
  ASSUME NEW L \in Lives, NEW b, Holds(L, "builder", b), Free(L, "builder")
  PROVE  /\ Rebox(b.g, b.h, {}, TRUE) \in Boxes
         /\ Holds(L, "builder", Rebox(b.g, b.h, {}, TRUE))
         /\ Rebox(b.g, b.h, {}, TRUE).g.error = b.g.error
<1> DEFINE g == Remove(b.g, "builder", b.h)
<1>0. "builder" \in Kinds
  BY DEF Kinds
<1>1. g \in Guests /\ g.live = L /\ g.error = b.g.error
  BY <1>0, Dropped
<1>2. Rebox(b.g, b.h, {}, TRUE) = Put(g, "builder")
  BY <1>0, HoldsLive DEF Rebox, Known, MakeFrom, Make
<1> HIDE DEF g
<1> QED BY <1>0, <1>1, <1>2, PutHolds, PutFacts DEF Boxes

\* Any number of such setters leave one builder.
LEMMA SteppedHolds ==
  ASSUME NEW L \in Lives, NEW b \in Boxes, Holds(L, "builder", b), Free(L, "builder"), NEW n \in Nat
  PROVE  /\ Stepped(b, n) \in Boxes
         /\ Holds(L, "builder", Stepped(b, n))
         /\ Stepped(b, n).g.error = b.g.error
<1> DEFINE D == {q \in Boxes : Holds(L, "builder", q) /\ q.g.error = b.g.error}
           After(f) == f = [i \in 0..n |->
                              IF i = 0 THEN b ELSE Rebox(f[i - 1].g, f[i - 1].h, {}, TRUE)]
           F == [q \in D |-> Rebox(q.g, q.h, {}, TRUE)]
           DD == [i \in 0..n |-> D]
<1>1. Stepped(b, n) = (CHOOSE f : After(f))[n]
  BY DEF Stepped
<1>2. ASSUME NEW q \in D PROVE Rebox(q.g, q.h, {}, TRUE) \in D
  BY ReboxHolds
<1>3. \E f : After(f)
  <2>1. PICK f : f = [i \in 0..n |-> IF i = 0 THEN b ELSE F[f[i - 1]]]
    <3> HIDE DEF F
    <3>1. PICK f : Iterates(f, F, b, n)
      BY IteratesExist
    <3> QED BY <3>1 DEF Iterates
  <2>2. \A i \in 0..n : f[i] \in DD[i]
    <3>1. f[0] \in DD[0]
      BY <2>1
    <3>2. ASSUME NEW i \in 1..n, f[i - 1] \in DD[i - 1] PROVE f[i] \in DD[i]
      <4>1. i \in 0..n /\ i - 1 \in 0..n /\ i # 0
        OBVIOUS
      <4>2. f[i] = F[f[i - 1]] /\ f[i - 1] \in D
        BY <2>1, <3>2, <4>1
      <4>3. F[f[i - 1]] \in D
        <5> HIDE DEF D
        <5> QED BY <1>2, <4>2
      <4> QED BY <4>1, <4>2, <4>3
    <3> HIDE DEF DD
    <3> QED BY <3>1, <3>2, IteratesStay
  <2>3. \A i \in 0..n : i # 0 => F[f[i - 1]] = Rebox(f[i - 1].g, f[i - 1].h, {}, TRUE)
    <3> SUFFICES ASSUME NEW i \in 0..n, i # 0
                 PROVE F[f[i - 1]] = Rebox(f[i - 1].g, f[i - 1].h, {}, TRUE)
      OBVIOUS
    <3>1. i - 1 \in 0..n
      OBVIOUS
    <3>2. f[i - 1] \in D
      BY <2>2, <3>1
    <3> HIDE DEF D
    <3> QED BY <3>2
  <2>4. f = [i \in 0..n |-> IF i = 0 THEN b ELSE Rebox(f[i - 1].g, f[i - 1].h, {}, TRUE)]
    <3> HIDE DEF F, D
    <3> QED BY <2>1, <2>3
  <2> QED BY <2>4
<1>4. PICK f : After(f) /\ Stepped(b, n) = f[n]
  <2> HIDE DEF After
  <2> QED BY <1>1, <1>3
<1>5. \A i \in 0..n : f[i] \in DD[i]
  <2>1. f[0] \in DD[0]
    BY <1>4
  <2>2. ASSUME NEW i \in 1..n, f[i - 1] \in DD[i - 1] PROVE f[i] \in DD[i]
    <3>1. i \in 0..n /\ i - 1 \in 0..n /\ i # 0
      OBVIOUS
    <3>2. f[i] = Rebox(f[i - 1].g, f[i - 1].h, {}, TRUE) /\ f[i - 1] \in D
      BY <1>4, <2>2, <3>1
    <3> HIDE DEF D
    <3> QED BY <1>2, <3>1, <3>2
  <2> HIDE DEF DD
  <2> QED BY <2>1, <2>2, IteratesStay
<1>6. f[n] \in D
  BY <1>5
<1> QED BY <1>4, <1>6

\* build and sign consume their argument and make their result, or neither.
LEMMA ConvertMakes ==
  ASSUME NEW L \in Lives, NEW from \in Kinds, NEW to \in Kinds, NEW b, Holds(L, from, b),
         Free(L, to), NEW ok
  PROVE  Makes(L, to, Checked(Convert(b.g, from, b.h, to, ok)))
<1> DEFINE g == Remove(b.g, from, b.h)
<1>1. g \in Guests /\ g.live = L
  BY Dropped
<1>2. Convert(b.g, from, b.h, to, ok) = Make(g, to, ok)
  BY HoldsLive DEF Convert, Known
<1> HIDE DEF g
<1> QED BY <1>1, <1>2, MakeMakes

\* Closing what is open no more beside what was made.
LEMMA ClosingGone ==
  ASSUME NEW L \in Lives, NEW k \in Kinds, NEW j \in Kinds, j # k, NEW r, Makes(L, k, r),
         NEW h, h \notin L[j]
  PROVE  Makes(L, k, Closing(r, j, h)) /\ DOMAIN Closing(r, j, h) = DOMAIN r
<1> DEFINE c == Closing(r, j, h)
<1>1. /\ Result(r) /\ Coded(r) /\ Result(c) /\ Coded(c) /\ c.g = Remove(r.g, j, h)
      /\ c.h = r.h /\ c.ex = r.ex /\ DOMAIN c = DOMAIN r
  BY ClosingFacts DEF Makes
<1>2. c.g.live = Minus(r.g.live, j, h) /\ c.g \in Guests
  BY <1>1, RemoveFacts DEF Result
<1> HIDE DEF c
<1>3. CASE r.ex = "no"
  <2>1. Holds(L, k, r) /\ r.g.live = Plus(L, k, r.h) /\ r.g.live \in Lives /\ r.g.live[j] = L[j]
    BY <1>3, HoldsLive DEF Makes, Holds
  <2>2. c.g.live = r.g.live
    BY <1>2, <2>1, MinusNone
  <2>3. Holds(L, k, c)
    BY <1>1, <1>2, <2>1, <2>2 DEF Holds
  <2> QED BY <1>1, <1>3, <2>3 DEF Makes, c
<1>4. CASE r.ex # "no"
  <2>1. c.g.live = L
    BY <1>2, <1>4, MinusNone DEF Makes
  <2> QED BY <1>1, <1>4, <2>1 DEF Makes, c
<1> QED BY <1>3, <1>4

\* Closing an object that was open while the other was made.
LEMMA ClosingOpen ==
  ASSUME NEW L \in Lives, NEW k \in Kinds, NEW j \in Kinds, j # k,
         NEW h \in Handles, h \notin L[j], NEW r, Makes(Plus(L, j, h), k, r)
  PROVE  Makes(L, k, Closing(r, j, h)) /\ DOMAIN Closing(r, j, h) = DOMAIN r
<1> DEFINE c == Closing(r, j, h)
<1>1. /\ Result(r) /\ Coded(r) /\ Result(c) /\ Coded(c) /\ c.g = Remove(r.g, j, h)
      /\ c.h = r.h /\ c.ex = r.ex /\ DOMAIN c = DOMAIN r
  BY ClosingFacts DEF Makes
<1>2. c.g.live = Minus(r.g.live, j, h) /\ c.g \in Guests
  BY <1>1, RemoveFacts DEF Result
<1> HIDE DEF c
<1>3. CASE r.ex = "no"
  <2>1. Holds(Plus(L, j, h), k, r) /\ Plus(L, j, h)[k] = L[k]
    BY <1>3, PlusFacts DEF Makes
  <2>2. r.h \in Handles /\ r.h \notin L[k] /\ r.g.live = Plus(Plus(L, j, h), k, r.h)
    BY <2>1 DEF Holds
  <2>3. c.g.live = Plus(L, k, r.h)
    BY <1>2, <2>2, PlusMinusOther
  <2>4. Holds(L, k, c)
    BY <1>1, <1>2, <2>2, <2>3 DEF Holds
  <2> QED BY <1>1, <1>3, <2>4 DEF Makes, c
<1>4. CASE r.ex # "no"
  <2>1. r.g.live = Plus(L, j, h)
    BY <1>4 DEF Makes
  <2>2. c.g.live = L
    BY <1>2, <2>1, PlusMinus
  <2> QED BY <1>1, <1>4, <2>2 DEF Makes, c
<1> QED BY <1>3, <1>4

\* build() and sign() make a block of the builder, or leave nothing.
LEMMA BuiltMakes ==
  ASSUME NEW L \in Lives, NEW b, Holds(L, "builder", b), Free(L, "unsigned"), Free(L, "block"),
         NEW buildOk, NEW signOk
  PROVE  Makes(L, "block", BuiltAndSigned(b, buildOk, signOk))
<1> DEFINE built == Checked(Convert(b.g, "builder", b.h, "unsigned", buildOk))
           sealing == Checked(Convert(built.g, "unsigned", built.h, "block", signOk))
<1>0. {"builder", "unsigned", "block"} \subseteq Kinds
  BY DEF Kinds
<1>1. Makes(L, "unsigned", built)
  BY <1>0, ConvertMakes
<1>2. BuiltAndSigned(b, buildOk, signOk) =
        IF built.ex # "no" THEN built ELSE Closing(sealing, "unsigned", built.h)
  BY DEF BuiltAndSigned, Signed
<1> HIDE DEF built
<1>3. CASE built.ex # "no"
  BY <1>1, <1>2, <1>3 DEF Makes
<1>4. CASE built.ex = "no"
  <2>1. Holds(L, "unsigned", built)
    BY <1>1, <1>4 DEF Makes
  <2>2. Makes(L, "block", sealing)
    BY <1>0, <2>1, ConvertMakes
  <2> HIDE DEF sealing
  <2> QED BY <1>0, <1>2, <1>4, <2>1, <2>2, ClosingGone DEF Holds
<1> QED BY <1>3, <1>4

-----------------------------------------------------------------------------
(* Results that name the operations and builders whose references were     *)
(* dropped.                                                                *)

Drops == {D \in Lives : \A k \in Kinds : k \notin {"builder", "operation"} => D[k] = {}}
Also(L, D) == [k \in Kinds |-> L[k] \cup D[k]]
Apart(L, D) == \A k \in Kinds : D[k] \cap L[k] = {}

\* The operations hs beside those of L.
Lost(L, hs) == [L EXCEPT !["operation"] = @ \cup hs]

Losses(L, r) ==
  /\ Result(r) /\ Coded(r)
  /\ "lost" \in DOMAIN r /\ r.lost \in Drops /\ Apart(L, r.lost)

\* Nothing is left behind but what was lost.
LeavesLost(L, r) == Losses(L, r) /\ r.g.live = Also(L, r.lost)

\* The same, or the object that is returned and nothing else.
MakesOrLoses(L, k, r) ==
  /\ Losses(L, r)
  /\ r.ex = "no" => r.lost = NoneLost /\ Holds(L, k, r)
  /\ r.ex # "no" => r.g.live = Also(L, r.lost)

\* What is lost stays live, and nothing of another kind is touched.
LEMMA AlsoFacts ==
  ASSUME NEW L \in Lives, NEW D \in Drops
  PROVE  /\ Also(L, D) \in Lives /\ D \in Lives
         /\ \A k \in Kinds : Also(L, D)[k] = L[k] \cup D[k]
         /\ \A k \in Kinds : k \notin {"builder", "operation"} => Also(L, D)[k] = L[k]
<1>1. D \in Lives /\ \A k \in Kinds : k \notin {"builder", "operation"} => D[k] = {}
  BY DEF Drops
<1> QED BY <1>1 DEF Also, Lives

\* Losing nothing loses nothing.
LEMMA AlsoNone ==
  ASSUME NEW L \in Lives
  PROVE  NoneLost \in Drops /\ Apart(L, NoneLost) /\ Also(L, NoneLost) = L
<1>1. NoneLost \in Lives /\ \A k \in Kinds : NoneLost[k] = {}
  BY DEF NoneLost, Lives
<1>2. \A k \in Kinds : L[k] \cup NoneLost[k] = L[k]
  BY <1>1
<1>3. L = [k \in Kinds |-> L[k]]
  BY DEF Lives
<1> HIDE DEF NoneLost
<1> QED BY <1>1, <1>2, <1>3 DEF Drops, Apart, Also

\* What the SDK drops: operations, and builders.
LEMMA DroppingFacts ==
  ASSUME NEW hs \in SUBSET Handles, NEW bs \in SUBSET Handles
  PROVE  /\ Dropping(hs, bs) \in Drops
         /\ Dropping(hs, bs)["operation"] = hs /\ Dropping(hs, bs)["builder"] = bs
         /\ \A k \in Kinds : k \notin {"builder", "operation"} => Dropping(hs, bs)[k] = {}
<1>1. "operation" \in Kinds /\ "builder" \in Kinds /\ "operation" # "builder"
  BY DEF Kinds
<1> DEFINE D == Dropping(hs, bs)
<1>2. D = [k \in Kinds |-> IF k = "builder" THEN bs ELSE IF k = "operation" THEN hs ELSE {}]
  BY <1>1 DEF Dropping, NoneLost
<1> HIDE DEF D
<1>3. D \in Lives
  BY <1>2 DEF Lives
<1>4. D["operation"] = hs /\ D["builder"] = bs
      /\ \A k \in Kinds : k \notin {"builder", "operation"} => D[k] = {}
  BY <1>1, <1>2
<1> QED BY <1>3, <1>4 DEF Drops, D

\* Operations lost without a builder.
LEMMA AlsoSends ==
  ASSUME NEW L \in Lives, NEW hs \in SUBSET Handles, hs \cap L["operation"] = {}
  PROVE  /\ Dropping(hs, {}) \in Drops /\ Apart(L, Dropping(hs, {}))
         /\ Also(L, Dropping(hs, {})) = Lost(L, hs)
<1>0. {} \in SUBSET Handles /\ "operation" \in Kinds /\ "builder" \in Kinds
  BY DEF Kinds
<1>1. PICK D : D = Dropping(hs, {})
  OBVIOUS
<1>2. /\ D \in Drops /\ D["operation"] = hs /\ D["builder"] = {}
      /\ \A k \in Kinds : k \notin {"builder", "operation"} => D[k] = {}
  BY <1>0, <1>1, DroppingFacts
<1>3. \A k \in Kinds : k # "operation" => D[k] = {}
  BY <1>2
<1>4. Apart(L, D)
  BY <1>2, <1>3 DEF Apart
<1>5. Also(L, D) = Lost(L, hs)
  <2>1. \A k \in Kinds : L[k] \cup D[k] = IF k = "operation" THEN L[k] \cup hs ELSE L[k]
    BY <1>2, <1>3
  <2>2. Also(L, D) = [k \in Kinds |-> IF k = "operation" THEN L[k] \cup hs ELSE L[k]]
    BY <2>1 DEF Also
  <2> QED BY <1>0, <2>2 DEF Lost, Lives
<1> QED BY <1>1, <1>2, <1>4, <1>5

\* Operations lost with a builder.
LEMMA AlsoBuilder ==
  ASSUME NEW L \in Lives, NEW hs \in SUBSET Handles, hs \cap L["operation"] = {},
         NEW b \in Handles, b \notin L["builder"]
  PROVE  /\ Dropping(hs, {b}) \in Drops /\ Apart(L, Dropping(hs, {b}))
         /\ Also(L, Dropping(hs, {b})) = Plus(Lost(L, hs), "builder", b)
<1>0. {b} \in SUBSET Handles /\ "operation" \in Kinds /\ "builder" \in Kinds
  BY DEF Kinds
<1>1. PICK D : D = Dropping(hs, {b})
  OBVIOUS
<1>2. /\ D \in Drops /\ D["operation"] = hs /\ D["builder"] = {b}
      /\ \A k \in Kinds : k \notin {"builder", "operation"} => D[k] = {}
  BY <1>0, <1>1, DroppingFacts
<1>3. Apart(L, D)
  BY <1>2 DEF Apart
<1>4. Also(L, D) = Plus(Lost(L, hs), "builder", b)
  <2> DEFINE M == [k \in Kinds |-> IF k = "operation" THEN L[k] \cup hs
                                   ELSE IF k = "builder" THEN L[k] \cup {b} ELSE L[k]]
  <2>1. Also(L, D) = M
    BY <1>2 DEF Also
  <2>2. Plus(Lost(L, hs), "builder", b) = M
    BY <1>0 DEF Lost, Plus, Lives
  <2> QED BY <2>1, <2>2
<1> QED BY <1>1, <1>2, <1>3, <1>4

\* Naming what was lost changes nothing else in a result.
LEMMA LosingFacts ==
  ASSUME NEW r, Result(r), Coded(r), NEW D
  PROVE  /\ Result(Losing(r, D)) /\ Coded(Losing(r, D)) /\ "lost" \in DOMAIN Losing(r, D)
         /\ Losing(r, D).g = r.g /\ Losing(r, D).h = r.h /\ Losing(r, D).ex = r.ex
         /\ Losing(r, D).lost = D
  BY DEF Losing, Result, Coded

\* A call that leaves nothing behind has lost nothing.
LEMMA LeavesNoLoss ==
  ASSUME NEW L \in Lives, NEW r, Leaves(L, r)
  PROVE  LeavesLost(L, Losing(r, NoneLost))
<1>1. Result(r) /\ Coded(r) /\ r.g.live = L
  BY DEF Leaves
<1> QED BY <1>1, LosingFacts, AlsoNone DEF LeavesLost, Losses

\* A call that makes an object or nothing has lost nothing.
LEMMA MakesNoLoss ==
  ASSUME NEW L \in Lives, NEW k \in Kinds, NEW r, Makes(L, k, r)
  PROVE  MakesOrLoses(L, k, Losing(r, NoneLost))
<1> DEFINE q == Losing(r, NoneLost)
<1>1. /\ Result(q) /\ Coded(q) /\ "lost" \in DOMAIN q
      /\ q.g = r.g /\ q.h = r.h /\ q.ex = r.ex /\ q.lost = NoneLost
  BY LosingFacts DEF Makes
<1>2. r.ex = "no" => Holds(L, k, r)
  BY DEF Makes
<1>3. r.ex # "no" => r.g.live = Also(L, NoneLost)
  BY AlsoNone DEF Makes
<1> HIDE DEF q
<1>4. r.ex = "no" => Holds(L, k, q)
  BY <1>1, <1>2 DEF Holds
<1>5. Losses(L, q)
  BY <1>1, AlsoNone DEF Losses
<1>6. MakesOrLoses(L, k, q)
  BY <1>1, <1>3, <1>4, <1>5 DEF MakesOrLoses
<1> QED BY <1>6 DEF q

\* An exception that names what it leaves behind.
LEMMA ThrowLoses ==
  ASSUME NEW L \in Lives, NEW k, NEW D \in Drops, Apart(L, D), NEW r, Leaves(Also(L, D), r), r.ex # "no"
  PROVE  MakesOrLoses(L, k, Losing(r, D))
<1>1. Result(r) /\ Coded(r) /\ r.g.live = Also(L, D)
  BY DEF Leaves
<1>2. PICK q : q = Losing(r, D)
  OBVIOUS
<1>3. /\ Result(q) /\ Coded(q) /\ "lost" \in DOMAIN q /\ q.g = r.g /\ q.ex = r.ex /\ q.lost = D
  BY <1>1, <1>2, LosingFacts
<1>4. MakesOrLoses(L, k, q)
  BY <1>1, <1>3 DEF MakesOrLoses, Losses
<1> QED BY <1>2, <1>4

\* An exception of the SDK or of the node leaves the guest alone.
LEMMA ThrowFacts ==
  ASSUME NEW g \in Guests, NEW ex \in {"node", "host"}
  PROVE  Leaves(g.live, Throw(g, ex)) /\ Throw(g, ex).g = g /\ Throw(g, ex).ex = ex
  BY MaxHandleAssumption DEF Throw, Leaves, Result, Coded, Exceptions

\* An exception of the guest records its error.
LEMMA RefusedFacts ==
  ASSUME NEW g \in Guests
  PROVE  Leaves(g.live, Refused(g)) /\ Refused(g).ex = "guest"
  BY FailFacts, MaxHandleAssumption DEF Refused, Throw, Leaves, Result, Coded, Exceptions

\* Closing an object that was open while a call left nothing else behind.
LEMMA ClosingLeaves ==
  ASSUME NEW L \in Lives, NEW j \in Kinds, NEW h \in Handles, h \notin L[j],
         NEW r, Leaves(Plus(L, j, h), r)
  PROVE  Leaves(L, Closing(r, j, h))
<1>1. Result(r) /\ Coded(r) /\ r.g \in Guests /\ r.g.live = Plus(L, j, h)
  BY DEF Leaves, Result
<1>2. Remove(r.g, j, h).live = L
  BY <1>1, RemoveFacts, PlusMinus
<1> QED BY <1>1, <1>2, ClosingFacts DEF Leaves

\* Failing before there is a builder loses the operations.
LEMMA LosesSends ==
  ASSUME NEW L \in Lives, NEW hs \in SUBSET Handles, hs \cap L["operation"] = {},
         NEW g \in Guests, g.live = Lost(L, hs), NEW ex \in {"node", "host"}
  PROVE  MakesOrLoses(L, "block", Losing(Throw(g, ex), Dropping(hs, {})))
<1>1. PICK r : r = Throw(g, ex)
  OBVIOUS
<1>2. Leaves(g.live, r) /\ r.ex # "no"
  BY <1>1, ThrowFacts
<1> QED BY <1>1, <1>2, AlsoSends, ThrowLoses

\* Failing in the SDK loses the builder too; the guest consumes the builder it
\* refuses to position.
LEMMA LosesBuilder ==
  ASSUME NEW L \in Lives, NEW hs \in SUBSET Handles, hs \cap L["operation"] = {},
         NEW b, Lost(L, hs) \in Lives, Lost(L, hs)["builder"] = L["builder"],
         Holds(Lost(L, hs), "builder", b)
  PROVE  /\ MakesOrLoses(L, "block", Losing(Throw(b.g, "host"), Dropping(hs, {b.h})))
         /\ MakesOrLoses(L, "block", Losing(Refused(Remove(b.g, "builder", b.h)), Dropping(hs, {})))
<1>0. "builder" \in Kinds
  BY DEF Kinds
<1>1. /\ b.g \in Guests /\ b.h \in Handles /\ b.h \notin L["builder"]
      /\ b.g.live = Plus(Lost(L, hs), "builder", b.h)
  BY DEF Holds
<1>2. PICK r, h : r = Throw(b.g, "host") /\ h = b.h
  OBVIOUS
<1>3. Leaves(Plus(Lost(L, hs), "builder", h), r) /\ r.ex # "no"
  BY <1>1, <1>2, ThrowFacts
<1>4. MakesOrLoses(L, "block", Losing(r, Dropping(hs, {h})))
  BY <1>1, <1>2, <1>3, AlsoBuilder, ThrowLoses
<1>5. PICK g : g = Remove(b.g, "builder", b.h)
  OBVIOUS
<1>6. g \in Guests /\ g.live = Lost(L, hs)
  BY <1>0, <1>5, Dropped
<1>7. PICK q : q = Refused(g)
  OBVIOUS
<1>8. Leaves(Lost(L, hs), q) /\ q.ex # "no"
  BY <1>6, <1>7, RefusedFacts
<1>9. MakesOrLoses(L, "block", Losing(q, Dropping(hs, {})))
  BY <1>8, AlsoSends, ThrowLoses
<1> QED BY <1>2, <1>4, <1>5, <1>7, <1>9

\* buildSigned makes the block, or loses the operation, with or without the
\* builder, or neither.
LEMMA BuildSignedMakes ==
  ASSUME NEW L \in Lives, NEW o \in Handles, o \notin L["operation"],
         NEW g \in Guests, g.live = Plus(L, "operation", o), NEW fail,
         Free(L, "bytes"), Free(L, "builder"), Free(L, "unsigned"), Free(L, "block")
  PROVE  MakesOrLoses(L, "block", BuildSigned(g, o, fail))
<1> DEFINE M == Plus(L, "operation", o)
           g1 == Passed(g, "bytes", 1)
           b5 == Stepped(Put(g1, "builder"), 5)
           b7 == Stepped(b5, 2)
           r == BuiltAndSigned(b7, fail # "build", fail # "sign")
<1>0. {"bytes", "builder", "unsigned", "block", "operation"} \subseteq Kinds
  BY DEF Kinds
<1>1. /\ M \in Lives /\ M["bytes"] = L["bytes"] /\ M["builder"] = L["builder"]
      /\ M["unsigned"] = L["unsigned"] /\ M["block"] = L["block"]
  BY <1>0, PlusFacts DEF Kinds
<1>2. Free(M, "bytes") /\ Free(M, "builder") /\ Free(M, "unsigned") /\ Free(M, "block")
  BY <1>1 DEF Free
<1>3. g.live = M
  OBVIOUS
<1>4. Lost(L, {o}) = M /\ {o} \in SUBSET Handles /\ {o} \cap L["operation"] = {}
  BY DEF Lost, Plus
<1> HIDE DEF M
<1>5. CASE fail = "closed"
  <2>1. BuildSigned(g, o, fail) = Losing(Throw(g, "host"), Dropping({o}, {}))
    BY <1>5 DEF BuildSigned
  <2> QED BY <1>3, <1>4, <2>1, LosesSends
<1>6. CASE fail # "closed"
  <2>1. g1 \in Guests /\ g1.live = M
    BY <1>0, <1>2, <1>3, PassedFacts
  <2>2. BuildSigned(g, o, fail) = Headed(g1, o, fail)
    BY <1>6 DEF BuildSigned
  <2> HIDE DEF g1
  <2>3. Put(g1, "builder") \in Boxes /\ Holds(M, "builder", Put(g1, "builder"))
    BY <1>0, <1>2, <2>1, PutFacts, PutHolds DEF Boxes
  <2>4. b5 \in Boxes /\ Holds(M, "builder", b5)
    BY <1>1, <1>2, <2>3, SteppedHolds
  <2>5. CASE fail = "head"
    <3>1. Headed(g1, o, fail) = Losing(Throw(g1, "node"), Dropping({o}, {}))
      BY <2>5 DEF Headed
    <3> QED BY <1>4, <2>1, <2>2, <3>1, LosesSends
  <2>6. CASE fail = "hex"
    <3>1. Headed(g1, o, fail) = Losing(Throw(b5.g, "host"), Dropping({o}, {b5.h}))
      BY <2>6 DEF Headed, Positioned
    <3> HIDE DEF b5
    <3> QED BY <1>1, <1>4, <2>2, <2>4, <3>1, LosesBuilder
  <2>7. CASE fail = "position"
    <3>1. Headed(g1, o, fail) = Losing(Refused(Remove(b5.g, "builder", b5.h)), Dropping({o}, {}))
      BY <2>7 DEF Headed, Positioned
    <3> HIDE DEF b5
    <3> QED BY <1>1, <1>4, <2>2, <2>4, <3>1, LosesBuilder
  <2>8. CASE fail \notin {"head", "hex", "position"}
    <3>1. Headed(g1, o, fail) = Losing(Closing(r, "operation", o), NoneLost)
      BY <2>8 DEF Headed, Positioned
    <3> HIDE DEF b5
    <3>2. Holds(M, "builder", b7)
      BY <1>1, <1>2, <2>4, SteppedHolds
    <3> HIDE DEF b7
    <3>3. Makes(M, "block", r)
      BY <1>1, <1>2, <3>2, BuiltMakes
    <3> HIDE DEF r
    <3>4. Makes(L, "block", Closing(r, "operation", o))
      BY <1>0, <3>3, ClosingOpen DEF M
    <3> QED BY <1>0, <2>2, <3>1, <3>4, MakesNoLoss
  <2> QED BY <2>5, <2>6, <2>7, <2>8
<1> QED BY <1>5, <1>6

\* stapleFor makes the staple and releases the vote.
LEMMA StapleForMakes ==
  ASSUME NEW g \in Guests, Free(g.live, "vote"), Free(g.live, "staple"), NEW fail
  PROVE  Makes(g.live, "staple", StapleFor(g, fail))
<1> DEFINE L == g.live
           vote == Put(g, "vote")
           r == Checked(MakeFrom(vote.g, {<<"vote", vote.h>>}, "staple", fail # "staple"))
<1>0. {"vote", "staple"} \subseteq Kinds /\ L \in Lives
  BY DEF Kinds, Guests
<1>1. Holds(L, "vote", vote)
  BY <1>0, PutHolds
<1>2. StapleFor(g, fail) = Closing(r, "vote", vote.h)
  BY DEF StapleFor, StapleOf
<1> HIDE DEF vote
<1>3. vote.g \in Guests /\ vote.g.live = Plus(L, "vote", vote.h) /\ vote.h \in Handles
      /\ vote.h \notin L["vote"] /\ vote.g.live["staple"] = L["staple"]
  BY <1>0, <1>1, HoldsLive DEF Holds
<1>4. Makes(Plus(L, "vote", vote.h), "staple", r)
  <2>1. Free(vote.g.live, "staple")
    BY <1>3 DEF Free
  <2>2. Makes(vote.g.live, "staple", r)
    BY <1>0, <1>3, <2>1, MakeFromMakes
  <2> QED BY <1>3, <2>2
<1> HIDE DEF r, L
<1> QED BY <1>0, <1>2, <1>3, <1>4, ClosingOpen DEF L

\* publishStaple releases the permanent vote and the bytes, whatever fails.
LEMMA AssembledLeaves ==
  ASSUME NEW g \in Guests, Free(g.live, "vote"), Free(g.live, "bytes"), NEW fail
  PROVE  Leaves(g.live, Assembled(Put(g, "vote"), fail))
<1> DEFINE L == g.live
           vote == Put(g, "vote")
           r == Checked(MakeFrom(vote.g, {<<"vote", vote.h>>}, "bytes", fail # "assemble"))
<1>0. {"vote", "bytes"} \subseteq Kinds /\ L \in Lives
  BY DEF Kinds, Guests
<1>1. Holds(L, "vote", vote)
  BY <1>0, PutHolds
<1>2. Assembled(vote, fail) = Closing(TakeBytes(r), "vote", vote.h)
  BY DEF Assembled
<1> HIDE DEF vote
<1>3. vote.g \in Guests /\ vote.g.live = Plus(L, "vote", vote.h) /\ vote.h \in Handles
      /\ vote.h \notin L["vote"] /\ vote.g.live["bytes"] = L["bytes"] /\ vote.g.live \in Lives
  BY <1>0, <1>1, HoldsLive DEF Holds
<1>4. Makes(vote.g.live, "bytes", r)
  <2>1. Free(vote.g.live, "bytes")
    BY <1>3 DEF Free
  <2> QED BY <1>0, <1>3, <2>1, MakeFromMakes
<1> HIDE DEF r, L
<1>5. Leaves(Plus(L, "vote", vote.h), TakeBytes(r))
  BY <1>3, <1>4, TakeBytesLeaves
<1> QED BY <1>0, <1>2, <1>3, <1>5, ClosingLeaves DEF L, vote

\* Publishing leaves nothing behind, published or refused.
LEMMA PublishStapleLeaves ==
  ASSUME NEW g \in Guests, Free(g.live, "vote"), Free(g.live, "bytes"), NEW fail
  PROVE  Leaves(g.live, PublishStaple(g, fail))
<1> DEFINE a == Assembled(Put(g, "vote"), fail)
<1>1. Leaves(g.live, a)
  BY AssembledLeaves
<1>2. PublishStaple(g, fail) = IF fail = "verify" THEN Refused(g)
                               ELSE IF fail = "publish" THEN Throw(a.g, "node") ELSE a
  BY DEF PublishStaple
<1> HIDE DEF a
<1>3. a.g \in Guests /\ a.g.live = g.live
  BY <1>1 DEF Leaves, Result
<1>4. Leaves(g.live, Throw(a.g, "node"))
  BY <1>3, ThrowFacts
<1>5. Leaves(g.live, Refused(g))
  BY RefusedFacts
<1> QED BY <1>1, <1>2, <1>4, <1>5

\* The permanent round releases everything, the fee block included.
LEMMA PermanentRoundLeaves ==
  ASSUME NEW L \in Lives, NEW g \in Guests, NEW n \in Nat, NEW f, NEW fail,
         \/ f = 0 /\ g.live = L
         \/ f \in Handles /\ f \notin L["block"] /\ g.live = Plus(L, "block", f),
         Free(L, "vote"), Free(L, "bytes")
  PROVE  LeavesLost(L, PermanentRound(g, n, f, fail))
<1> DEFINE p == Passed(g, "bytes", n)
           r == Answered(p, fail)
<1>0. {"vote", "bytes", "block"} \subseteq Kinds
  BY DEF Kinds
<1>1. g.live["vote"] = L["vote"] /\ g.live["bytes"] = L["bytes"]
  BY <1>0, PlusFacts
<1>2. Free(g.live, "vote") /\ Free(g.live, "bytes")
  BY <1>1 DEF Free
<1>3. p \in Guests /\ p.live = g.live
  BY <1>0, <1>2, PassedFacts
<1>4. PermanentRound(g, n, f, fail) = Losing(Closing(r, "block", f), NoneLost)
  BY DEF PermanentRound
<1> HIDE DEF p
<1>5. Leaves(p.live, PublishStaple(p, fail)) /\ Leaves(p.live, Throw(p, "node"))
  BY <1>2, <1>3, PublishStapleLeaves, ThrowFacts
<1>6. Leaves(g.live, r)
  BY <1>3, <1>5 DEF Answered
<1> HIDE DEF r
<1>7. Leaves(L, Closing(r, "block", f))
  <2>1. CASE f = 0 /\ g.live = L
    <3>1. f \notin L["block"]
      BY <1>0, <2>1, MaxHandleAssumption DEF Lives, Handles
    <3>2. Result(r) /\ Coded(r) /\ r.g \in Guests /\ r.g.live = L
      BY <1>6, <2>1 DEF Leaves, Result
    <3>3. Remove(r.g, "block", f).live = L
      BY <1>0, <3>1, <3>2, RemoveFacts, MinusNone
    <3> QED BY <1>0, <3>2, <3>3, ClosingFacts DEF Leaves
  <2>2. CASE f \in Handles /\ f \notin L["block"] /\ g.live = Plus(L, "block", f)
    BY <1>0, <1>6, <2>2, ClosingLeaves
  <2> QED BY <2>1, <2>2
<1> QED BY <1>4, <1>7, LeavesNoLoss

-----------------------------------------------------------------------------
(* The fee block.                                                          *)

FeeRoom(L) == Cardinality(L["operation"]) + MaxFees + 1 <= MaxHandle

\* i sends were made beside the operations of L.
Sends(L, e, i) ==
  {q \in [g : Guests, hs : SUBSET Handles] :
     /\ q.hs \cap L["operation"] = {} /\ q.g.live = Lost(L, q.hs)
     /\ Cardinality(q.hs) = i /\ q.g.error = e}

\* Lost operations are live, and nothing of another kind is touched.
LEMMA LostFacts ==
  ASSUME NEW L \in Lives, NEW hs \in SUBSET Handles
  PROVE  /\ Lost(L, hs) \in Lives
         /\ Lost(L, hs)["operation"] = L["operation"] \cup hs
         /\ \A j \in Kinds : j # "operation" => Lost(L, hs)[j] = L[j]
  BY DEF Lost, Lives, Kinds

\* The handles are finite in number, so every table has a size.
LEMMA HandlesFinite ==
  /\ IsFiniteSet(Handles) /\ Cardinality(Handles) = MaxHandle
  /\ \A S \in SUBSET Handles : IsFiniteSet(S) /\ Cardinality(S) \in Nat
<1>1. IsFiniteSet(Handles) /\ Cardinality(Handles) = MaxHandle
  BY FS_Interval, MaxHandleAssumption DEF Handles
<1> QED BY <1>1, FS_Subset, FS_CardinalityType

\* One more send: there is room for it, and it has a handle of its own.
LEMMA NextSend ==
  ASSUME NEW L \in Lives, FeeRoom(L), NEW e, NEW i \in 1..MaxFees, NEW q \in Sends(L, e, i - 1)
  PROVE  [g |-> Put(q.g, "operation").g, hs |-> q.hs \cup {Put(q.g, "operation").h}]
           \in Sends(L, e, i)
<1> DEFINE r == Put(q.g, "operation")
           S == L["operation"] \cup q.hs
           hs == q.hs \cup {r.h}
<1>0. "operation" \in Kinds /\ MaxFees \in Nat /\ i \in Nat /\ i - 1 \in Nat /\ i <= MaxFees
  BY HostBounds DEF Kinds
<1>1. /\ q.g \in Guests /\ q.hs \in SUBSET Handles /\ q.g.live = Lost(L, q.hs)
      /\ q.hs \cap L["operation"] = {} /\ Cardinality(q.hs) = i - 1 /\ q.g.error = e
  BY DEF Sends
<1>2. L["operation"] \in SUBSET Handles /\ S \in SUBSET Handles /\ q.g.live["operation"] = S
  BY <1>0, <1>1, LostFacts DEF Lives
<1>3. Cardinality(S) < MaxHandle
  <2>1. /\ IsFiniteSet(L["operation"]) /\ IsFiniteSet(q.hs)
        /\ Cardinality(L["operation"]) \in Nat /\ Cardinality(S) \in Nat
    BY <1>1, <1>2, HandlesFinite
  <2>2. Cardinality(S) = Cardinality(L["operation"]) + Cardinality(q.hs)
                           - Cardinality(L["operation"] \cap q.hs)
    <3> HIDE DEF S
    <3> QED BY <2>1, FS_Union DEF S
  <2>3. Cardinality(L["operation"] \cap q.hs) = 0
    BY <1>1, FS_EmptySet
  <2> HIDE DEF S
  <2> QED BY <1>0, <1>1, <2>1, <2>2, <2>3, MaxHandleAssumption DEF FeeRoom
<1>4. S # Handles
  BY <1>3, HandlesFinite, MaxHandleAssumption
<1>5. Free(q.g.live, "operation")
  BY <1>2, <1>4 DEF Free
<1>6. /\ r.g \in Guests /\ r.h \in Handles /\ r.h \notin S
      /\ r.g.live = Plus(Lost(L, q.hs), "operation", r.h) /\ r.g.error = e
  BY <1>0, <1>1, <1>2, <1>5, PutHolds DEF Holds
<1> HIDE DEF r
<1>7. hs \in SUBSET Handles /\ hs \cap L["operation"] = {} /\ r.h \notin q.hs
  BY <1>1, <1>6
<1>8. r.g.live = Lost(L, hs)
  <2>1. Plus(Lost(L, q.hs), "operation", r.h) = Lost(L, hs)
    BY <1>0 DEF Plus, Lost, Lives
  <2> QED BY <1>6, <2>1
<1>9. Cardinality(hs) = i
  <2>1. IsFiniteSet(q.hs)
    BY <1>1, HandlesFinite
  <2>2. Cardinality(hs) = Cardinality(q.hs) + 1
    BY <1>7, <2>1, FS_AddElement
  <2> QED BY <1>0, <1>1, <2>2
<1> HIDE DEF hs
<1>10. [g |-> r.g, hs |-> hs] \in Sends(L, e, i)
  BY <1>6, <1>7, <1>8, <1>9 DEF Sends
<1> QED BY <1>10 DEF r, hs

\* keeta_staple_fee_sends: n operations and the list that names them.
LEMMA FeeSendsFacts ==
  ASSUME NEW g \in Guests, FeeRoom(g.live), Free(g.live, "bytes"), NEW n \in 1..MaxFees,
         NEW args, \A a \in args : Known(g, a[1], a[2])
  PROVE  LET s == FeeSends(g, args, n) IN
         /\ s.hs \in SUBSET Handles /\ s.hs \cap g.live["operation"] = {}
         /\ Holds(Lost(g.live, s.hs), "bytes", s)
<1> DEFINE L == g.live
           e == g.error
           x == [g |-> g, hs |-> {}]
           After(f) == f = [i \in 0..n |->
                              IF i = 0 THEN x
                              ELSE LET r == Put(f[i - 1].g, "operation")
                                   IN  [g |-> r.g, hs |-> f[i - 1].hs \cup {r.h}]]
           Sending(q) == [g |-> Put(q.g, "operation").g, hs |-> q.hs \cup {Put(q.g, "operation").h}]
           DD == [i \in 0..n |-> Sends(L, e, i)]
           F == [q \in UNION {Sends(L, e, i) : i \in 0..n} |-> Sending(q)]
           Ops == CHOOSE f : After(f)
           list == Put(Ops[n].g, "bytes")
<1>0. L \in Lives /\ {"operation", "bytes"} \subseteq Kinds /\ n \in Nat /\ n # 0 /\ n <= MaxFees
  BY HostBounds DEF Guests, Kinds
<1>1. FeeSends(g, args, n) = [g |-> list.g, h |-> list.h, hs |-> Ops[n].hs]
  BY <1>0 DEF FeeSends
<1>2. x \in DD[0]
  <2>1. x.hs = {} /\ x.g = g /\ x \in [g : Guests, hs : SUBSET Handles]
    OBVIOUS
  <2>2. Cardinality({}) = 0
    BY FS_EmptySet
  <2>3. Lost(L, {}) = L
    BY <1>0 DEF Lost, Lives
  <2>4. x \in Sends(L, e, 0)
    BY <2>1, <2>2, <2>3 DEF Sends
  <2> QED BY <1>0, <2>4
<1>3. ASSUME NEW i \in 1..n, NEW q, q \in DD[i - 1]
      PROVE  F[q] = Sending(q) /\ Sending(q) \in DD[i]
  <2>1. i \in 0..n /\ i - 1 \in 0..n /\ i \in 1..MaxFees
    BY <1>0, HostBounds
  <2>2. q \in Sends(L, e, i - 1)
    BY <1>3, <2>1
  <2>3. Sending(q) \in Sends(L, e, i)
    BY <1>0, <2>1, <2>2, NextSend
  <2>4. q \in UNION {Sends(L, e, j) : j \in 0..n}
    BY <2>1, <2>2
  <2> HIDE DEF Sending
  <2> QED BY <2>1, <2>3, <2>4
<1>4. \E f : After(f)
  <2>1. PICK f : f = [i \in 0..n |-> IF i = 0 THEN x ELSE F[f[i - 1]]]
    <3> HIDE DEF F, x
    <3>1. PICK f : Iterates(f, F, x, n)
      BY <1>0, IteratesExist
    <3> QED BY <3>1 DEF Iterates
  <2> HIDE DEF F, DD, Sending, x
  <2>2. \A i \in 0..n : f[i] \in DD[i]
    <3>1. f[0] \in DD[0]
      BY <1>0, <1>2, <2>1
    <3>2. ASSUME NEW i \in 1..n, f[i - 1] \in DD[i - 1] PROVE f[i] \in DD[i]
      <4>1. i \in 0..n /\ i # 0
        OBVIOUS
      <4>2. f[i] = F[f[i - 1]]
        BY <2>1, <4>1
      <4> QED BY <1>3, <3>2, <4>2
    <3> QED BY <1>0, <3>1, <3>2, IteratesStay
  <2>3. \A i \in 0..n : i # 0 => F[f[i - 1]] = Sending(f[i - 1])
    <3> SUFFICES ASSUME NEW i \in 0..n, i # 0 PROVE F[f[i - 1]] = Sending(f[i - 1])
      OBVIOUS
    <3>1. i \in 1..n /\ i - 1 \in 0..n
      OBVIOUS
    <3>2. f[i - 1] \in DD[i - 1]
      BY <2>2, <3>1
    <3> QED BY <1>3, <3>1, <3>2
  <2>4. f = [i \in 0..n |-> IF i = 0 THEN x ELSE Sending(f[i - 1])]
    BY <2>1, <2>3
  <2> QED BY <2>4 DEF Sending
<1>5. After(Ops)
  <2> HIDE DEF After
  <2> QED BY <1>4
<1> HIDE DEF Ops
<1>6. \A i \in 0..n : Ops[i] \in DD[i]
  <2>1. Ops = [i \in 0..n |-> IF i = 0 THEN x ELSE Sending(Ops[i - 1])]
    BY <1>5
  <2> HIDE DEF DD, Sending, x, After
  <2>2. Ops[0] \in DD[0]
    BY <1>0, <1>2, <2>1
  <2>3. ASSUME NEW i \in 1..n, Ops[i - 1] \in DD[i - 1] PROVE Ops[i] \in DD[i]
    <3>1. i \in 0..n /\ i # 0
      OBVIOUS
    <3>2. Ops[i] = Sending(Ops[i - 1])
      BY <2>1, <3>1
    <3> QED BY <1>3, <2>3, <3>2
  <2> QED BY <1>0, <2>2, <2>3, IteratesStay
<1>7. Ops[n] \in Sends(L, e, n)
  BY <1>0, <1>6
<1>8. /\ Ops[n].g \in Guests /\ Ops[n].hs \in SUBSET Handles
      /\ Ops[n].hs \cap L["operation"] = {} /\ Ops[n].g.live = Lost(L, Ops[n].hs)
  BY <1>7 DEF Sends
<1>9. Free(Ops[n].g.live, "bytes")
  BY <1>0, <1>8, LostFacts DEF Free, Kinds
<1>10. Holds(Lost(L, Ops[n].hs), "bytes", list)
  BY <1>0, <1>8, <1>9, PutHolds
<1> HIDE DEF list, L
<1>11. PICK s : s = FeeSends(g, args, n)
  OBVIOUS
<1>12. s.g = list.g /\ s.h = list.h /\ s.hs = Ops[n].hs
  BY <1>1, <1>11
<1>13. Holds(Lost(L, s.hs), "bytes", s)
  BY <1>10, <1>12 DEF Holds
<1> QED BY <1>8, <1>11, <1>12, <1>13 DEF L

\* Closing the sends leaves the block that was made and nothing else.
LEMMA ClosingSends ==
  ASSUME NEW L \in Lives, NEW hs \in SUBSET Handles, hs \cap L["operation"] = {},
         NEW r, Makes(Lost(L, hs), "block", r)
  PROVE  Makes(L, "block", ClosingAll(r, hs))
<1> DEFINE M == Lost(L, hs)
           c == ClosingAll(r, hs)
           live == [r.g.live EXCEPT !["operation"] = @ \ hs]
<1>0. {"operation", "block"} \subseteq Kinds /\ M \in Lives /\ M["block"] = L["block"]
  BY LostFacts DEF Kinds
<1>1. Result(r) /\ Coded(r) /\ r.g \in Guests /\ r.g.live \in Lives
  BY DEF Makes, Result, Guests
<1>2. live \in Lives
  BY <1>0, <1>1 DEF Lives
<1>3. c = [r EXCEPT !.g = [r.g EXCEPT !.live = live]]
  BY <1>1 DEF ClosingAll, Result, Guests
<1> DEFINE q == [r.g EXCEPT !.live = live]
<1>4. q \in Guests /\ q.live = live /\ q.error = r.g.error
  <2> HIDE DEF live
  <2> QED BY <1>1, <1>2 DEF Guests
<1> HIDE DEF q
<1>5. Result(c) /\ c.g = q /\ c.h = r.h /\ c.ex = r.ex
  <2>1. c = [r EXCEPT !.g = q]
    BY <1>3 DEF q
  <2> HIDE DEF c
  <2> QED BY <1>1, <1>4, <2>1 DEF Result
<1>6. Coded(c)
  <2> HIDE DEF c
  <2> QED BY <1>1, <1>4, <1>5 DEF Coded
<1>7. CASE r.ex = "no"
  <2>1. r.h \in Handles /\ r.h \notin L["block"] /\ r.g.live = Plus(M, "block", r.h)
    BY <1>0, <1>7 DEF Makes, Holds
  <2>2. [Plus(M, "block", r.h) EXCEPT !["operation"] = @ \ hs] = Plus(L, "block", r.h)
    BY <1>0 DEF Plus, Lost, Lives
  <2>3. live = Plus(L, "block", r.h)
    BY <2>1, <2>2
  <2> HIDE DEF c, live, M
  <2>4. Holds(L, "block", c)
    BY <1>4, <1>5, <2>1, <2>3 DEF Holds
  <2> QED BY <1>5, <1>6, <1>7, <2>4 DEF Makes, c
<1>8. CASE r.ex # "no"
  <2>1. r.g.live = M
    BY <1>8 DEF Makes
  <2>2. [M EXCEPT !["operation"] = @ \ hs] = L
    BY <1>0 DEF Lost, Lives
  <2>3. live = L
    BY <2>1, <2>2
  <2> HIDE DEF c, live, M
  <2> QED BY <1>4, <1>5, <1>6, <1>8, <2>3 DEF Makes, c
<1> QED BY <1>7, <1>8

\* buildFeeBlock makes the block, or loses the sends, with or without the
\* builder, or neither.
LEMMA FeeBlockMakes ==
  ASSUME NEW g \in Guests, FeeRoom(g.live), Free(g.live, "bytes"), Free(g.live, "builder"),
         Free(g.live, "unsigned"), Free(g.live, "block"),
         NEW n \in 1..MaxFees, NEW fail, NEW args, \A a \in args : Known(g, a[1], a[2])
  PROVE  MakesOrLoses(g.live, "block", FeeListed(FeeSends(g, args, n), n, fail))
<1> DEFINE L == g.live
           s == FeeSends(g, args, n)
           M == Lost(L, s.hs)
           g1 == Remove(s.g, "bytes", s.h)
           g2 == Passed(g1, "bytes", 1)
           b3 == Stepped(Put(g2, "builder"), 3)
           b6 == Stepped(b3, 3)
           b == Stepped(b6, 1 + n)
           r == BuiltAndSigned(b, fail # "build", fail # "sign")
<1>0. /\ {"bytes", "builder", "unsigned", "block", "operation"} \subseteq Kinds /\ L \in Lives
      /\ n \in Nat /\ n # 0 /\ 1 + n \in Nat
  BY HostBounds DEF Kinds, Guests
<1>1. s.hs \in SUBSET Handles /\ s.hs \cap L["operation"] = {} /\ Holds(Lost(L, s.hs), "bytes", s)
  BY FeeSendsFacts
<1>2. FeeListed(s, n, fail) = FeePaid(g1, s.hs, n, fail)
  BY <1>0 DEF FeeListed
<1> HIDE DEF s
<1>3. /\ M \in Lives /\ Holds(M, "bytes", s) /\ M["bytes"] = L["bytes"]
      /\ M["builder"] = L["builder"] /\ M["unsigned"] = L["unsigned"] /\ M["block"] = L["block"]
  BY <1>0, <1>1, LostFacts DEF Kinds
<1> HIDE DEF M
<1>4. Free(M, "bytes") /\ Free(M, "builder") /\ Free(M, "unsigned") /\ Free(M, "block")
  BY <1>3 DEF Free
<1>5. g1 \in Guests /\ g1.live = M
  BY <1>0, <1>3, Dropped
<1> HIDE DEF g1
<1>6. g2 \in Guests /\ g2.live = M
  BY <1>0, <1>4, <1>5, PassedFacts
<1>7. PICK hs \in SUBSET Handles : hs = s.hs /\ hs \cap L["operation"] = {} /\ M = Lost(L, hs)
  BY <1>1 DEF M
<1> SUFFICES MakesOrLoses(L, "block", FeePaid(g1, hs, n, fail))
  BY <1>2, <1>7 DEF s
<1>8. CASE fail = "payer"
  <2>1. FeePaid(g1, hs, n, fail) = Losing(Throw(g1, "host"), Dropping(hs, {}))
    BY <1>8 DEF FeePaid
  <2> QED BY <1>0, <1>5, <1>7, <2>1, LosesSends
<1>9. CASE fail # "payer"
  <2>1. FeePaid(g1, hs, n, fail) = FeeHeaded(g2, hs, n, fail)
    BY <1>9 DEF FeePaid
  <2> HIDE DEF g2, L
  <2>2. Put(g2, "builder") \in Boxes /\ Holds(M, "builder", Put(g2, "builder"))
    BY <1>0, <1>4, <1>6, PutFacts, PutHolds DEF Boxes
  <2>3. b3 \in Boxes /\ Holds(M, "builder", b3)
    BY <1>3, <1>4, <2>2, SteppedHolds
  <2>4. b6 \in Boxes /\ Holds(M, "builder", b6)
    <3> HIDE DEF b3
    <3> QED BY <1>3, <1>4, <2>3, SteppedHolds
  <2>5. CASE fail = "head"
    <3>1. FeeHeaded(g2, hs, n, fail) = Losing(Throw(g2, "node"), Dropping(hs, {}))
      BY <2>5 DEF FeeHeaded
    <3> QED BY <1>0, <1>6, <1>7, <2>1, <3>1, LosesSends
  <2>6. CASE fail = "signer"
    <3>1. FeeHeaded(g2, hs, n, fail) = Losing(Throw(b3.g, "host"), Dropping(hs, {b3.h}))
      BY <2>6 DEF FeeHeaded, FeeSigner
    <3> HIDE DEF b3
    <3> QED BY <1>0, <1>3, <1>7, <2>1, <2>3, <3>1, LosesBuilder
  <2>7. CASE fail \notin {"head", "signer"}
    <3>1. FeeHeaded(g2, hs, n, fail) = FeePositioned(b6, hs, n, fail)
      BY <2>7 DEF FeeHeaded, FeeSigner
    <3> HIDE DEF b6
    <3>2. CASE fail = "hex"
      <4>1. FeePositioned(b6, hs, n, fail) = Losing(Throw(b6.g, "host"), Dropping(hs, {b6.h}))
        BY <3>2 DEF FeePositioned
      <4> QED BY <1>0, <1>3, <1>7, <2>1, <2>4, <3>1, <4>1, LosesBuilder
    <3>3. CASE fail = "position"
      <4>1. FeePositioned(b6, hs, n, fail)
              = Losing(Refused(Remove(b6.g, "builder", b6.h)), Dropping(hs, {}))
        BY <3>3 DEF FeePositioned
      <4> QED BY <1>0, <1>3, <1>7, <2>1, <2>4, <3>1, <4>1, LosesBuilder
    <3>4. CASE fail \notin {"hex", "position"}
      <4>1. FeePositioned(b6, hs, n, fail) = Losing(ClosingAll(r, hs), NoneLost)
        BY <3>4 DEF FeePositioned
      <4>2. Holds(M, "builder", b)
        BY <1>0, <1>3, <1>4, <2>4, SteppedHolds
      <4> HIDE DEF b
      <4>3. Makes(M, "block", r)
        BY <1>3, <1>4, <4>2, BuiltMakes
      <4> HIDE DEF r
      <4>4. Makes(L, "block", ClosingAll(r, hs))
        BY <1>0, <1>7, <4>3, ClosingSends
      <4> QED BY <1>0, <2>1, <3>1, <4>1, <4>4, MakesNoLoss
    <3> QED BY <3>2, <3>3, <3>4
  <2> QED BY <2>5, <2>6, <2>7
<1> QED BY <1>8, <1>9

-----------------------------------------------------------------------------
(* A round.                                                                *)

\* What has to be free for a round: each kind once, and the fees.
RoundRoom(L, w) ==
  /\ Free(L, "bytes") /\ Free(L, "vote")
  /\ w.factory => /\ Free(L, "staple") /\ Free(L, "builder") /\ Free(L, "unsigned")
                  /\ Free(L, "block") /\ FeeRoom(L)

\* Closing another object beside what was lost.
LEMMA AlsoMinus ==
  ASSUME NEW L \in Lives, NEW D \in Drops, NEW k \in Kinds, k \notin {"builder", "operation"},
         NEW h \in Handles, h \notin L[k]
  PROVE  /\ Minus(Also(Plus(L, k, h), D), k, h) = Also(L, D)
         /\ Apart(Plus(L, k, h), D) => Apart(L, D)
<1>1. D[k] = {} /\ D \in Lives
  BY DEF Drops
<1>2. Plus(L, k, h) = [j \in Kinds |-> IF j = k THEN L[j] \cup {h} ELSE L[j]]
  BY DEF Plus, Lives
<1>3. Also(Plus(L, k, h), D)
        = [j \in Kinds |-> IF j = k THEN L[j] \cup {h} \cup D[j] ELSE L[j] \cup D[j]]
  BY <1>2 DEF Also
<1>4. Minus(Also(Plus(L, k, h), D), k, h)
        = [j \in Kinds |-> IF j = k THEN (L[j] \cup {h} \cup D[j]) \ {h} ELSE L[j] \cup D[j]]
  BY <1>3 DEF Minus
<1>5. (L[k] \cup {h} \cup D[k]) \ {h} = L[k] \cup D[k]
  BY <1>1
<1>6. Minus(Also(Plus(L, k, h), D), k, h) = Also(L, D)
  BY <1>4, <1>5 DEF Also
<1>7. ASSUME Apart(Plus(L, k, h), D) PROVE Apart(L, D)
  BY <1>2, <1>7 DEF Apart
<1> QED BY <1>6, <1>7

\* The staple of a fee block is released, whatever becomes of the fee block.
LEMMA WithStapleLeaves ==
  ASSUME NEW L \in Lives, NEW w \in Rounds, w.factory, RoundRoom(L, w), NEW n \in Nat,
         NEW staple, Makes(L, "staple", staple)
  PROVE  LeavesLost(L, WithStaple(staple, n, w))
<1> DEFINE fee == BuildFeeBlock(staple, w.fees, w.fail)
           st == staple.h
           M == Plus(L, "staple", st)
<1>0. /\ {"bytes", "builder", "unsigned", "block", "operation", "staple", "vote"} \subseteq Kinds
      /\ w.fees \in 0..MaxFees /\ MaxFees \in Nat /\ n + 1 \in Nat
  <2>1. w.fees = 0 \/ w.fees \in 0..MaxFees
    BY DEF Rounds
  <2>2. MaxFees \in Nat /\ n + 1 \in Nat
    BY HostBounds
  <2>3. {"bytes", "builder", "unsigned", "block", "operation", "staple", "vote"} \subseteq Kinds
    BY DEF Kinds
  <2> QED BY <2>1, <2>2, <2>3
<1>1. CASE staple.ex # "no"
  <2>1. Leaves(L, staple)
    BY <1>1 DEF Makes, Leaves
  <2> QED BY <1>1, <2>1, LeavesNoLoss DEF WithStaple
<1>2. CASE staple.ex = "no"
  <2>1. /\ Holds(L, "staple", staple) /\ staple.g \in Guests /\ staple.g.live = M
        /\ st \in Handles /\ st \notin L["staple"] /\ st \in staple.g.live["staple"]
    BY <1>0, <1>2, HoldsLive DEF Makes, Holds
  <2>2. WithStaple(staple, n, w) = WithFee(fee, st, n, w.fail)
    BY <1>2 DEF WithStaple
  <2>3. M \in Lives /\ \A k \in Kinds : k # "staple" => M[k] = L[k]
    BY <1>0, <2>1, PlusFacts
  <2> HIDE DEF M
  <2>4. /\ M["bytes"] = L["bytes"] /\ M["builder"] = L["builder"] /\ M["unsigned"] = L["unsigned"]
        /\ M["block"] = L["block"] /\ M["operation"] = L["operation"]
    BY <1>0, <2>3 DEF Kinds
  <2>5. Free(M, "bytes") /\ Free(M, "builder") /\ Free(M, "unsigned") /\ Free(M, "block") /\ FeeRoom(M)
    BY <2>4 DEF RoundRoom, Free, FeeRoom
  <2>6. \A a \in {<<"staple", st>>} : Known(staple.g, a[1], a[2])
    BY <2>1 DEF Known
  <2> HIDE DEF st
  <2>7. CASE w.fees = 0
    <3>1. FeeSends(staple.g, {<<"staple", st>>}, 0).g = staple.g
      BY <2>6 DEF FeeSends
    <3>2. fee = [g |-> staple.g, h |-> 0, ex |-> "no", lost |-> NoneLost]
      BY <2>7, <3>1 DEF BuildFeeBlock, FeeListed, st
    <3> HIDE DEF fee
    <3>3. WithFee(fee, st, n, w.fail) = Losing(Throw(Remove(staple.g, "staple", st), "host"), NoneLost)
      BY <3>2 DEF WithFee
    <3>4. Remove(staple.g, "staple", st) \in Guests /\ Remove(staple.g, "staple", st).live = L
      BY <1>0, <2>1, Dropped DEF st
    <3>5. Leaves(L, Throw(Remove(staple.g, "staple", st), "host"))
      BY <3>4, ThrowFacts
    <3> QED BY <2>2, <3>3, <3>5, LeavesNoLoss
  <2>8. CASE w.fees # 0
    <3>1. MakesOrLoses(M, "block", fee)
      <4>1. w.fees \in 1..MaxFees
        BY <1>0, <2>8
      <4>2. fee = FeeListed(FeeSends(staple.g, {<<"staple", st>>}, w.fees), w.fees, w.fail)
        BY DEF BuildFeeBlock, st
      <4> HIDE DEF fee
      <4> QED BY <2>1, <2>5, <2>6, <4>1, <4>2, FeeBlockMakes
    <3> HIDE DEF fee
    <3>2. CASE fee.ex # "no"
      <4>1. /\ Result(fee) /\ Coded(fee) /\ fee.g \in Guests /\ fee.g.live = Also(M, fee.lost)
            /\ "lost" \in DOMAIN fee /\ fee.lost \in Drops /\ Apart(M, fee.lost)
        BY <3>1, <3>2 DEF MakesOrLoses, Losses, Result
      <4>2. WithFee(fee, st, n, w.fail) = Closing(fee, "staple", st)
        BY <3>2 DEF WithFee
      <4>3. Remove(fee.g, "staple", st).live = Also(L, fee.lost) /\ Apart(L, fee.lost)
        <5>1. Remove(fee.g, "staple", st).live = Minus(Also(M, fee.lost), "staple", st)
          BY <1>0, <4>1, RemoveFacts
        <5>2. PICK h \in Handles, D \in Drops : h = st /\ D = fee.lost
          BY <2>1, <4>1 DEF st
        <5>3. h \notin L["staple"] /\ M = Plus(L, "staple", h)
          BY <2>1, <5>2 DEF M, st
        <5>4. /\ Minus(Also(Plus(L, "staple", h), D), "staple", h) = Also(L, D)
              /\ Apart(Plus(L, "staple", h), D) => Apart(L, D)
          BY <1>0, <5>3, AlsoMinus
        <5> QED BY <4>1, <5>1, <5>2, <5>3, <5>4
      <4>4. PICK c : c = Closing(fee, "staple", st)
        OBVIOUS
      <4>5. /\ Result(c) /\ Coded(c) /\ "lost" \in DOMAIN c /\ c.lost = fee.lost
            /\ c.g.live = Also(L, fee.lost)
        BY <1>0, <4>1, <4>3, <4>4, ClosingFacts
      <4>6. LeavesLost(L, c)
        BY <4>1, <4>3, <4>5 DEF LeavesLost, Losses
      <4> QED BY <2>2, <4>2, <4>4, <4>6
    <3>3. CASE fee.ex = "no"
      <4>1. Holds(M, "block", fee)
        BY <3>1, <3>3 DEF MakesOrLoses
      <4>2. fee.g \in Guests /\ fee.h \in Handles /\ fee.h \notin L["block"] /\ fee.h # 0
            /\ fee.g.live = Plus(M, "block", fee.h)
        BY <2>4, <4>1, MaxHandleAssumption DEF Holds, Handles
      <4> DEFINE q == Remove(fee.g, "staple", st)
      <4>3. WithFee(fee, st, n, w.fail) = PermanentRound(q, n + 1, fee.h, w.fail)
        BY <3>3, <4>2 DEF WithFee
      <4>4. q \in Guests /\ q.live = Plus(L, "block", fee.h)
        <5>1. Minus(Plus(Plus(L, "staple", st), "block", fee.h), "staple", st) = Plus(L, "block", fee.h)
          BY <1>0, <2>1, PlusMinusOther DEF st
        <5> QED BY <1>0, <4>2, <5>1, RemoveFacts DEF M
      <4> HIDE DEF q
      <4>5. LeavesLost(L, PermanentRound(q, n + 1, fee.h, w.fail))
        BY <1>0, <4>2, <4>4, PermanentRoundLeaves DEF RoundRoom
      <4> QED BY <2>2, <4>3, <4>5
    <3> QED BY <3>2, <3>3
  <2> QED BY <2>7, <2>8
<1> QED BY <1>1, <1>2

\* transmit leaves nothing behind but what a fee block lost.
LEMMA TransmitLeaves ==
  ASSUME NEW g \in Guests, NEW w \in Rounds, RoundRoom(g.live, w), NEW n \in Nat
  PROVE  LeavesLost(g.live, Transmit(g, n, w))
<1> DEFINE L == g.live
           g1 == Passed(g, "bytes", n)
           g2 == FeesRequired(g1)
<1>0. {"bytes", "vote", "staple"} \subseteq Kinds /\ L \in Lives /\ w.factory \in BOOLEAN
  BY DEF Kinds, Guests, Rounds
<1>1. Free(L, "bytes") /\ Free(L, "vote")
  BY DEF RoundRoom
<1>2. g1 \in Guests /\ g1.live = L
  BY <1>0, <1>1, PassedFacts
<1>3. Transmit(g, n, w) = Voted(g1, n, w)
  BY DEF Transmit
<1> HIDE DEF g1
<1>4. g2 \in Guests /\ g2.live = L
  BY <1>0, <1>1, <1>2, PassedFacts DEF FeesRequired
<1>5. CASE w.fail = "temp"
  BY <1>0, <1>2, <1>3, <1>5, ThrowFacts, LeavesNoLoss DEF Voted
<1>6. CASE w.fail = "vote"
  <2>1. Leaves(L, Refused(g1))
    BY <1>2, RefusedFacts
  <2> QED BY <1>0, <1>3, <1>6, <2>1, LeavesNoLoss DEF Voted
<1>7. CASE w.fail \notin {"temp", "vote"}
  <2>1. Voted(g1, n, w) = WithVotes(g2, n, w)
    BY <1>7 DEF Voted
  <2> HIDE DEF g2
  <2>2. CASE ~w.owed
    <3>1. LeavesLost(L, PermanentRound(g2, n, 0, w.fail))
      BY <1>0, <1>1, <1>4, PermanentRoundLeaves
    <3> QED BY <1>3, <2>1, <2>2, <3>1 DEF WithVotes
  <2>3. CASE w.owed /\ ~w.factory
    <3>1. Leaves(L, Throw(g2, "host"))
      BY <1>4, ThrowFacts
    <3> QED BY <1>0, <1>3, <2>1, <2>3, <3>1, LeavesNoLoss DEF WithVotes
  <2>4. CASE w.owed /\ w.factory
    <3>1. Makes(L, "staple", StapleFor(g2, w.fail))
      BY <1>1, <1>4, <2>4, StapleForMakes DEF RoundRoom
    <3>2. LeavesLost(L, WithStaple(StapleFor(g2, w.fail), n, w))
      BY <1>0, <2>4, <3>1, WithStapleLeaves
    <3> QED BY <1>3, <2>1, <2>4, <3>2 DEF WithVotes
  <2> QED BY <2>2, <2>3, <2>4
<1> QED BY <1>5, <1>6, <1>7

\* send and the rest make the operation and the block, publish and close both.
LEMMA WrittenLeaves ==
  ASSUME NEW g \in Guests, \A k \in Kinds : Free(g.live, k), NEW built, NEW w \in Rounds, ~w.factory
  PROVE  LeavesLost(g.live, Written(Put(g, "operation"), built, w))
<1> DEFINE L == g.live
           op == Put(g, "operation")
           sealing == BuildSigned(op.g, op.h, built)
           g1 == Passed(sealing.g, "bytes", 1)
           t == Transmit(g1, 1, w)
<1>0. /\ {"bytes", "vote", "operation", "builder", "unsigned", "block"} \subseteq Kinds
      /\ L \in Lives /\ 1 \in Nat
  BY DEF Kinds, Guests
<1>1. Holds(L, "operation", op)
  BY <1>0, PutHolds
<1>2. Written(op, built, w) = IF sealing.ex # "no" THEN sealing ELSE Closing(t, "block", sealing.h)
  BY DEF Written, Sent
<1> HIDE DEF op
<1>3. MakesOrLoses(L, "block", sealing)
  BY <1>0, <1>1, BuildSignedMakes DEF Holds
<1> HIDE DEF sealing
<1>4. CASE sealing.ex # "no"
  <2>1. LeavesLost(L, sealing)
    BY <1>3, <1>4 DEF MakesOrLoses, LeavesLost
  <2> QED BY <1>2, <1>4, <2>1 DEF op
<1>5. CASE sealing.ex = "no"
  <2> DEFINE h == sealing.h
             M == Plus(L, "block", h)
  <2>1. h \in Handles /\ h \notin L["block"] /\ sealing.g \in Guests /\ sealing.g.live = M
    BY <1>3, <1>5 DEF MakesOrLoses, Holds
  <2>2. M \in Lives /\ M["bytes"] = L["bytes"] /\ M["vote"] = L["vote"]
        /\ M["operation"] = L["operation"]
    BY <1>0, <2>1, PlusFacts DEF Kinds
  <2> HIDE DEF M
  <2>3. Free(M, "bytes") /\ Free(M, "vote") /\ RoundRoom(M, w)
    BY <1>0, <2>2 DEF Free, RoundRoom
  <2>4. g1 \in Guests /\ g1.live = M
    BY <1>0, <2>1, <2>3, PassedFacts
  <2> HIDE DEF g1
  <2>5. LeavesLost(M, t)
    BY <1>0, <2>3, <2>4, TransmitLeaves
  <2> HIDE DEF t
  <2>6. /\ Result(t) /\ Coded(t) /\ t.g \in Guests /\ t.g.live = Also(M, t.lost)
        /\ "lost" \in DOMAIN t /\ t.lost \in Drops /\ Apart(M, t.lost)
    BY <2>5 DEF LeavesLost, Losses, Result
  <2>7. Remove(t.g, "block", h).live = Also(L, t.lost) /\ Apart(L, t.lost)
    <3>1. Remove(t.g, "block", h).live = Minus(Also(M, t.lost), "block", h)
      BY <1>0, <2>6, RemoveFacts
    <3>2. PICK D \in Drops : D = t.lost
      BY <2>6
    <3>3. /\ Minus(Also(M, D), "block", h) = Also(L, D)
          /\ Apart(M, D) => Apart(L, D)
      BY <1>0, <2>1, AlsoMinus DEF M
    <3> QED BY <2>6, <3>1, <3>2, <3>3
  <2>8. PICK c : c = Closing(t, "block", h)
    OBVIOUS
  <2>9. /\ Result(c) /\ Coded(c) /\ "lost" \in DOMAIN c /\ c.lost = t.lost
        /\ c.g.live = Also(L, t.lost)
    BY <1>0, <2>6, <2>7, <2>8, ClosingFacts
  <2>10. LeavesLost(L, c)
    BY <2>6, <2>7, <2>9 DEF LeavesLost, Losses
  <2> QED BY <1>2, <1>5, <2>8, <2>10 DEF op
<1> QED BY <1>4, <1>5

\* The same when the guest may refuse the operation.
LEMMA WritingLeaves ==
  ASSUME NEW g \in Guests, \A k \in Kinds : Free(g.live, k), NEW built, NEW w \in Rounds, ~w.factory
  PROVE  LeavesLost(g.live, Writing(g, built, w))
<1>1. CASE built = "operation"
  <2>1. PICK r, L : r = Refused(g) /\ L = g.live /\ L \in Lives
    BY DEF Guests
  <2>2. Leaves(L, r)
    BY <2>1, RefusedFacts
  <2>3. LeavesLost(L, Losing(r, NoneLost))
    BY <2>1, <2>2, LeavesNoLoss
  <2> QED BY <1>1, <2>1, <2>3 DEF Writing
<1>2. CASE built # "operation"
  BY <1>2, WrittenLeaves DEF Writing
<1> QED BY <1>1, <1>2

-----------------------------------------------------------------------------
(***************************************************************************)
(* The invariant, on the parts of the state it relates: the guest g, the   *)
(* open objects o, the dropped handles d, the handles x of unsigned blocks *)
(* whose signing was refused, and the last exception ex.                   *)
(***************************************************************************)
Keepable == {"account", "permissions", "certificate", "operation", "builder", "unsigned", "block"}
Objects == [Slots -> {Closed} \cup [kind : Keepable, h : Handles]]

\* A handle that its Java object may hold though the guest has consumed it.
Dead(x, k, h) == k = "unsigned" /\ h \in x

\* The live handles are divided among the open objects and the dropped ones.
Accounted(o, L, d, x) ==
  /\ \A s \in Slots : o[s] # Closed => /\ o[s].h \in L[o[s].kind] \/ Dead(x, o[s].kind, o[s].h)
                                       /\ o[s].h \notin d[o[s].kind]
  /\ \A s, t \in Slots : s # t /\ o[s] # Closed /\ o[t] # Closed /\ o[t].kind = o[s].kind
                           => o[t].h # o[s].h \/ Dead(x, o[s].kind, o[s].h)
  /\ \A k \in Kinds : /\ d[k] \subseteq L[k]
                      /\ \A h \in L[k] : h \notin d[k]
                           => \E s \in Slots : o[s] # Closed /\ o[s].kind = k /\ o[s].h = h

\* Only builders and operations are ever dropped.
Sound(g, o, d, x, ex) ==
  /\ g \in Guests /\ o \in Objects /\ d \in Drops /\ ex \in Exceptions
  /\ Accounted(o, g.live, d, x)
  /\ ex = "guest" => g.error = "now"

HostInv == Sound(guest, objects, lost, spent, thrown)

\* Closing an object releases its handle.
LEMMA AccountedClose ==
  ASSUME NEW o \in Objects, NEW L \in Lives, NEW d \in Lives, NEW x, Accounted(o, L, d, x),
         NEW s \in Slots, o[s] # Closed
  PROVE  /\ [o EXCEPT ![s] = Closed] \in Objects
         /\ Accounted([o EXCEPT ![s] = Closed], Minus(L, o[s].kind, o[s].h), d, x)
         /\ o[s].kind \in Keepable /\ o[s].kind \in Kinds /\ o[s].h \in Handles
         /\ o[s].h \notin d[o[s].kind]
         /\ o[s].h \in L[o[s].kind] \/ Dead(x, o[s].kind, o[s].h)
<1> DEFINE p == [o EXCEPT ![s] = Closed]
           k == o[s].kind
           h == o[s].h
           M == Minus(L, k, h)
<1>1. /\ k \in Keepable /\ k \in Kinds /\ h \in Handles /\ p \in Objects
      /\ h \notin d[k] /\ (h \in L[k] \/ Dead(x, k, h))
  BY DEF Objects, Keepable, Kinds, Accounted
<1>2. p[s] = Closed /\ \A t \in Slots : t # s => p[t] = o[t]
  BY DEF Objects
<1>3. M[k] = L[k] \ {h} /\ \A j \in Kinds : j # k => M[j] = L[j]
  BY <1>1 DEF Minus, Lives
<1> HIDE DEF p, M
<1>4. ASSUME NEW t \in Slots, p[t] # Closed
      PROVE  /\ p[t].h \in M[p[t].kind] \/ Dead(x, p[t].kind, p[t].h)
             /\ p[t].h \notin d[p[t].kind]
  <2>1. t # s /\ p[t] = o[t] /\ o[t] # Closed /\ o[t].kind \in Kinds
    BY <1>2, <1>4 DEF Objects, Keepable, Kinds
  <2>2. /\ o[t].h \in L[o[t].kind] \/ Dead(x, o[t].kind, o[t].h)
        /\ o[t].h \notin d[o[t].kind]
        /\ o[t].kind = k => o[t].h # h \/ Dead(x, o[t].kind, o[t].h)
    BY <2>1 DEF Accounted
  <2> QED BY <1>3, <2>1, <2>2
<1>5. ASSUME NEW t \in Slots, NEW u \in Slots, t # u, p[t] # Closed, p[u] # Closed,
             p[u].kind = p[t].kind
      PROVE  p[u].h # p[t].h \/ Dead(x, p[t].kind, p[t].h)
  BY <1>2, <1>5 DEF Accounted
<1>6. ASSUME NEW j \in Kinds
      PROVE  /\ d[j] \subseteq M[j]
             /\ \A i \in M[j] : i \notin d[j]
                  => \E t \in Slots : p[t] # Closed /\ p[t].kind = j /\ p[t].h = i
  <2>1. d[j] \subseteq M[j]
    BY <1>1, <1>3 DEF Accounted
  <2>2. ASSUME NEW i \in M[j], i \notin d[j]
        PROVE  \E t \in Slots : p[t] # Closed /\ p[t].kind = j /\ p[t].h = i
    <3>1. i \in L[j] /\ ~(j = k /\ i = h)
      BY <1>3, <2>2
    <3>2. PICK t \in Slots : o[t] # Closed /\ o[t].kind = j /\ o[t].h = i
      BY <2>2, <3>1 DEF Accounted
    <3>3. t # s
      BY <3>1, <3>2
    <3> QED BY <1>2, <3>2, <3>3
  <2> QED BY <2>1, <2>2
<1>7. Accounted(p, M, d, x)
  BY <1>4, <1>5, <1>6 DEF Accounted
<1> QED BY <1>1, <1>7 DEF p, M

\* A new object takes a handle that was not live.
LEMMA AccountedOpen ==
  ASSUME NEW o \in Objects, NEW L \in Lives, NEW d \in Lives, NEW x, Accounted(o, L, d, x),
         NEW s \in Slots, o[s] = Closed, NEW k \in Keepable, NEW h \in Handles, h \notin L[k]
  PROVE  /\ [o EXCEPT ![s] = [kind |-> k, h |-> h]] \in Objects
         /\ Accounted([o EXCEPT ![s] = [kind |-> k, h |-> h]], Plus(L, k, h), d, x)
<1> DEFINE new == [kind |-> k, h |-> h]
           p == [o EXCEPT ![s] = new]
           M == Plus(L, k, h)
<1>1. k \in Kinds /\ new.kind = k /\ new.h = h /\ new # Closed /\ h \notin d[k]
  <2>1. k \in Kinds /\ k # "none"
    BY DEF Keepable, Kinds
  <2>2. h \notin d[k]
    BY <2>1 DEF Accounted
  <2> QED BY <2>1, <2>2 DEF Closed
<1>2. new \in [kind : Keepable, h : Handles]
  OBVIOUS
<1> HIDE DEF new
<1>3. p \in Objects /\ p[s] = new /\ \A t \in Slots : t # s => p[t] = o[t]
  BY <1>2 DEF Objects
<1>4. M[k] = L[k] \cup {h} /\ \A j \in Kinds : j # k => M[j] = L[j]
  BY <1>1 DEF Plus, Lives
<1> HIDE DEF p, M
<1>5. ASSUME NEW t \in Slots, t # s, p[t] # Closed
      PROVE  /\ p[t] = o[t] /\ o[t] # Closed /\ o[t].kind \in Kinds /\ o[t].h \notin d[o[t].kind]
             /\ o[t].h \in L[o[t].kind] \/ Dead(x, o[t].kind, o[t].h)
             /\ o[t].kind = k => o[t].h # h \/ Dead(x, k, h)
  <2>1. p[t] = o[t] /\ o[t] # Closed /\ o[t].kind \in Kinds
    BY <1>3, <1>5 DEF Objects, Keepable, Kinds
  <2> QED BY <2>1 DEF Accounted
<1>6. ASSUME NEW t \in Slots, p[t] # Closed
      PROVE  /\ p[t].h \in M[p[t].kind] \/ Dead(x, p[t].kind, p[t].h)
             /\ p[t].h \notin d[p[t].kind]
  <2>1. CASE t = s
    BY <1>1, <1>3, <1>4, <2>1
  <2>2. CASE t # s
    BY <1>4, <1>5, <1>6, <2>2
  <2> QED BY <2>1, <2>2
<1>7. ASSUME NEW t \in Slots, NEW u \in Slots, t # u, p[t] # Closed, p[u] # Closed,
             p[u].kind = p[t].kind
      PROVE  p[u].h # p[t].h \/ Dead(x, p[t].kind, p[t].h)
  <2>1. CASE t = s
    BY <1>1, <1>3, <1>5, <1>7, <2>1
  <2>2. CASE u = s
    BY <1>1, <1>3, <1>5, <1>7, <2>2
  <2>3. CASE t # s /\ u # s
    BY <1>3, <1>7, <2>3 DEF Accounted
  <2> QED BY <2>1, <2>2, <2>3
<1>8. ASSUME NEW j \in Kinds
      PROVE  /\ d[j] \subseteq M[j]
             /\ \A i \in M[j] : i \notin d[j]
                  => \E t \in Slots : p[t] # Closed /\ p[t].kind = j /\ p[t].h = i
  <2>1. d[j] \subseteq M[j]
    BY <1>1, <1>4 DEF Accounted
  <2>2. ASSUME NEW i \in M[j], i \notin d[j]
        PROVE  \E t \in Slots : p[t] # Closed /\ p[t].kind = j /\ p[t].h = i
    <3>1. CASE j = k /\ i = h
      BY <1>1, <1>3, <3>1
    <3>2. CASE ~(j = k /\ i = h)
      <4>1. i \in L[j]
        BY <1>4, <2>2, <3>2
      <4>2. PICK t \in Slots : o[t] # Closed /\ o[t].kind = j /\ o[t].h = i
        BY <2>2, <4>1 DEF Accounted
      <4> QED BY <1>3, <4>2
    <3> QED BY <3>1, <3>2
  <2> QED BY <2>1, <2>2
<1>9. Accounted(p, M, d, x)
  BY <1>6, <1>7, <1>8 DEF Accounted
<1> QED BY <1>3, <1>9 DEF p, M, new

\* Dropped handles stay live.
LEMMA AccountedLose ==
  ASSUME NEW o \in Objects, NEW L \in Lives, NEW d \in Drops, NEW x, Accounted(o, L, d, x),
         NEW D \in Drops, Apart(L, D)
  PROVE  Also(d, D) \in Drops /\ Accounted(o, Also(L, D), Also(d, D), x)
<1>0. D \in Lives /\ d \in Lives
  BY DEF Drops
<1>1. PICK M, e : M = Also(L, D) /\ e = Also(d, D)
  OBVIOUS
<1>2. /\ \A j \in Kinds : M[j] = L[j] \cup D[j] /\ e[j] = d[j] \cup D[j] /\ D[j] \cap L[j] = {}
      /\ e \in Lives
  BY <1>0, <1>1, AlsoFacts DEF Apart
<1>3. e \in Drops
  BY <1>2 DEF Drops
<1>4. \A j \in {"unsigned"} : j \in Kinds /\ D[j] = {} /\ d[j] = {}
  BY DEF Drops, Kinds
<1>5. ASSUME NEW t \in Slots, o[t] # Closed
      PROVE  /\ o[t].h \in M[o[t].kind] \/ Dead(x, o[t].kind, o[t].h)
             /\ o[t].h \notin e[o[t].kind]
  <2>1. o[t].kind \in Kinds
    BY <1>5 DEF Objects, Keepable, Kinds
  <2>2. /\ o[t].h \in L[o[t].kind] \/ Dead(x, o[t].kind, o[t].h)
        /\ o[t].h \notin d[o[t].kind]
    BY <1>5 DEF Accounted
  <2>3. CASE o[t].h \in L[o[t].kind]
    BY <1>2, <2>1, <2>2, <2>3
  <2>4. CASE Dead(x, o[t].kind, o[t].h)
    <3>1. o[t].kind = "unsigned"
      BY <2>4 DEF Dead
    <3>2. e["unsigned"] = {}
      BY <1>2, <1>4
    <3> QED BY <2>4, <3>1, <3>2
  <2> QED BY <2>2, <2>3, <2>4
<1>6. ASSUME NEW j \in Kinds
      PROVE  /\ e[j] \subseteq M[j]
             /\ \A i \in M[j] : i \notin e[j]
                  => \E t \in Slots : o[t] # Closed /\ o[t].kind = j /\ o[t].h = i
  <2>1. /\ d[j] \subseteq L[j]
        /\ \A i \in L[j] : i \notin d[j]
                  => \E t \in Slots : o[t] # Closed /\ o[t].kind = j /\ o[t].h = i
    BY DEF Accounted
  <2> QED BY <1>2, <2>1
<1>7. Accounted(o, M, e, x)
  BY <1>5, <1>6 DEF Accounted
<1> QED BY <1>1, <1>3, <1>7

\* A refused signature consumes the block, while its object keeps the handle.
LEMMA AccountedSpend ==
  ASSUME NEW o \in Objects, NEW L \in Lives, NEW d \in Drops, NEW x, Accounted(o, L, d, x), NEW h
  PROVE  Accounted(o, Minus(L, "unsigned", h), d, x \cup {h})
<1>0. "unsigned" \in Kinds /\ d["unsigned"] = {}
  BY DEF Drops, Kinds
<1>1. PICK M, y : M = Minus(L, "unsigned", h) /\ y = x \cup {h}
  OBVIOUS
<1>2. M["unsigned"] = L["unsigned"] \ {h} /\ \A j \in Kinds : j # "unsigned" => M[j] = L[j]
  BY <1>0, <1>1 DEF Minus, Lives
<1>3. \A k, i : Dead(x, k, i) => Dead(y, k, i)
  BY <1>1 DEF Dead
<1>4. Dead(y, "unsigned", h)
  BY <1>1 DEF Dead
<1>5. ASSUME NEW t \in Slots, o[t] # Closed
      PROVE  /\ o[t].h \in M[o[t].kind] \/ Dead(y, o[t].kind, o[t].h)
             /\ o[t].h \notin d[o[t].kind]
  <2>1. o[t].kind \in Kinds
    BY <1>5 DEF Objects, Keepable, Kinds
  <2>2. /\ o[t].h \in L[o[t].kind] \/ Dead(x, o[t].kind, o[t].h)
        /\ o[t].h \notin d[o[t].kind]
    BY <1>5 DEF Accounted
  <2>3. CASE o[t].kind = "unsigned" /\ o[t].h = h
    BY <1>4, <2>2, <2>3
  <2>4. CASE ~(o[t].kind = "unsigned" /\ o[t].h = h)
    BY <1>2, <1>3, <2>1, <2>2, <2>4
  <2> QED BY <2>3, <2>4
<1>6. ASSUME NEW t \in Slots, NEW u \in Slots, t # u, o[t] # Closed, o[u] # Closed,
             o[u].kind = o[t].kind
      PROVE  o[u].h # o[t].h \/ Dead(y, o[t].kind, o[t].h)
  BY <1>3, <1>6 DEF Accounted
<1>7. ASSUME NEW j \in Kinds
      PROVE  /\ d[j] \subseteq M[j]
             /\ \A i \in M[j] : i \notin d[j]
                  => \E t \in Slots : o[t] # Closed /\ o[t].kind = j /\ o[t].h = i
  <2>1. /\ d[j] \subseteq L[j]
        /\ \A i \in L[j] : i \notin d[j]
                  => \E t \in Slots : o[t] # Closed /\ o[t].kind = j /\ o[t].h = i
    BY DEF Accounted
  <2>2. M[j] \subseteq L[j] /\ d[j] \subseteq M[j]
    BY <1>0, <1>2, <2>1
  <2> QED BY <2>1, <2>2
<1>8. Accounted(o, M, d, y)
  BY <1>5, <1>6, <1>7 DEF Accounted
<1> QED BY <1>1, <1>8

\* Between two calls no bytes are live, so an error can always be read.
LEMMA NoBytes ==
  ASSUME NEW g, NEW o, NEW d, NEW x, NEW ex, Sound(g, o, d, x, ex)
  PROVE  g.live["bytes"] = {}
<1>1. "bytes" \in Kinds /\ d["bytes"] = {} /\ Accounted(o, g.live, d, x) /\ o \in Objects
  BY DEF Sound, Kinds, Drops
<1>2. \A s \in Slots : o[s].kind # "bytes"
  BY <1>1 DEF Objects, Keepable, Closed
<1> QED BY <1>1, <1>2 DEF Accounted

-----------------------------------------------------------------------------
(* What a call starts from.                                                *)

\* A call starts from the handles the last one left.
LEMMA BeginFacts ==
  ASSUME HostInv
  PROVE  Begin \in Guests /\ Begin.live = guest.live /\ guest.live \in Lives
  BY DEF HostInv, Sound, Begin, Aged, Guests

\* Room leaves every table with a free handle, and the fees with theirs.
LEMMA RoomFacts ==
  ASSUME HostInv, Room
  PROVE  (\A k \in Kinds : Free(guest.live, k)) /\ FeeRoom(guest.live)
<1>1. guest.live \in Lives /\ MaxFees \in Nat /\ MaxHandle \in Nat /\ "operation" \in Kinds
  BY BeginFacts, HostBounds, MaxHandleAssumption DEF Kinds
<1>2. ASSUME NEW k \in Kinds PROVE Free(guest.live, k)
  <2>1. Cardinality(guest.live[k]) + MaxFees + 1 <= MaxHandle
    BY DEF Room
  <2>2. Cardinality(guest.live[k]) \in Nat
    BY <1>1, HandlesFinite DEF Lives
  <2>3. Cardinality(guest.live[k]) # MaxHandle
    BY <1>1, <2>1, <2>2
  <2> QED BY <2>3, HandlesFinite DEF Free
<1> QED BY <1>1, <1>2 DEF Room, FeeRoom

\* Reading the last error keeps what a call left and its exception.
LEMMA LastErrorKeeps ==
  ASSUME NEW r, Result(r), Coded(r), r.g.live["bytes"] = {}
  PROVE  /\ LastError(r).g \in Guests /\ LastError(r).h = r.h /\ LastError(r).ex = r.ex
         /\ LastError(r).g.live = r.g.live /\ LastError(r).ex \in Exceptions
         /\ LastError(r).ex = "guest" => LastError(r).g.error = "now"
  BY LastErrorFacts DEF Result, Coded

\* A call that makes an object for its caller, or throws.
LEMMA ReturnMakes ==
  ASSUME HostInv, NEW k \in Keepable, NEW r, Makes(guest.live, k, r), Return(r, k), UNCHANGED <<lost, spent>>
  PROVE  HostInv'
<1>0. /\ Sound(guest, objects, lost, spent, thrown) /\ guest.live["bytes"] = {} /\ k \in Kinds
      /\ k # "bytes" /\ k # "none" /\ "bytes" \in Kinds
  BY NoBytes DEF HostInv, Keepable, Kinds
<1>1. PICK L, o, d, x : L = guest.live /\ o = objects /\ d = lost /\ x = spent
  OBVIOUS
<1>2. /\ L \in Lives /\ o \in Objects /\ d \in Drops /\ d \in Lives /\ Accounted(o, L, d, x) /\ L["bytes"] = {}
  BY <1>0, <1>1 DEF Sound, Guests, Drops
<1>3. Result(r) /\ Coded(r) /\ r.g \in Guests
  BY DEF Makes, Result
<1>4. r.g.live["bytes"] = {}
  <2>1. CASE r.ex = "no"
    BY <1>0, <1>1, <1>2, <2>1, HoldsLive DEF Makes
  <2>2. CASE r.ex # "no"
    BY <1>0, <2>2 DEF Makes
  <2> QED BY <2>1, <2>2
<1>5. PICK e : e = LastError(r)
  OBVIOUS
<1>6. /\ e.g \in Guests /\ e.ex = r.ex /\ e.g.live = r.g.live /\ e.ex \in Exceptions
      /\ e.ex = "guest" => e.g.error = "now"
  BY <1>3, <1>4, <1>5, LastErrorKeeps
<1>7. guest' = e.g /\ thrown' = e.ex /\ lost' = d /\ spent' = x
  BY <1>1, <1>5 DEF Return
<1>8. CASE e.ex # "no"
  <2>1. objects' = o /\ e.g.live = L
    BY <1>1, <1>5, <1>6, <1>8 DEF Return, Makes
  <2>2. Sound(e.g, o, d, x, e.ex)
    BY <1>2, <1>6, <2>1 DEF Sound
  <2> QED BY <1>7, <2>1, <2>2 DEF HostInv
<1>9. CASE e.ex = "no"
  <2>1. r.h \in Handles /\ r.h \notin L[k] /\ e.g.live = Plus(L, k, r.h)
    BY <1>1, <1>6, <1>9 DEF Makes, Holds
  <2>2. PICK s \in FreeSlots : objects' = [objects EXCEPT ![s] = [kind |-> k, h |-> r.h]]
    BY <1>0, <1>5, <1>9 DEF Return
  <2>3. s \in Slots /\ o[s] = Closed
    BY <1>1 DEF FreeSlots
  <2>4. PICK p : p = [o EXCEPT ![s] = [kind |-> k, h |-> r.h]]
    OBVIOUS
  <2>5. p \in Objects /\ Accounted(p, Plus(L, k, r.h), d, x)
    BY <1>2, <2>1, <2>3, <2>4, AccountedOpen
  <2>6. Sound(e.g, p, d, x, e.ex)
    BY <1>2, <1>6, <2>1, <2>5 DEF Sound
  <2> QED BY <1>1, <1>7, <2>2, <2>4, <2>6 DEF HostInv
<1> QED BY <1>8, <1>9

\* A call that keeps nothing, but may drop operations and builders.
LEMMA ReturnLeaves ==
  ASSUME HostInv, NEW r, LeavesLost(guest.live, r), Ends(r)
  PROVE  HostInv'
<1>0. /\ Sound(guest, objects, lost, spent, thrown) /\ guest.live["bytes"] = {} /\ "bytes" \in Kinds
  BY NoBytes DEF HostInv, Kinds
<1>1. PICK L, o, d, x : L = guest.live /\ o = objects /\ d = lost /\ x = spent
  OBVIOUS
<1>2. /\ L \in Lives /\ o \in Objects /\ d \in Drops /\ Accounted(o, L, d, x) /\ L["bytes"] = {}
  BY <1>0, <1>1 DEF Sound, Guests
<1>3. PICK D \in Drops : D = r.lost /\ r.g.live = Also(L, D) /\ Apart(L, D)
  BY <1>1 DEF LeavesLost, Losses
<1>4. Result(r) /\ Coded(r) /\ r.g.live["bytes"] = {}
  <2>1. Also(L, D)["bytes"] = L["bytes"]
    BY <1>0, <1>2, AlsoFacts
  <2> QED BY <1>2, <1>3, <2>1 DEF LeavesLost, Losses
<1>5. PICK e : e = LastError(r)
  OBVIOUS
<1>6. /\ e.g \in Guests /\ e.ex = r.ex /\ e.g.live = r.g.live /\ e.ex \in Exceptions
      /\ e.ex = "guest" => e.g.error = "now"
  BY <1>4, <1>5, LastErrorKeeps
<1>7. PICK c : c = Also(d, D)
  OBVIOUS
<1>8. guest' = e.g /\ thrown' = e.ex /\ lost' = c /\ objects' = o /\ spent' = x
  BY <1>1, <1>3, <1>5, <1>7 DEF Ends, Return, Also
<1>9. c \in Drops /\ Accounted(o, e.g.live, c, x)
  BY <1>2, <1>3, <1>6, <1>7, AccountedLose
<1>10. Sound(e.g, o, c, x, e.ex)
  BY <1>2, <1>6, <1>9 DEF Sound
<1> QED BY <1>8, <1>10 DEF HostInv

\* A call that keeps nothing and drops nothing.
LEMMA ReturnNothing ==
  ASSUME HostInv, NEW r, Leaves(guest.live, r), Return(r, "none"), UNCHANGED <<lost, spent>>
  PROVE  HostInv'
<1>3. Result(r) /\ Coded(r) /\ r.g.live = guest.live /\ guest.live["bytes"] = {}
  BY NoBytes DEF HostInv, Leaves
<1>4. PICK e : e = LastError(r)
  OBVIOUS
<1>5. /\ e.g \in Guests /\ e.g.live = guest.live /\ e.ex \in Exceptions
      /\ e.ex = "guest" => e.g.error = "now"
  BY <1>3, <1>4, LastErrorKeeps
<1>6. guest' = e.g /\ thrown' = e.ex /\ objects' = objects /\ lost' = lost /\ spent' = spent
  BY <1>4 DEF Return
<1>7. PICK o, d, x : o = objects /\ d = lost /\ x = spent /\ o \in Objects /\ d \in Drops
                     /\ Accounted(o, guest.live, d, x)
  BY DEF HostInv, Sound
<1>8. Sound(e.g, o, d, x, e.ex)
  BY <1>5, <1>7 DEF Sound
<1> QED BY <1>6, <1>7, <1>8 DEF HostInv

\* An open builder names a live one.
LEMMA BuilderLives ==
  ASSUME HostInv, NEW s \in Slots, objects[s].kind = "builder"
  PROVE  objects[s].h \in guest.live["builder"]
<1>1. PICK L, o, d, x : L = guest.live /\ o = objects /\ d = lost /\ x = spent
  OBVIOUS
<1>2. o[s] # Closed /\ Accounted(o, L, d, x) /\ o[s].kind = "builder"
  BY <1>1 DEF HostInv, Sound, Closed
<1>3. ~Dead(x, o[s].kind, o[s].h)
  BY <1>2 DEF Dead
<1> QED BY <1>1, <1>2, <1>3 DEF Accounted

\* What an open object names, seen from the handles beside it.
LEMMA OpenObject ==
  ASSUME HostInv, NEW s \in Slots, NEW j \in Kinds, objects[s].kind = j,
         objects[s].h \in guest.live[j]
  PROVE  /\ objects[s] # Closed
         /\ Minus(guest.live, j, objects[s].h) \in Lives
         /\ \A k \in Kinds : Free(guest.live, k)
                               => Free(Minus(guest.live, j, objects[s].h), k)
         /\ Holds(Minus(guest.live, j, objects[s].h), j,
                  [g |-> Begin, h |-> objects[s].h])
<1>1. PICK L, o, h : L = guest.live /\ o = objects /\ h = objects[s].h
  OBVIOUS
<1>2. L \in Lives /\ o \in Objects
  BY <1>1 DEF HostInv, Sound, Guests
<1>3. o[s] # Closed /\ o[s].kind = j /\ j \in Kinds
  BY <1>1 DEF Closed, Kinds
<1>4. h \in Handles /\ h \in L[j]
  BY <1>1, <1>2, <1>3 DEF Lives
<1>5. /\ Minus(L, j, h) \in Lives /\ h \notin Minus(L, j, h)[j]
      /\ \A k \in Kinds : Minus(L, j, h)[k] \subseteq L[k]
      /\ Plus(Minus(L, j, h), j, h) = L
  <2>1. [Minus(L, j, h) EXCEPT ![j] = @ \cup {h}]
          = [L EXCEPT ![j] = (@ \ {h}) \cup {h}]
    BY <1>2, <1>3 DEF Minus, Lives
  <2>2. (L[j] \ {h}) \cup {h} = L[j]
    BY <1>4
  <2> QED BY <1>2, <1>3, <2>1, <2>2 DEF Minus, Plus, Lives
<1>6. \A k \in Kinds : Free(L, k) => Free(Minus(L, j, h), k)
  BY <1>2, <1>5 DEF Free, Lives
<1>7. Begin \in Guests /\ Begin.live = L
  BY <1>1, BeginFacts
<1>8. Holds(Minus(L, j, h), j, [g |-> Begin, h |-> h])
  BY <1>4, <1>5, <1>7 DEF Holds
<1> QED BY <1>1, <1>3, <1>5, <1>6, <1>8

\* A call that consumes an object: its slot holds what was made of it, or nothing.
LEMMA ConsumeKeeps ==
  ASSUME HostInv, NEW s \in Slots, NEW j \in Kinds, objects[s].kind = j, NEW k \in Keepable, NEW r,
         Makes(Minus(guest.live, j, objects[s].h), k, r), Consumed(s, r, k),
         UNCHANGED <<lost, spent>>
  PROVE  HostInv'
<1>0. /\ Sound(guest, objects, lost, spent, thrown) /\ guest.live["bytes"] = {} /\ k \in Kinds
      /\ k # "bytes" /\ "bytes" \in Kinds
  BY NoBytes DEF HostInv, Keepable, Kinds
<1>1. PICK L, M, o, d, x : /\ L = guest.live /\ o = objects /\ d = lost /\ x = spent
                        /\ M = Minus(guest.live, j, objects[s].h)
  OBVIOUS
<1>2. /\ L \in Lives /\ o \in Objects /\ d \in Drops /\ d \in Lives /\ Accounted(o, L, d, x) /\ L["bytes"] = {}
  BY <1>0, <1>1 DEF Sound, Guests, Drops
<1>3. PICK p : p = [o EXCEPT ![s] = Closed]
  OBVIOUS
<1>4. o[s] # Closed /\ o[s].kind = j /\ M = Minus(L, o[s].kind, o[s].h)
  BY <1>1 DEF Closed, Kinds
<1>5. p \in Objects /\ Accounted(p, M, d, x)
  BY <1>2, <1>3, <1>4, AccountedClose
<1>6. M \in Lives /\ M["bytes"] = {}
  BY <1>0, <1>2, <1>4 DEF Minus, Lives
<1>7. Makes(M, k, r) /\ Result(r) /\ Coded(r) /\ r.g \in Guests
  BY <1>1 DEF Makes, Result
<1>8. r.g.live["bytes"] = {}
  <2>1. CASE r.ex = "no"
    BY <1>0, <1>6, <1>7, <2>1, HoldsLive DEF Makes
  <2>2. CASE r.ex # "no"
    BY <1>6, <1>7, <2>2 DEF Makes
  <2> QED BY <2>1, <2>2
<1>9. PICK e : e = LastError(r)
  OBVIOUS
<1>10. /\ e.g \in Guests /\ e.h = r.h /\ e.ex = r.ex /\ e.g.live = r.g.live /\ e.ex \in Exceptions
       /\ e.ex = "guest" => e.g.error = "now"
  BY <1>7, <1>8, <1>9, LastErrorKeeps
<1>11. guest' = e.g /\ thrown' = e.ex /\ lost' = d /\ spent' = x
  BY <1>1, <1>9 DEF Consumed
<1>12. CASE e.ex # "no"
  <2>1. objects' = p /\ e.g.live = M
    BY <1>1, <1>3, <1>7, <1>9, <1>10, <1>12 DEF Makes, Consumed
  <2>2. Sound(e.g, p, d, x, e.ex)
    BY <1>2, <1>5, <1>10, <2>1 DEF Sound
  <2> QED BY <1>11, <2>1, <2>2 DEF HostInv
<1>13. CASE e.ex = "no"
  <2>1. e.h \in Handles /\ e.h \notin M[k] /\ e.g.live = Plus(M, k, e.h)
    BY <1>7, <1>10, <1>13 DEF Makes, Holds
  <2>2. PICK q : q = [p EXCEPT ![s] = [kind |-> k, h |-> e.h]]
    OBVIOUS
  <2>3. objects' = q
    BY <1>1, <1>2, <1>3, <1>9, <1>13, <2>2 DEF Objects, Consumed
  <2>4. p[s] = Closed
    BY <1>2, <1>3 DEF Objects
  <2>5. q \in Objects /\ Accounted(q, Plus(M, k, e.h), d, x)
    BY <1>2, <1>5, <1>6, <2>1, <2>2, <2>4, AccountedOpen
  <2>6. Sound(e.g, q, d, x, e.ex)
    BY <1>2, <1>10, <2>1, <2>5 DEF Sound
  <2> QED BY <1>11, <2>3, <2>6 DEF HostInv
<1> QED BY <1>12, <1>13

-----------------------------------------------------------------------------
(* The calls.                                                              *)

\* An account, permissions or a certificate made, or refused.
LEMMA CreateKeeps ==
  ASSUME HostInv, NEW k \in {"account", "permissions", "certificate"}, Create(k)
  PROVE  HostInv'
<1>1. PICK ok \in BOOLEAN : Return(Checked(Make(Begin, k, ok)), k)
  BY DEF Create
<1>2. k \in Kinds /\ k \in Keepable /\ Free(guest.live, k) /\ UNCHANGED <<lost, spent>>
  BY RoomFacts DEF Create, Kinds, Keepable
<1>3. PICK g : g = Begin /\ g \in Guests /\ g.live = guest.live
  BY BeginFacts
<1>4. PICK r : r = Checked(Make(g, k, ok))
  OBVIOUS
<1>5. Makes(guest.live, k, r)
  BY <1>2, <1>3, <1>4, MakeMakes
<1> QED BY <1>1, <1>2, <1>3, <1>4, <1>5, ReturnMakes

\* A string generated.
LEMMA GenerateKeeps ==
  ASSUME HostInv, Generate
  PROVE  HostInv'
<1>1. PICK ok \in BOOLEAN : Return(TakeBytes(Checked(Make(Begin, "bytes", ok))), "none")
  BY DEF Generate
<1>2. "bytes" \in Kinds /\ Free(guest.live, "bytes") /\ UNCHANGED <<lost, spent>>
  BY RoomFacts DEF Generate, Kinds
<1>3. PICK g : g = Begin /\ g \in Guests /\ g.live = guest.live /\ g.live \in Lives
  BY BeginFacts
<1>4. PICK r : r = Checked(Make(g, "bytes", ok))
  OBVIOUS
<1>5. Makes(g.live, "bytes", r)
  BY <1>2, <1>3, <1>4, MakeMakes
<1>6. PICK t : t = TakeBytes(r)
  OBVIOUS
<1>7. Leaves(guest.live, t)
  BY <1>3, <1>5, <1>6, TakeBytesLeaves
<1> QED BY <1>1, <1>2, <1>3, <1>4, <1>6, <1>7, ReturnNothing

\* A getter on an open object.
LEMMA ReadKeeps ==
  ASSUME HostInv, NEW s \in Slots, Read(s)
  PROVE  HostInv'
<1>1. PICK ok \in BOOLEAN : Return(ReadOf(Begin, objects[s].kind, objects[s].h, ok), "none")
  BY DEF Read
<1>2. "bytes" \in Kinds /\ Free(guest.live, "bytes") /\ UNCHANGED <<lost, spent>>
  BY RoomFacts DEF Read, Kinds
<1>3. PICK g : g = Begin /\ g \in Guests /\ g.live = guest.live /\ g.live \in Lives
  BY BeginFacts
<1>4. PICK args : args = {<<objects[s].kind, objects[s].h>>}
  OBVIOUS
<1>5. PICK r : r = Checked(MakeFrom(g, args, "bytes", ok))
  OBVIOUS
<1>6. Makes(g.live, "bytes", r)
  BY <1>2, <1>3, <1>5, MakeFromMakes
<1>7. PICK t : t = TakeBytes(r)
  OBVIOUS
<1>8. Leaves(guest.live, t)
  BY <1>3, <1>6, <1>7, TakeBytesLeaves
<1>9. Return(t, "none")
  BY <1>1, <1>3, <1>4, <1>5, <1>7 DEF ReadOf
<1> QED BY <1>2, <1>8, <1>9, ReturnNothing

\* An account derived from an open object.
LEMMA DeriveKeeps ==
  ASSUME HostInv, NEW s \in Slots, Derive(s)
  PROVE  HostInv'
<1>1. PICK ok \in BOOLEAN :
        Return(Checked(MakeFrom(Begin, {<<objects[s].kind, objects[s].h>>}, "account", ok)),
               "account")
  BY DEF Derive
<1>2. "account" \in Kinds /\ "account" \in Keepable /\ Free(guest.live, "account")
      /\ UNCHANGED <<lost, spent>>
  BY RoomFacts DEF Derive, Kinds, Keepable
<1>3. PICK g : g = Begin /\ g \in Guests /\ g.live = guest.live
  BY BeginFacts
<1>4. PICK args : args = {<<objects[s].kind, objects[s].h>>}
  OBVIOUS
<1>5. PICK r : r = Checked(MakeFrom(g, args, "account", ok))
  OBVIOUS
<1>6. Makes(guest.live, "account", r)
  BY <1>2, <1>3, <1>5, MakeFromMakes
<1>7. Return(r, "account")
  BY <1>1, <1>3, <1>4, <1>5
<1> QED BY <1>2, <1>6, <1>7, ReturnMakes

\* An operation made from open objects.
LEMMA NewOperationKeeps ==
  ASSUME HostInv, NewOperation
  PROVE  HostInv'
<1>1. PICK args, ok : Return(Checked(MakeFrom(Begin, args, "operation", ok)), "operation")
  BY DEF NewOperation
<1>2. "operation" \in Kinds /\ "operation" \in Keepable /\ Free(guest.live, "operation")
      /\ UNCHANGED <<lost, spent>>
  BY RoomFacts DEF NewOperation, Kinds, Keepable
<1>3. PICK g : g = Begin /\ g \in Guests /\ g.live = guest.live
  BY BeginFacts
<1>4. PICK r : r = Checked(MakeFrom(g, args, "operation", ok))
  OBVIOUS
<1>5. Makes(guest.live, "operation", r)
  BY <1>2, <1>3, <1>4, MakeFromMakes
<1> QED BY <1>1, <1>2, <1>3, <1>4, <1>5, ReturnMakes

\* A new builder.
LEMMA NewBuilderKeeps ==
  ASSUME HostInv, NewBuilder
  PROVE  HostInv'
<1>1. Return(Checked(Make(Begin, "builder", TRUE)), "builder")
  BY DEF NewBuilder
<1>2. "builder" \in Kinds /\ "builder" \in Keepable /\ Free(guest.live, "builder")
      /\ UNCHANGED <<lost, spent>>
  BY RoomFacts DEF NewBuilder, Kinds, Keepable
<1>3. PICK g : g = Begin /\ g \in Guests /\ g.live = guest.live
  BY BeginFacts
<1>4. PICK r : r = Checked(Make(g, "builder", TRUE))
  OBVIOUS
<1>5. Makes(guest.live, "builder", r)
  BY <1>2, <1>3, <1>4, MakeMakes
<1> QED BY <1>1, <1>2, <1>3, <1>4, <1>5, ReturnMakes

\* close() of an open object.
LEMMA CloseKeeps ==
  ASSUME HostInv, NEW s \in Slots, Close(s)
  PROVE  HostInv'
<1>1. PICK L, o, d, x, g : /\ L = guest.live /\ o = objects /\ d = lost /\ x = spent
                           /\ g = Begin
  OBVIOUS
<1>2. /\ L \in Lives /\ o \in Objects /\ d \in Drops /\ d \in Lives /\ Accounted(o, L, d, x)
  BY <1>1 DEF HostInv, Sound, Guests, Drops
<1>3. o[s] # Closed /\ g \in Guests /\ g.live = L
  BY <1>1, BeginFacts DEF Close
<1>4. PICK p : p = [o EXCEPT ![s] = Closed]
  OBVIOUS
<1>5. p \in Objects /\ o[s].kind \in Kinds /\ Accounted(p, Minus(L, o[s].kind, o[s].h), d, x)
  BY <1>2, <1>3, <1>4, AccountedClose
<1>6. PICK q : q = Remove(g, o[s].kind, o[s].h)
  OBVIOUS
<1>7. q \in Guests /\ q.live = Minus(L, o[s].kind, o[s].h)
  BY <1>3, <1>5, <1>6, RemoveFacts
<1>8. Sound(q, p, d, x, "no")
  BY <1>2, <1>5, <1>7 DEF Sound, Exceptions
<1>9. guest' = q /\ objects' = p /\ lost' = d /\ spent' = x /\ thrown' = "no"
  BY <1>1, <1>4, <1>6 DEF Close
<1> QED BY <1>8, <1>9 DEF HostInv

\* A setter on an open builder, accepted or refused.
LEMMA StepKeeps ==
  ASSUME HostInv, NEW s \in Slots, Step(s)
  PROVE  HostInv'
<1>1. PICK b, M : /\ b = [g |-> Begin, h |-> objects[s].h]
                  /\ M = Minus(guest.live, "builder", objects[s].h)
  OBVIOUS
<1>2. /\ objects[s].kind = "builder" /\ UNCHANGED <<lost, spent>>
      /\ "builder" \in Keepable /\ "builder" \in Kinds /\ Free(guest.live, "builder")
  BY RoomFacts DEF Step, Keepable, Kinds
<1>3. M \in Lives /\ Free(M, "builder") /\ Holds(M, "builder", b)
  BY <1>1, <1>2, BuilderLives, OpenObject
<1>4. PICK args, ok : Consumed(s, Checked(Rebox(Begin, objects[s].h, args, ok)), "builder")
  BY DEF Step
<1>5. PICK r : r = Checked(Rebox(b.g, b.h, args, ok))
  OBVIOUS
<1>6. Makes(M, "builder", r)
  BY <1>3, <1>5, ReboxMakes
<1>7. Consumed(s, r, "builder")
  BY <1>1, <1>4, <1>5
<1> QED BY <1>1, <1>2, <1>6, <1>7, ConsumeKeeps

\* A setter whose argument is closed: the builder is dropped, and stays live.
LEMMA StepWithClosedKeeps ==
  ASSUME HostInv, NEW s \in Slots, StepWithClosed(s)
  PROVE  HostInv'
<1>1. PICK L, o, d, x, g, h : /\ L = guest.live /\ o = objects /\ d = lost /\ x = spent
                              /\ g = Begin /\ h = objects[s].h
  OBVIOUS
<1>2. /\ L \in Lives /\ o \in Objects /\ d \in Drops /\ d \in Lives /\ Accounted(o, L, d, x)
  BY <1>1 DEF HostInv, Sound, Guests, Drops
<1>3. /\ o[s] # Closed /\ o[s].kind = "builder" /\ o[s].h = h /\ "builder" \in Kinds
      /\ g \in Guests /\ g.live = L
  BY <1>1, BeginFacts DEF StepWithClosed, Closed, Kinds
<1>4. PICK p, M : p = [o EXCEPT ![s] = Closed] /\ M = Minus(L, "builder", h)
  OBVIOUS
<1>5. p \in Objects /\ Accounted(p, M, d, x) /\ h \in Handles
  BY <1>2, <1>3, <1>4, AccountedClose
<1>6. h \in L["builder"]
  BY <1>1, BuilderLives DEF StepWithClosed
<1>7. M \in Lives /\ h \notin M["builder"] /\ Plus(M, "builder", h) = L
  <2>1. M \in Lives /\ M["builder"] = L["builder"] \ {h}
    BY <1>2, <1>3, <1>4 DEF Minus, Lives
  <2>2. Plus(M, "builder", h) = [L EXCEPT !["builder"] = (@ \ {h}) \cup {h}]
    BY <1>2, <1>3, <1>4 DEF Minus, Lives, Plus
  <2>3. (L["builder"] \ {h}) \cup {h} = L["builder"]
    BY <1>6
  <2>4. [L EXCEPT !["builder"] = (@ \ {h}) \cup {h}] = L
    BY <1>2, <1>3, <2>3 DEF Lives
  <2> QED BY <2>1, <2>2, <2>4
<1>8. PICK D : D = Dropping({}, {h})
  OBVIOUS
<1>9. D \in Drops /\ Apart(M, D) /\ Also(M, D) = L
  <2>1. {} \in SUBSET Handles /\ {} \cap M["operation"] = {}
    OBVIOUS
  <2>2. Lost(M, {}) = M
    BY <1>7 DEF Lost, Lives
  <2> QED BY <1>5, <1>7, <1>8, <2>1, <2>2, AlsoBuilder
<1>10. Also(d, D) \in Drops /\ Accounted(p, L, Also(d, D), x)
  BY <1>2, <1>5, <1>7, <1>9, AccountedLose
<1>11. Also(d, D) = [d EXCEPT !["builder"] = @ \cup {h}]
  <2>1. D["builder"] = {h} /\ \A k \in Kinds : k # "builder" => D[k] = {}
    <3>1. {} \in SUBSET Handles /\ {h} \in SUBSET Handles
      BY <1>5
    <3>2. /\ D["operation"] = {} /\ D["builder"] = {h}
          /\ \A k \in Kinds : k \notin {"builder", "operation"} => D[k] = {}
      BY <1>8, <3>1, DroppingFacts
    <3> QED BY <3>2
  <2>2. Also(d, D) = [k \in Kinds |-> IF k = "builder" THEN d[k] \cup {h} ELSE d[k]]
    BY <2>1 DEF Also
  <2> QED BY <1>2, <1>3, <2>2 DEF Lives
<1>12. PICK c : c = Also(d, D)
  OBVIOUS
<1>13. Sound(g, p, c, x, "host")
  BY <1>3, <1>5, <1>10, <1>12 DEF Sound, Exceptions
<1>14. guest' = g /\ objects' = p /\ lost' = c /\ spent' = x /\ thrown' = "host"
  BY <1>1, <1>4, <1>11, <1>12 DEF StepWithClosed
<1> QED BY <1>13, <1>14 DEF HostInv

\* An open builder becomes an unsigned block, or nothing.
LEMMA BuildKeeps ==
  ASSUME HostInv, NEW s \in Slots, Build(s)
  PROVE  HostInv'
<1>1. PICK b, M : /\ b = [g |-> Begin, h |-> objects[s].h]
                  /\ M = Minus(guest.live, "builder", objects[s].h)
  OBVIOUS
<1>2. /\ objects[s].kind = "builder" /\ UNCHANGED <<lost, spent>> /\ "unsigned" \in Keepable
      /\ {"builder", "unsigned"} \subseteq Kinds /\ Free(guest.live, "unsigned")
  BY RoomFacts DEF Build, Keepable, Kinds
<1>3. M \in Lives /\ Free(M, "unsigned") /\ Holds(M, "builder", b)
  BY <1>1, <1>2, BuilderLives, OpenObject
<1>4. PICK ok : Consumed(s, Checked(Convert(Begin, "builder", objects[s].h, "unsigned", ok)), "unsigned")
  BY DEF Build
<1>5. PICK r : r = Checked(Convert(b.g, "builder", b.h, "unsigned", ok))
  OBVIOUS
<1>6. Makes(M, "unsigned", r)
  BY <1>2, <1>3, <1>5, ConvertMakes
<1>7. Consumed(s, r, "unsigned")
  BY <1>1, <1>4, <1>5
<1> QED BY <1>1, <1>2, <1>6, <1>7, ConsumeKeeps

\* What sign() makes of an open unsigned block, whether the guest still has it
\* or not.
LEMMA SignMakes ==
  ASSUME HostInv, Room, NEW s \in Slots, objects[s].kind = "unsigned", NEW ok
  PROVE  Makes(Minus(guest.live, "unsigned", objects[s].h), "block",
               Checked(Convert(Begin, "unsigned", objects[s].h, "block", ok)))
<1>1. PICK g, h, M : g = Begin /\ h = objects[s].h /\ M = Minus(guest.live, "unsigned", h)
  OBVIOUS
<1>2. /\ {"unsigned", "block"} \subseteq Kinds /\ Free(guest.live, "block")
      /\ g \in Guests /\ g.live = guest.live /\ guest.live \in Lives
  BY <1>1, RoomFacts, BeginFacts DEF Kinds
<1>3. PICK r : r = Checked(Convert(g, "unsigned", h, "block", ok))
  OBVIOUS
<1>4. CASE h \in guest.live["unsigned"]
  <2>1. PICK b : b = [g |-> g, h |-> h]
    OBVIOUS
  <2>2. M \in Lives /\ Free(M, "block") /\ Holds(M, "unsigned", b)
    BY <1>1, <1>2, <1>4, <2>1, OpenObject
  <2>3. Makes(M, "block", Checked(Convert(b.g, "unsigned", b.h, "block", ok)))
    BY <1>2, <2>2, ConvertMakes
  <2> QED BY <1>1, <2>1, <2>3
<1>5. CASE h \notin guest.live["unsigned"]
  <2>1. M = guest.live
    BY <1>1, <1>2, <1>5, MinusNone
  <2>2. Convert(g, "unsigned", h, "block", ok) = Make(g, "block", FALSE)
    BY <1>2, <1>5 DEF Convert, Known, Make
  <2>3. Makes(g.live, "block", Checked(Make(g, "block", FALSE)))
    BY <1>2, MakeMakes
  <2> QED BY <1>1, <1>2, <2>1, <2>2, <2>3
<1> QED BY <1>4, <1>5

\* An unsigned block is signed, or refused and kept.
LEMMA SignKeeps ==
  ASSUME HostInv, NEW s \in Slots, Sign(s)
  PROVE  HostInv'
<1>0. Room /\ objects[s].kind = "unsigned" /\ "unsigned" \in Kinds /\ "block" \in Keepable
      /\ "block" \in Kinds /\ "bytes" \in Kinds /\ guest.live["bytes"] = {} /\ guest.live \in Lives
  BY NoBytes, BeginFacts DEF Sign, Kinds, Keepable, HostInv
<1>1. PICK ok \in BOOLEAN :
        LET r == LastError(Checked(Convert(Begin, "unsigned", objects[s].h, "block", ok)))
        IN  /\ guest' = r.g
            /\ thrown' = r.ex
            /\ IF r.ex = "no"
               THEN /\ objects' = [objects EXCEPT ![s] = [kind |-> "block", h |-> r.h]]
                    /\ UNCHANGED spent
               ELSE /\ spent' = spent \cup {objects[s].h}
                    /\ UNCHANGED objects
  BY DEF Sign
<1>2. PICK r : r = Checked(Convert(Begin, "unsigned", objects[s].h, "block", ok))
  OBVIOUS
<1>3. PICK h, M : h = objects[s].h /\ M = Minus(guest.live, "unsigned", objects[s].h)
  OBVIOUS
<1>4. Makes(M, "block", r)
  BY <1>0, <1>2, <1>3, SignMakes
<1>5. PICK e : e = LastError(r)
  OBVIOUS
<1>6. /\ guest' = e.g /\ thrown' = e.ex /\ lost' = lost
      /\ e.ex = "no" => objects' = [objects EXCEPT ![s] = [kind |-> "block", h |-> e.h]]
                        /\ spent' = spent
      /\ e.ex # "no" => spent' = spent \cup {h} /\ objects' = objects
  BY <1>1, <1>2, <1>3, <1>5 DEF Sign
<1>7. CASE e.ex = "no"
  <2>1. Consumed(s, r, "block")
    BY <1>5, <1>6, <1>7 DEF Consumed
  <2> QED BY <1>0, <1>3, <1>4, <1>6, <1>7, <2>1, ConsumeKeeps
<1>8. CASE e.ex # "no"
  <2>1. M \in Lives /\ M["bytes"] = {}
    BY <1>0, <1>3 DEF Minus, Lives
  <2>2. Result(r) /\ Coded(r)
    BY <1>4 DEF Makes
  <2>3. r.g.live["bytes"] = {}
    <3>1. CASE r.ex = "no"
      BY <1>0, <1>4, <2>1, <3>1, HoldsLive DEF Makes
    <3>2. CASE r.ex # "no"
      BY <1>4, <2>1, <3>2 DEF Makes
    <3> QED BY <3>1, <3>2
  <2>4. /\ e.g \in Guests /\ e.ex = r.ex /\ e.g.live = r.g.live /\ e.ex \in Exceptions
        /\ e.ex = "guest" => e.g.error = "now"
    BY <1>5, <2>2, <2>3, LastErrorKeeps
  <2>5. e.g.live = M
    BY <1>4, <1>8, <2>4 DEF Makes
  <2>6. PICK L, o, d, x : L = guest.live /\ o = objects /\ d = lost /\ x = spent
    OBVIOUS
  <2>7. L \in Lives /\ o \in Objects /\ d \in Drops /\ Accounted(o, L, d, x)
    BY <2>6 DEF HostInv, Sound, Guests
  <2>8. Accounted(o, M, d, x \cup {h})
    BY <1>3, <2>6, <2>7, AccountedSpend
  <2>9. PICK y : y = x \cup {h}
    OBVIOUS
  <2>10. Sound(e.g, o, d, y, e.ex)
    BY <2>4, <2>5, <2>7, <2>8, <2>9 DEF Sound
  <2> QED BY <1>6, <1>8, <2>6, <2>9, <2>10 DEF HostInv
<1> QED BY <1>7, <1>8

\* Open blocks are published, and stay open.
LEMMA TransmitBlocksKeeps ==
  ASSUME HostInv, TransmitBlocks
  PROVE  HostInv'
<1>1. PICK B \in SUBSET Open("block"), w \in Rounds : Ends(Transmit(Begin, Cardinality(B), w))
  BY DEF TransmitBlocks
<1>2. Cardinality(B) \in Nat
  <2>1. MaxObjects \in Nat
    BY HostBounds
  <2>2. IsFiniteSet(Slots)
    BY <2>1, FS_Interval DEF Slots
  <2>3. B \subseteq Slots
    BY DEF Open
  <2> QED BY <2>2, <2>3, FS_Subset, FS_CardinalityType
<1>3. PICK g, n : g = Begin /\ g \in Guests /\ g.live = guest.live /\ n = Cardinality(B)
  BY BeginFacts
<1>4. RoundRoom(g.live, w)
  BY <1>3, RoomFacts DEF TransmitBlocks, RoundRoom, Kinds
<1>5. PICK r : r = Transmit(g, n, w)
  OBVIOUS
<1>6. LeavesLost(g.live, r)
  BY <1>2, <1>3, <1>4, <1>5, TransmitLeaves
<1> QED BY <1>1, <1>3, <1>5, <1>6, ReturnLeaves

\* An operation is made, signed and published in one call.
LEMMA PublishKeeps ==
  ASSUME HostInv, NEW s \in Slots, Publish(s)
  PROVE  HostInv'
<1>1. PICK built \in {"none", "operation", "closed", "head", "hex", "position", "build", "sign"},
           w \in Rounds : ~w.factory /\ Ends(Writing(Begin, built, w))
  BY DEF Publish
<1>2. PICK g : g = Begin /\ g \in Guests /\ g.live = guest.live
  BY BeginFacts
<1>3. \A k \in Kinds : Free(g.live, k)
  BY <1>2, RoomFacts DEF Publish
<1>4. PICK r : r = Writing(g, built, w)
  OBVIOUS
<1>5. LeavesLost(g.live, r)
  BY <1>1, <1>2, <1>3, <1>4, WritingLeaves
<1> QED BY <1>1, <1>2, <1>4, <1>5, ReturnLeaves

-----------------------------------------------------------------------------
\* The constructor of UserClient leaves one account open.
LEMMA InitHolds ==
  ASSUME Init
  PROVE  HostInv
<1> DEFINE g == Put(Fresh, "account").g
           h == Put(Fresh, "account").h
           L == Fresh.live
<1>1. "account" \in Kinds /\ "account" \in Keepable /\ Fresh \in Guests /\ L \in Lives
      /\ \A k \in Kinds : L[k] = {}
  BY MaxHandleAssumption DEF Kinds, Keepable, Fresh, Guests, Lives
<1>2. 1 \in Handles /\ 1 \in Slots
  BY MaxHandleAssumption, HostBounds DEF Handles, Slots
<1>3. Free(L, "account") /\ Holds(L, "account", Put(Fresh, "account"))
  BY <1>1, <1>2, PutHolds DEF Free
<1>4. h = 1
  <2>1. h = NextHandle(0, {})
    BY <1>1 DEF Put, Fresh
  <2>2. \A i \in Handles : Distance(0, i) = i
    BY DEF Distance, Handles
  <2>3. \A i \in Handles : 1 <= i /\ (\A j \in Handles : i <= j) => i = 1
    BY <1>2 DEF Handles
  <2>4. /\ \A j \in Handles \ {} : Distance(0, 1) <= Distance(0, j)
        /\ \A i \in Handles \ {} : (\A j \in Handles \ {} : Distance(0, i) <= Distance(0, j)) => i = 1
    BY <1>2, <2>2, <2>3 DEF Handles
  <2> QED BY <1>2, <2>1, <2>4 DEF NextHandle
<1>5. g \in Guests /\ g.live = Plus(L, "account", 1)
  BY <1>3, <1>4 DEF Holds
<1> HIDE DEF g, h
<1>6. PICK o, p, d : /\ o = [s \in Slots |-> Closed]
                     /\ p = [o EXCEPT ![1] = [kind |-> "account", h |-> 1]]
                     /\ d = NoneLost
  OBVIOUS
<1>7. o \in Objects /\ d \in Drops /\ d \in Lives /\ Accounted(o, L, d, {})
  <2>1. d \in Drops /\ d \in Lives
    BY <1>1, <1>6, AlsoNone DEF Drops
  <2>2. \A k \in Kinds : d[k] = {}
    BY <1>6 DEF NoneLost
  <2> QED BY <1>1, <1>6, <2>1, <2>2 DEF Objects, Accounted
<1>8. p \in Objects /\ Accounted(p, Plus(L, "account", 1), d, {})
  <2>1. o[1] = Closed /\ 1 \notin L["account"]
    BY <1>1, <1>2, <1>6
  <2>2. PICK M : M = L
    OBVIOUS
  <2> QED BY <1>1, <1>2, <1>6, <1>7, <2>1, <2>2, AccountedOpen
<1>9. Sound(g, p, d, {}, "no")
  BY <1>5, <1>6, <1>7, <1>8 DEF Sound, Exceptions
<1>10. objects = p
  BY <1>2, <1>6 DEF Init
<1> QED BY <1>6, <1>9, <1>10 DEF Init, HostInv, g

\* Every call keeps the invariant.
LEMMA NextKeeps ==
  ASSUME HostInv, [Next]_vars
  PROVE  HostInv'
<1>1. CASE UNCHANGED vars
  BY <1>1 DEF vars, HostInv
<1>2. CASE Next
  <2>1. CASE \E k \in {"account", "permissions", "certificate"} : Create(k)
    BY <2>1, CreateKeeps
  <2>2. CASE Generate
    BY <2>2, GenerateKeeps
  <2>3. CASE NewOperation
    BY <2>3, NewOperationKeeps
  <2>4. CASE NewBuilder
    BY <2>4, NewBuilderKeeps
  <2>5. CASE TransmitBlocks
    BY <2>5, TransmitBlocksKeeps
  <2>6. ASSUME NEW s \in Slots,
               \/ Read(s) \/ Derive(s) \/ Close(s) \/ Step(s)
               \/ StepWithClosed(s) \/ Build(s) \/ Sign(s) \/ Publish(s)
        PROVE  HostInv'
    <3>1. CASE Read(s)
      BY <3>1, ReadKeeps
    <3>2. CASE Derive(s)
      BY <3>2, DeriveKeeps
    <3>3. CASE Close(s)
      BY <3>3, CloseKeeps
    <3>4. CASE Step(s)
      BY <3>4, StepKeeps
    <3>5. CASE StepWithClosed(s)
      BY <3>5, StepWithClosedKeeps
    <3>6. CASE Build(s)
      BY <3>6, BuildKeeps
    <3>7. CASE Publish(s)
      BY <3>7, PublishKeeps
    <3>8. CASE Sign(s)
      BY <3>8, SignKeeps
    <3> QED BY <2>6, <3>1, <3>2, <3>3, <3>4, <3>5, <3>6, <3>7, <3>8
  <2> QED BY <1>2, <2>1, <2>2, <2>3, <2>4, <2>5, <2>6 DEF Next, Call
<1> QED BY <1>1, <1>2

\* Between two calls of the SDK, the live handles of the core module are
\* divided among the open Java objects and the builders and operations whose
\* reference the SDK dropped; an open object without a live handle of its own is
\* an unsigned block that names the handle of one whose signing was refused.
THEOREM HostInvariant == Spec => []HostInv
<1>1. Init => HostInv
  BY InitHolds
<1>2. HostInv /\ [Next]_vars => HostInv'
  BY NextKeeps
<1> QED BY <1>1, <1>2, PTL DEF Spec

\* An open Java object names a live guest object that no other one names,
\* however many handles the registry can give out, however often its counter has
\* wrapped and whatever failed before, unless it is an unsigned block that names
\* the handle of one whose signing was refused (Block.java, build and sign).
THEOREM HandlesResolveHolds == Spec => []HandlesResolve
<1>1. HostInv => HandlesResolve
  <2> SUFFICES ASSUME HostInv PROVE HandlesResolve
    OBVIOUS
  <2>1. PICK o, L, d, x : o = objects /\ L = guest.live /\ d = lost /\ x = spent
    OBVIOUS
  <2>2. o \in Objects /\ Accounted(o, L, d, x)
    BY <2>1 DEF HostInv, Sound
  <2>3. \A s \in Slots : Spoiled(s) <=> Dead(x, o[s].kind, o[s].h)
    BY <2>1 DEF Spoiled, Dead
  <2>4. ASSUME NEW s \in Slots, o[s] # Closed, ~Spoiled(s), NEW t \in Slots, t # s, o[t].kind = o[s].kind
        PROVE  o[t].h # o[s].h
    <3>1. o[t] # Closed
      BY <2>2, <2>4 DEF Objects, Keepable, Closed
    <3> QED BY <2>2, <2>3, <2>4, <3>1 DEF Accounted
  <2>5. ASSUME NEW s \in Slots, o[s] # Closed, ~Spoiled(s)
        PROVE  o[s].h \in L[o[s].kind]
    BY <2>2, <2>3, <2>5 DEF Accounted
  <2> QED BY <2>1, <2>4, <2>5 DEF HandlesResolve
<1> QED BY <1>1, HostInvariant, PTL

\* Whatever fails in the middle of a fee block, a round or a publication, what
\* it made on the way is released: a live guest object is one of an open Java
\* object, but for operations and builders whose reference the SDK dropped.
THEOREM LiveIsAccountedHolds == Spec => []LiveIsAccounted
<1>1. HostInv => LiveIsAccounted
  <2> SUFFICES ASSUME HostInv, NEW k \in Kinds
               PROVE  /\ guest.live[k] \subseteq Owned(k) \cup lost[k]
                      /\ k \notin {"operation", "builder"} => lost[k] = {}
    BY DEF LiveIsAccounted
  <2>1. objects \in Objects /\ Accounted(objects, guest.live, lost, spent) /\ lost \in Drops
    BY DEF HostInv, Sound
  <2>2. k # "none"
    BY DEF Kinds
  <2>3. \A h : h \in Owned(k) <=>
                 \E s \in Slots : objects[s] # Closed /\ objects[s].kind = k /\ objects[s].h = h
    BY <2>2 DEF Owned, Open, Closed
  <2>4. \A h \in guest.live[k] : h \in lost[k] \/ h \in Owned(k)
    BY <2>1, <2>3 DEF Accounted
  <2>5. k \notin {"operation", "builder"} => lost[k] = {}
    BY <2>1 DEF Drops
  <2> QED BY <2>4, <2>5
<1> QED BY <1>1, HostInvariant, PTL

\* A coded error that is thrown was recorded by the call that failed.
THEOREM ErrorIsFreshHolds == Spec => []ErrorIsFresh
<1>1. HostInv => ErrorIsFresh
  BY DEF HostInv, Sound, ErrorIsFresh
<1> QED BY <1>1, HostInvariant, PTL

-----------------------------------------------------------------------------
(* Blocks.                                                                 *)

\* A sealed block was valid.
SealedIsValid == block.ok => Sealing!Valid(block.data)

\* What is staged comes from the catalogue, and so do the grants of a sealed
\* block, up to the permissions they grant.
SealInv ==
  /\ DOMAIN draft = DOMAIN Sealing!NewDraft(Sealing!NoAccount, "known")
  /\ draft.ops \in Seq(Catalogue)
  /\ block.ok =>
       \A g \in Sealing!Grants(block.data) : g.target = Sealing!NoAccount \/ g.target.type # "none"

-----------------------------------------------------------------------------
(* Flags and what a set of them confers.                                   *)

\* OWNER and ADMIN are not for everybody (rule_for).
LEMMA OwnerAndAdmin ==
  /\ "Owner" \in Sealing!Flags /\ "Admin" \in Sealing!Flags
  /\ ~Sealing!RuleFor["Owner"].default /\ ~Sealing!RuleFor["Admin"].default
<1>1. DOMAIN Sealing!FlagOrder = 1..15 /\ Sealing!FlagOrder[2] = "Owner" /\ Sealing!FlagOrder[3] = "Admin"
  BY DEF Sealing!FlagOrder
<1>2. "Owner" \in Sealing!Flags /\ "Admin" \in Sealing!Flags
  BY <1>1 DEF Sealing!Flags
<1> QED BY <1>2 DEF Sealing!RuleFor, Sealing!Rule

\* A set all of whose flags are for everybody confers no other flag.
LEMMA DefaultConfers ==
  ASSUME NEW p, Sealing!ValidForDefault(p), NEW f \in Sealing!Conferred(p)
  PROVE  Sealing!RuleFor[f].default
<1>1. Sealing!Has(p, {f}, {})
  BY DEF Sealing!Conferred
<1>2. "Owner" \notin p.base /\ "Admin" \notin p.base
  BY OwnerAndAdmin DEF Sealing!ValidForDefault
<1>3. f \in p.base
  BY <1>1, <1>2 DEF Sealing!Has
<1> QED BY <1>3 DEF Sealing!ValidForDefault

\* A set that does not grant ADMIN confers its own flags only.
LEMMA PlainConfers ==
  ASSUME NEW p, ~Sealing!Has(p, {"Admin"}, {}), NEW f \in Sealing!Conferred(p)
  PROVE  f \in p.base /\ f \in Sealing!Flags
  BY DEF Sealing!Conferred, Sealing!Has

\* A set that grants OWNER grants ADMIN.
LEMMA OwnerIsAdmin ==
  ASSUME NEW p, Sealing!Has(p, {"Owner"}, {})
  PROVE  Sealing!Has(p, {"Admin"}, {})
  BY DEF Sealing!Has

\* The group of a set of flags is that of each flag that is not for any account,
\* unless it is Never or the groups mix.
LEMMA GroupOfEach ==
  ASSUME NEW flagSet, NEW f \in Sealing!Flags, f \in flagSet,
         Sealing!RuleFor[f].target # "Any",
         Sealing!FlagGroup("target", flagSet) \notin {"mixed", "Never"}
  PROVE  Sealing!FlagGroup("target", flagSet) = Sealing!RuleFor[f].target
<1> DEFINE group(i) == Sealing!RuleFor[Sealing!FlagOrder[i]].target
           seen  == {i \in DOMAIN Sealing!FlagOrder : Sealing!FlagOrder[i] \in flagSet /\ group(i) # "Any"}
           kept  == CHOOSE i \in seen : \A j \in seen : i <= j
           stops == {i \in seen : group(i) = "Never" \/ group(i) # group(kept)}
           first == CHOOSE i \in stops : \A j \in stops : i <= j
<1>1. PICK n \in DOMAIN Sealing!FlagOrder : Sealing!FlagOrder[n] = f
  BY DEF Sealing!Flags
<1>2. n \in seen
  BY <1>1
<1>3. Sealing!FlagGroup("target", flagSet) =
        CASE seen = {} -> "Any"
          [] seen # {} /\ stops = {} -> group(kept)
          [] OTHER -> IF group(first) = "Never" THEN "Never" ELSE "mixed"
  BY DEF Sealing!FlagGroup
<1>4. n \notin stops => group(n) = group(kept)
  BY <1>2
<1>5. group(n) = Sealing!RuleFor[f].target
  BY <1>1
<1> HIDE DEF group, seen, kept, stops, first
<1>6. stops = {}
  BY <1>2, <1>3
<1> QED BY <1>2, <1>3, <1>4, <1>5, <1>6

\* Flags that match an account as a group match it each.
LEMMA EachMatches ==
  ASSUME NEW p, NEW type, type # "none", Sealing!CheckMatches(p, "target", type),
         NEW f \in Sealing!Flags, f \in p.base
  PROVE  Sealing!MatchesGroup(Sealing!RuleFor[f].target, type)
<1>1. Sealing!FlagGroup("target", p.base) # "mixed" /\ Sealing!MatchesGroup(Sealing!FlagGroup("target", p.base), type)
  BY DEF Sealing!CheckMatches
<1>2. CASE Sealing!RuleFor[f].target = "Any"
  BY <1>2 DEF Sealing!MatchesGroup
<1>3. CASE Sealing!RuleFor[f].target # "Any"
  <2>1. Sealing!FlagGroup("target", p.base) # "Never"
    BY <1>1 DEF Sealing!MatchesGroup
  <2>2. Sealing!FlagGroup("target", p.base) = Sealing!RuleFor[f].target
    BY <1>1, <1>3, <2>1, GroupOfEach
  <2> QED BY <1>1, <2>2
<1> QED BY <1>2, <1>3

\* Normalising more flags confers no less.
LEMMA NormalizeConfers ==
  ASSUME NEW F, NEW g, NEW external, NEW more
  PROVE  Sealing!Conferred([ok |-> TRUE, base |-> Sealing!Normalize(F), external |-> external])
           \subseteq Sealing!Conferred([ok |-> TRUE, base |-> Sealing!Normalize(F \cup {g}), external |-> more])
<1> DEFINE G == F \cup {g}
           p == [ok |-> TRUE, base |-> Sealing!Normalize(F), external |-> external]
           q == [ok |-> TRUE, base |-> Sealing!Normalize(G), external |-> more]
<1> SUFFICES ASSUME NEW f \in Sealing!Conferred(p) PROVE f \in Sealing!Conferred(q)
  OBVIOUS
<1>1. f \in Sealing!Flags /\ Sealing!Has(p, {f}, {}) /\ p.base = Sealing!Normalize(F) /\ q.base = Sealing!Normalize(G)
  BY DEF Sealing!Conferred
<1>2. /\ "Access" \in Sealing!Normalize(F)
      /\ \/ "Owner" \in Sealing!Normalize(F)
         \/ f # "Owner" /\ "Admin" \in Sealing!Normalize(F)
         \/ f \in Sealing!Normalize(F)
  BY <1>1 DEF Sealing!Has
<1> HIDE DEF p, q
<1>3. F # {} /\ G # {}
  BY <1>2 DEF Sealing!Normalize
<1>4. "Access" \in Sealing!Normalize(G)
  BY <1>3 DEF Sealing!Normalize
<1>5. \/ "Owner" \in Sealing!Normalize(G)
      \/ f # "Owner" /\ "Admin" \in Sealing!Normalize(G)
      \/ f \in Sealing!Normalize(G)
  <2>1. CASE "Owner" \in G
    BY <2>1 DEF Sealing!Normalize
  <2>2. CASE "Owner" \notin G /\ "Admin" \in G
    <3>1. "Admin" \in Sealing!Normalize(G)
      BY <2>2 DEF Sealing!Normalize
    <3>2. f # "Owner"
      BY <1>2, <2>2 DEF Sealing!Normalize
    <3> QED BY <3>1, <3>2
  <2>3. CASE "Owner" \notin G /\ "Admin" \notin G
    BY <1>2, <1>3, <2>3 DEF Sealing!Normalize
  <2> QED BY <2>1, <2>2, <2>3
<1> QED BY <1>1, <1>4, <1>5 DEF Sealing!Conferred, Sealing!Has

-----------------------------------------------------------------------------
(* What the rules of a valid block say of its grants.                      *)

\* The default permissions of a valid block, and what it grants to whoever
\* holds a certificate, are flags for everybody.
LEMMA ValidDefaults ==
  ASSUME NEW c, Sealing!Valid(c),
         NEW p \in Sealing!Defaults(c) \cup
                   {g.permissions : g \in {h \in Sealing!Grants(c) : h.principal.certificate # "none"}}
  PROVE  Sealing!ValidForDefault(p)
<1>1. CASE p \in Sealing!Defaults(c)
  <2>1. PICK i \in DOMAIN c.ops :
          c.ops[i].op = "setInfo" /\ Sealing!Confers(c.ops[i]) /\ p = c.ops[i].default
    BY <1>1 DEF Sealing!Defaults
  <2>2. Sealing!SetInfoOk(c, c.ops[i]) /\ c.ops[i].default.ok
    BY <2>1 DEF Sealing!Valid, Sealing!OperationOk, Sealing!Confers
  <2> QED BY <2>1, <2>2 DEF Sealing!SetInfoOk
<1>2. CASE p \in {g.permissions : g \in {h \in Sealing!Grants(c) : h.principal.certificate # "none"}}
  <2>1. PICK i \in DOMAIN c.ops :
          /\ c.ops[i].op = "modifyPermissions" /\ Sealing!Confers(c.ops[i])
          /\ c.ops[i].principal.certificate # "none" /\ p = c.ops[i].permissions
    BY <1>2 DEF Sealing!Grants
  <2>2. Sealing!ModifyPermissionsOk(c, c.ops[i]) /\ c.ops[i].permissions.ok
    BY <2>1 DEF Sealing!Valid, Sealing!OperationOk, Sealing!Confers
  <2>3. Sealing!PayloadOk(c, c.ops[i])
    BY <2>2 DEF Sealing!ModifyPermissionsOk
  <2> QED BY <2>1, <2>3 DEF Sealing!PayloadOk
<1> QED BY <1>1, <1>2

\* A grant of a valid block passed the checks of its payload.
LEMMA ValidGrants ==
  ASSUME NEW c, Sealing!Valid(c), NEW g \in Sealing!Grants(c)
  PROVE  Sealing!PayloadOk(c, g)
<1>1. PICK i \in DOMAIN c.ops :
        c.ops[i].op = "modifyPermissions" /\ Sealing!Confers(c.ops[i]) /\ g = c.ops[i]
  BY DEF Sealing!Grants
<1>2. Sealing!ModifyPermissionsOk(c, g) /\ g.permissions.ok
  BY <1>1 DEF Sealing!Valid, Sealing!OperationOk, Sealing!Confers
<1> QED BY <1>2 DEF Sealing!ModifyPermissionsOk

-----------------------------------------------------------------------------
(* The invariant.                                                          *)

\* The operations of the data to be sealed are those staged, with the collected
\* flags in place of those they grant.
LEMMA DataGrants ==
  ASSUME SealInv, NEW g \in Sealing!Grants(Sealing!Data)
  PROVE  g.target = Sealing!NoAccount \/ g.target.type # "none"
<1> DEFINE p == Sealing!FromFlags(flags, {})
           granted == [i \in DOMAIN draft.ops |-> Sealing!Granting(draft.ops[i], p)]
<1>1. "ops" \in DOMAIN draft
  BY DEF SealInv, Sealing!NewDraft
<1>2. Sealing!Data.ops = granted
  BY <1>1 DEF Sealing!Data
<1>3. PICK i \in DOMAIN draft.ops :
        g = Sealing!Granting(draft.ops[i], p) /\ g.op = "modifyPermissions"
  BY <1>2 DEF Sealing!Grants
<1> DEFINE op == draft.ops[i]
<1>4. op \in Catalogue
  BY <1>3 DEF SealInv
<1> HIDE DEF op, p
<1>5. CASE ~Sealing!Confers(op)
  BY <1>3, <1>4, <1>5, CatalogueAssumption DEF Sealing!Granting, op
<1>6. CASE Sealing!Confers(op) /\ op.op = "setInfo"
  <2>1. g = [op EXCEPT !.default = p]
    BY <1>3, <1>6 DEF Sealing!Granting, op
  <2> QED BY <1>3, <1>6, <2>1
<1>7. CASE Sealing!Confers(op) /\ op.op = "modifyPermissions"
  <2>1. g = [op EXCEPT !.permissions = [p EXCEPT !.external = op.permissions.external]]
    BY <1>3, <1>7 DEF Sealing!Granting, op
  <2>2. "target" \in DOMAIN op /\ (op.target = Sealing!NoAccount \/ op.target.type # "none")
    BY <1>4, <1>7, CatalogueAssumption
  <2>3. g.target = op.target
    BY <2>1, <2>2
  <2> QED BY <2>2, <2>3
<1> QED BY <1>5, <1>6, <1>7 DEF Sealing!Confers

\* Nothing is staged or sealed at first.
LEMMA SealInit == Sealing!Init => SealInv
<1> SUFFICES ASSUME Sealing!Init PROVE SealInv
  OBVIOUS
<1>1. PICK start \in Starts : draft = Sealing!NewDraft(start[1], start[2])
  BY DEF Sealing!Init
<1>2. DOMAIN draft = DOMAIN Sealing!NewDraft(Sealing!NoAccount, "known") /\ draft.ops = << >>
  BY <1>1 DEF Sealing!NewDraft
<1>3. ~block.ok
  BY DEF Sealing!Init, Sealing!NoBlock
<1> QED BY <1>2, <1>3 DEF SealInv

\* Staging changes one field of the draft.
LEMMA StageKeeps ==
  ASSUME SealInv, NEW change, Sealing!Stage(change),
         DOMAIN change = DOMAIN draft, change.ops \in Seq(Catalogue)
  PROVE  SealInv'
<1>1. draft' = change /\ block' = block
  BY DEF Sealing!Stage
<1> QED BY <1>1 DEF SealInv

\* Every step keeps it.
LEMMA SealStep == SealInv /\ [Sealing!Next]_(Sealing!vars) => SealInv'
<1> SUFFICES ASSUME SealInv, [Sealing!Next]_(Sealing!vars) PROVE SealInv'
  OBVIOUS
<1>0. /\ DOMAIN draft = DOMAIN Sealing!NewDraft(Sealing!NoAccount, "known") /\ draft.ops \in Seq(Catalogue)
      /\ "ops" \in DOMAIN draft
  BY DEF SealInv, Sealing!NewDraft
<1>1. ASSUME NEW v \in {1, 2}, Sealing!WithVersion(v) PROVE SealInv'
  BY <1>0, <1>1, StageKeeps DEF Sealing!WithVersion
<1>2. ASSUME NEW v \in {"generic", "fee"}, Sealing!WithPurpose(v) PROVE SealInv'
  BY <1>0, <1>2, StageKeeps DEF Sealing!WithPurpose
<1>3. ASSUME NEW v \in {"some", "negative"}, Sealing!WithSubnet(v) PROVE SealInv'
  BY <1>0, <1>3, StageKeeps DEF Sealing!WithSubnet
<1>4. ASSUME NEW v \in {"some", "long"}, Sealing!WithIdempotent(v) PROVE SealInv'
  BY <1>0, <1>4, StageKeeps DEF Sealing!WithIdempotent
<1>5. ASSUME NEW v \in {0, 1}, Sealing!WithPrevious(v) PROVE SealInv'
  BY <1>0, <1>5, StageKeeps DEF Sealing!WithPrevious
<1>6. ASSUME NEW v \in BOOLEAN, Sealing!WithDate(v) PROVE SealInv'
  BY <1>0, <1>6, StageKeeps DEF Sealing!WithDate
<1>7. ASSUME NEW v \in Signers, Sealing!WithSigner(v) PROVE SealInv'
  BY <1>0, <1>7, StageKeeps DEF Sealing!WithSigner
<1>8. ASSUME NEW op \in Catalogue, Sealing!WithOperation(op) PROVE SealInv'
  <2> DEFINE more == [draft EXCEPT !.ops = Append(draft.ops, op)]
  <2>1. DOMAIN more = DOMAIN draft /\ more.ops = Append(draft.ops, op)
    BY <1>0
  <2>2. more.ops \in Seq(Catalogue)
    BY <1>0, <2>1
  <2>3. Sealing!Stage(more)
    BY <1>8 DEF Sealing!WithOperation
  <2> HIDE DEF more
  <2> QED BY <2>1, <2>2, <2>3, StageKeeps
<1>9. ASSUME NEW f \in Sealing!Flags, Sealing!Collect(f) PROVE SealInv'
  BY <1>9 DEF Sealing!Collect, SealInv
<1>10. ASSUME NEW how \in {"sign", "reversed", "short"}, Sealing!BuildAndSign(how) PROVE SealInv'
  <2>1. /\ draft' = draft
        /\ \/ block' = Sealing!NoBlock
           \/ block' = [ok |-> TRUE, data |-> Sealing!Data,
                        signatures |-> Sealing!Arrange(how, Sealing!SignaturesOf(Sealing!Data))]
    BY <1>10 DEF Sealing!BuildAndSign
  <2>2. \A g \in Sealing!Grants(Sealing!Data) : g.target = Sealing!NoAccount \/ g.target.type # "none"
    BY DataGrants
  <2>3. CASE block' = Sealing!NoBlock
    <3>1. ~block'.ok
      BY <2>3 DEF Sealing!NoBlock
    <3> QED BY <1>0, <2>1, <3>1 DEF SealInv
  <2>4. CASE block' = [ok |-> TRUE, data |-> Sealing!Data,
                       signatures |-> Sealing!Arrange(how, Sealing!SignaturesOf(Sealing!Data))]
    <3>1. PICK c : c = Sealing!Data
      OBVIOUS
    <3>2. block'.data = c
      BY <2>4, <3>1
    <3>3. \A g \in Sealing!Grants(c) : g.target = Sealing!NoAccount \/ g.target.type # "none"
      BY <2>2, <3>1
    <3>4. \A g \in Sealing!Grants(block'.data) : g.target = Sealing!NoAccount \/ g.target.type # "none"
      BY <3>2, <3>3
    <3> QED BY <1>0, <2>1, <3>4 DEF SealInv
  <2> QED BY <2>1, <2>3, <2>4
<1>11. ASSUME NEW how \in {"encoded", "signer", "bits", "certificate"}, Sealing!Send(how) PROVE SealInv'
  BY <1>11 DEF Sealing!Send, SealInv
<1>12. CASE Sealing!Receive
  BY <1>12 DEF Sealing!Receive, SealInv
<1>13. CASE UNCHANGED Sealing!vars
  BY <1>13 DEF Sealing!vars, SealInv
<1> QED BY <1>1, <1>2, <1>3, <1>4, <1>5, <1>6, <1>7, <1>8, <1>9, <1>10, <1>11, <1>12, <1>13
    DEF Sealing!Next

\* A step that seals a block validates it first, and no step changes one.
LEMMA SealedStep == SealedIsValid /\ [Sealing!Next]_(Sealing!vars) => SealedIsValid'
<1> SUFFICES ASSUME SealedIsValid, [Sealing!Next]_(Sealing!vars) PROVE SealedIsValid'
  OBVIOUS
<1>1. CASE block' = block
  BY <1>1 DEF SealedIsValid
<1>2. ASSUME NEW how \in {"sign", "reversed", "short"}, Sealing!BuildAndSign(how)
      PROVE  SealedIsValid'
  <2>1. \/ block' = Sealing!NoBlock
        \/ /\ Sealing!Valid(Sealing!Data)
           /\ block' = [ok |-> TRUE, data |-> Sealing!Data,
                        signatures |-> Sealing!Arrange(how, Sealing!SignaturesOf(Sealing!Data))]
    BY <1>2 DEF Sealing!BuildAndSign
  <2>2. CASE block' = Sealing!NoBlock
    BY <2>2 DEF Sealing!NoBlock, SealedIsValid
  <2>3. CASE /\ Sealing!Valid(Sealing!Data)
             /\ block' = [ok |-> TRUE, data |-> Sealing!Data,
                          signatures |-> Sealing!Arrange(how, Sealing!SignaturesOf(Sealing!Data))]
    <3>1. PICK c : c = Sealing!Data
      OBVIOUS
    <3>2. block'.data = c /\ Sealing!Valid(c)
      BY <2>3, <3>1
    <3>3. Sealing!Valid(block'.data)
      BY <3>2
    <3> QED BY <3>3 DEF SealedIsValid
  <2> QED BY <2>1, <2>2, <2>3
<1> QED BY <1>1, <1>2
    DEF Sealing!Next, Sealing!vars, Sealing!Collect, Sealing!Send, Sealing!Receive,
        Sealing!Stage, Sealing!WithVersion, Sealing!WithPurpose, Sealing!WithSubnet,
        Sealing!WithIdempotent, Sealing!WithPrevious, Sealing!WithDate, Sealing!WithSigner,
        Sealing!WithOperation

\* The steps of the other parts leave blocks alone.
LEMMA OnlySealing == [LocalNext]_localVars => [Sealing!Next]_(Sealing!vars)
<1>1. UNCHANGED sealVars <=> UNCHANGED Sealing!vars
  BY DEF sealVars, Sealing!vars
<1> QED BY <1>1 DEF localVars, LocalNext, HostSteps, SealSteps, BuildSteps, AccountSteps

\* Whatever was sealed had passed validation (TryFrom<BlockParts> for Block).
THEOREM SealedIsValidHolds == LocalSpec => []SealedIsValid
<1>1. LocalInit => SealedIsValid
  BY DEF LocalInit, Sealing!Init, Sealing!NoBlock, SealedIsValid
<1> QED BY <1>1, SealedStep, OnlySealing, PTL DEF LocalSpec

\* The grants of a sealed block are staged ones, whatever flags were collected
\* for them.
THEOREM SealInvariant == LocalSpec => []SealInv
<1>1. LocalInit => SealInv
  BY SealInit DEF LocalInit
<1> QED BY <1>1, SealStep, OnlySealing, PTL DEF LocalSpec

\* The default permissions a sealed block sets, and those it grants to whoever
\* holds a certificate, confer only flags for everybody, the flags that OWNER
\* and ADMIN imply included (is_valid_for_default).
THEOREM DefaultsAreHarmlessHolds == LocalSpec => []DefaultsAreHarmless
<1>1. ASSUME SealedIsValid PROVE DefaultsAreHarmless
  <2> SUFFICES ASSUME block.ok,
                      NEW p \in Sealing!Defaults(block.data) \cup
                        {g.permissions : g \in {h \in Sealing!Grants(block.data) :
                                                  h.principal.certificate # "none"}},
                      NEW f \in Sealing!Conferred(p)
               PROVE  Sealing!RuleFor[f].default
    BY DEF DefaultsAreHarmless, Sealing!DefaultsAreHarmless
  <2>1. Sealing!Valid(block.data)
    BY <1>1 DEF SealedIsValid
  <2>2. Sealing!ValidForDefault(p)
    BY <2>1, ValidDefaults
  <2> QED BY <2>2, DefaultConfers
<1> QED BY <1>1, SealedIsValidHolds, PTL

\* A grant of a sealed block that names a target confers only flags that fit
\* it, and one that is not a SET confers no power to delegate
\* (check_account_matches_group, can_use_delegation).
THEOREM ScopedGrantsHolds == LocalSpec => []ScopedGrants
<1>1. ASSUME SealInv, SealedIsValid PROVE ScopedGrants
  <2> SUFFICES ASSUME block.ok, NEW g \in Sealing!Grants(block.data)
               PROVE  /\ g.target # Sealing!NoAccount =>
                           \A f \in Sealing!Conferred(g.permissions) :
                             Sealing!MatchesGroup(Sealing!RuleFor[f].target, g.target.type)
                      /\ g.method # "set" =>
                           Sealing!Conferred(g.permissions) \cap
                             {"Owner", "Admin", "PermissionDelegateAdd",
                              "PermissionDelegateRemove"} = {}
    BY DEF ScopedGrants, Sealing!ScopedGrants
  <2>1. Sealing!Valid(block.data) /\ (g.target = Sealing!NoAccount \/ g.target.type # "none")
    BY <1>1 DEF SealInv, SealedIsValid
  <2>2. Sealing!PayloadOk(block.data, g)
    BY <2>1, ValidGrants
  <2>3. ASSUME g.target # Sealing!NoAccount, NEW f \in Sealing!Conferred(g.permissions)
        PROVE  Sealing!MatchesGroup(Sealing!RuleFor[f].target, g.target.type)
    <3>1. Sealing!CheckMatches(g.permissions, "target", g.target.type) /\ ~Sealing!Has(g.permissions, {"Admin"}, {})
      BY <2>2, <2>3 DEF Sealing!PayloadOk
    <3>2. f \in g.permissions.base /\ f \in Sealing!Flags
      BY <3>1, <2>3, PlainConfers
    <3> QED BY <2>1, <2>3, <3>1, <3>2, EachMatches
  <2>4. ASSUME g.method # "set",
               NEW f \in {"Owner", "Admin", "PermissionDelegateAdd", "PermissionDelegateRemove"},
               f \in Sealing!Conferred(g.permissions)
        PROVE  FALSE
    <3>1. Sealing!CanUseDelegation(g.permissions)
      BY <2>2, <2>4 DEF Sealing!PayloadOk
    <3>2. Sealing!Has(g.permissions, {f}, {})
      BY <2>4 DEF Sealing!Conferred
    <3>3. f # "Owner"
      BY <3>1, <3>2, OwnerIsAdmin DEF Sealing!CanUseDelegation
    <3> QED BY <2>4, <3>1, <3>2, <3>3 DEF Sealing!CanUseDelegation
  <2> QED BY <2>3, <2>4
<1> QED BY <1>1, SealInvariant, SealedIsValidHolds, PTL

\* Collecting one more flag never takes away what the flags so far conferred
\* (TryFrom<BigInt> for BaseSet).
THEOREM CollectingConfersMoreHolds == LocalSpec => CollectingConfersMore
<1>1. ASSUME [Sealing!Next]_(Sealing!vars), flags # flags', ~Sealing!Mixed(flags')
      PROVE  Sealing!Conferred(Sealing!FromFlags(flags, {})) \subseteq Sealing!Conferred(Sealing!FromFlags(flags', {}))
  <2>1. PICK f \in Sealing!Flags : flags' = flags \cup {f}
    BY <1>1 DEF Sealing!Next, Sealing!vars, Sealing!Collect, Sealing!BuildAndSign,
                Sealing!Send, Sealing!Receive, Sealing!Stage, Sealing!WithVersion,
                Sealing!WithPurpose,
                Sealing!WithSubnet, Sealing!WithIdempotent, Sealing!WithPrevious,
                Sealing!WithDate, Sealing!WithSigner, Sealing!WithOperation
  <2>2. PICK F, G : F = flags /\ G = flags'
    OBVIOUS
  <2>3. G = F \cup {f} /\ ~Sealing!Mixed(G)
    BY <1>1, <2>1, <2>2
  <2>4. CASE Sealing!Mixed(F)
    <3>1. Sealing!FromFlags(F, {}) = Sealing!NoPermissions
      BY <2>4 DEF Sealing!FromFlags
    <3>2. Sealing!Conferred(Sealing!FromFlags(F, {})) = {}
      BY <3>1 DEF Sealing!Conferred, Sealing!Has, Sealing!NoPermissions
    <3> QED BY <2>2, <3>2
  <2>5. CASE ~Sealing!Mixed(F)
    <3>1. /\ Sealing!FromFlags(F, {}) = [ok |-> TRUE, base |-> Sealing!Normalize(F), external |-> {}]
          /\ Sealing!FromFlags(G, {}) = [ok |-> TRUE, base |-> Sealing!Normalize(G), external |-> {}]
      BY <2>3, <2>5 DEF Sealing!FromFlags
    <3>2. Sealing!Conferred(Sealing!FromFlags(F, {})) \subseteq Sealing!Conferred(Sealing!FromFlags(G, {}))
      BY <2>3, <3>1, NormalizeConfers
    <3> QED BY <2>2, <3>2
  <2> QED BY <2>4, <2>5
<1> QED BY <1>1, OnlySealing, PTL DEF LocalSpec, CollectingConfersMore,
    Sealing!CollectingConfersMore

-----------------------------------------------------------------------------
(* Accounts.                                                               *)

\* What an account is made of: a key of a curve is a point in its compressed
\* form, an identifier has 32 bytes and no private key.
SoundAccount(a) ==
  /\ a = Naming!NewAccount(a.type, a.key, a.private) /\ a.private \in BOOLEAN
  /\ \/ /\ a.type \in Naming!CryptoTypes
        /\ a.key = Naming!Bytes(Naming!Compressed(a.type), a.key.content)
        /\ a.key.content \in Points
     \/ /\ a.type \in Naming!IdentifierTypes /\ ~a.private
        /\ a.key = Naming!Bytes(32, a.key.content) /\ a.key.content \in Nat

\* The same identity; a conversion may lose the private key and never gains one.
SameAs(a, b) == a.type = b.type /\ a.key = b.key /\ (a.private => b.private)

\* The account at hand is the one it was made as, and made all signatures.
NameInv ==
  /\ ~failed
  /\ account = Naming!None => signed = {}
  /\ account # Naming!None =>
       /\ SoundAccount(account) /\ SoundAccount(origin) /\ SameAs(account, origin)
       /\ \A s \in signed : /\ account.type \in Naming!CryptoTypes
                            /\ s = [type |-> account.type, key |-> account.key]

\* An account that was made is one.
LEMMA SoundIsSome == ASSUME NEW a, SoundAccount(a) PROVE a # Naming!None
<1>1. a.type # 8
  BY DEF SoundAccount, Naming!CryptoTypes, Naming!IdentifierTypes, Naming!NETWORK, Naming!TOKEN,
         Naming!STORAGE, Naming!MULTISIG
<1> QED BY <1>1 DEF Naming!None

\* The two kinds of types exclude each other.
LEMMA KindsOfType ==
  /\ \A t \in Naming!CryptoTypes : t \notin Naming!IdentifierTypes /\ t \in Naming!KeyPairTypes
  /\ \A t \in Naming!IdentifierTypes : t \notin Naming!CryptoTypes /\ t \in Naming!KeyPairTypes
  /\ \A t \in Naming!KeyPairTypes :
       t \in Naming!CryptoTypes \/ t \in Naming!IdentifierTypes
  BY DEF Naming!KeyPairTypes, Naming!CryptoTypes, Naming!IdentifierTypes, Naming!NETWORK,
         Naming!TOKEN, Naming!STORAGE, Naming!MULTISIG

\* The second letter of an identifier's address is one that its type accepts.
LEMMA LetterFits ==
  ASSUME NEW text, text.type \in Naming!IdentifierTypes, text.key.content \in Nat
  PROVE  Naming!Letter(text) \in Naming!Prefixes(text.type)
<1>1. text.key.content % 4 \in 0..3
  OBVIOUS
<1>2. PICK n : n = text.key.content % 4
  OBVIOUS
<1>3. Naming!Letter(text) = (4 * text.type) + n /\ n \in {0, 1, 2, 3}
  BY <1>1, <1>2 DEF Naming!Letter
<1>4. text.type \in {2, 3, 4, 7}
  BY DEF Naming!IdentifierTypes, Naming!NETWORK, Naming!TOKEN, Naming!STORAGE, Naming!MULTISIG
<1>5. CASE text.type = 2
  BY <1>3, <1>5
     DEF Naming!Prefixes, Naming!NETWORK, Naming!TOKEN, Naming!STORAGE, Naming!MULTISIG
<1>6. CASE text.type = 3
  BY <1>3, <1>6
     DEF Naming!Prefixes, Naming!NETWORK, Naming!TOKEN, Naming!STORAGE, Naming!MULTISIG
<1>7. CASE text.type = 4
  BY <1>3, <1>7
     DEF Naming!Prefixes, Naming!NETWORK, Naming!TOKEN, Naming!STORAGE, Naming!MULTISIG
<1>8. CASE text.type = 7
  BY <1>3, <1>8
     DEF Naming!Prefixes, Naming!NETWORK, Naming!TOKEN, Naming!STORAGE, Naming!MULTISIG
<1> QED BY <1>4, <1>5, <1>6, <1>7, <1>8

\* A key in its compressed form is a key.
LEMMA CompressedFits ==
  ASSUME NEW t \in Naming!CryptoTypes, NEW c \in Points
  PROVE  Naming!PublicKey(t, Naming!Bytes(Naming!Compressed(t), c))
           = {Naming!Bytes(Naming!Compressed(t), c)}
  BY DEF Naming!PublicKey, Naming!Bytes, Naming!Compressed, Naming!KeyLength

\* What is printed of an account is read back as its public half.
LEMMA ReadBack ==
  ASSUME NEW a, SoundAccount(a)
  PROVE  LET public == {Naming!NewAccount(a.type, a.key, FALSE)}
         IN /\ Naming!OfPublicKeyString(a.type, Naming!ToPublicKeyString(a)) = public
            /\ Naming!FromHex(a.type, a.key) = public
            /\ Naming!ToHex(a) = a.key
            /\ Naming!FromStr(Naming!ToPublicKeyString(a)) = public
<1> DEFINE text == [type |-> a.type, sum |-> TRUE, key |-> a.key]
           public == {Naming!NewAccount(a.type, a.key, FALSE)}
<1>1. a.type \in Naming!IdentifierTypes => a.key.len = 32
  BY KindsOfType DEF SoundAccount, Naming!Bytes
<1>2. /\ Naming!ToPublicKeyString(a) = text
      /\ Naming!FormatPublicKeyString(a.key, a.type) = text
  BY <1>1 DEF Naming!ToPublicKeyString, Naming!FormatPublicKeyString
<1>3. text.type = a.type /\ text.key = a.key /\ text.sum
  OBVIOUS
<1>4. a.type \in Naming!KeyPairTypes
  BY KindsOfType DEF SoundAccount
<1> HIDE DEF text
<1>5. Naming!Decodes(text) /\ Naming!Parses(text)
  BY <1>3, <1>4 DEF Naming!Parses, Naming!Decodes
<1>6. Naming!OfPublicKeyString(a.type, text) = public
  <2>1. CASE a.type \in Naming!CryptoTypes
    <3>1. Naming!PublicKey(a.type, a.key) = {a.key}
      <4>1. /\ a.key = Naming!Bytes(Naming!Compressed(a.type), a.key.content)
            /\ a.key.content \in Points
        BY <2>1, KindsOfType DEF SoundAccount
      <4>2. PICK k, c : k = a.key /\ c = a.key.content
        OBVIOUS
      <4> QED BY <2>1, <4>1, <4>2, CompressedFits
    <3> QED BY <1>3, <1>5, <2>1, <3>1 DEF Naming!OfPublicKeyString
  <2>2. CASE a.type \in Naming!IdentifierTypes
    <3>1. Naming!IdentifierKey(text.key) = {a.key}
      BY <1>1, <1>3, <2>2 DEF Naming!IdentifierKey
    <3>2. Naming!Letter(text) \in Naming!Prefixes(a.type)
      BY <1>3, <2>2, LetterFits, KindsOfType DEF SoundAccount
    <3> QED BY <1>5, <2>2, <3>1, <3>2, KindsOfType DEF Naming!OfPublicKeyString
  <2> QED BY <1>4, <2>1, <2>2, KindsOfType
<1>7. Naming!FromHex(a.type, a.key) = public
  <2>1. CASE a.type \in Naming!CryptoTypes
    BY <1>3, <1>5, <1>6, <2>1
       DEF Naming!FromHex, Naming!OfPublicKey, Naming!OfPublicKeyString
  <2>2. CASE a.type \in Naming!IdentifierTypes
    BY <1>2, <1>6, <2>2, KindsOfType DEF Naming!FromHex
  <2> QED BY <1>4, <2>1, <2>2, KindsOfType
<1>8. Naming!FromStr(text) = public
  BY <1>3, <1>5, <1>7 DEF Naming!FromStr
<1> QED BY <1>2, <1>3, <1>6, <1>7, <1>8 DEF Naming!ToHex

\* The public half of an account is an account.
LEMMA PublicHalf ==
  ASSUME NEW a, SoundAccount(a), NEW p \in BOOLEAN, p => a.type \in Naming!CryptoTypes
  PROVE  LET b == Naming!NewAccount(a.type, a.key, p)
         IN SoundAccount(b) /\ b.type = a.type /\ b.key = a.key /\ b.private = p
<1> DEFINE b == Naming!NewAccount(a.type, a.key, p)
<1>1. b.type = a.type /\ b.key = a.key /\ b.private = p
  BY DEF Naming!NewAccount
<1>2. b = Naming!NewAccount(b.type, b.key, b.private)
  BY <1>1
<1> HIDE DEF b
<1>3. SoundAccount(b)
  BY <1>1, <1>2, KindsOfType DEF SoundAccount
<1> QED BY <1>1, <1>3 DEF b

\* Whatever is made from outside material is an account.
LEMMA MadeIsSound ==
  ASSUME NEW t \in Naming!KeyPairTypes
  PROVE  /\ \A c \in Nat : \A a \in Naming!OfIdentifier(t, c) : SoundAccount(a) /\ a.type = t
         /\ \A c \in Points : \A a \in Naming!OfSeed(t, c) : SoundAccount(a) /\ a.type = t
         /\ \A c \in Points : Naming!OfPassphrase(t, c) \subseteq Naming!OfSeed(t, c)
         /\ \A m : \A a \in Naming!OfPrivateKey(t, m) \cup Naming!OfPublicKey(t, m) :
              SoundAccount(a) /\ a.type = t
         /\ \A text :
              (text.key.content \in Nat /\ text.key = Naming!Bytes(text.key.len, text.key.content))
                => \A a \in Naming!OfPublicKeyString(t, text) : SoundAccount(a) /\ a.type = t
<1>1. ASSUME t \in Naming!IdentifierTypes, NEW m, m.len = 32, m.content \in Nat,
             m = Naming!Bytes(32, m.content)
      PROVE  SoundAccount(Naming!NewAccount(t, m, FALSE)) /\ Naming!NewAccount(t, m, FALSE).type = t
  <2> DEFINE a == Naming!NewAccount(t, m, FALSE)
  <2>1. a.type = t /\ a.key = m /\ a.private = FALSE
    BY DEF Naming!NewAccount
  <2>2. a = Naming!NewAccount(a.type, a.key, a.private)
    BY <2>1
  <2> HIDE DEF a
  <2>3. SoundAccount(a)
    BY <1>1, <2>1, <2>2 DEF SoundAccount
  <2> QED BY <2>1, <2>3 DEF a
<1>2. ASSUME t \in Naming!CryptoTypes, NEW c \in Points, NEW p \in BOOLEAN
      PROVE  LET a == Naming!NewAccount(t, Naming!Bytes(Naming!Compressed(t), c), p)
             IN SoundAccount(a) /\ a.type = t
  <2> DEFINE k == Naming!Bytes(Naming!Compressed(t), c)
             a == Naming!NewAccount(t, k, p)
  <2>1. k.content = c /\ k = Naming!Bytes(Naming!Compressed(t), k.content)
    BY DEF Naming!Bytes
  <2> HIDE DEF k
  <2>2. a.type = t /\ a.key = k /\ a.private = p
    BY DEF Naming!NewAccount
  <2>3. a = Naming!NewAccount(a.type, a.key, a.private)
    BY <2>2
  <2> HIDE DEF a
  <2>4. SoundAccount(a)
    BY <1>2, <2>1, <2>2, <2>3 DEF SoundAccount
  <2> QED BY <2>2, <2>4 DEF a, k
<1>3. ASSUME NEW len \in Nat, NEW c \in Nat
      PROVE  LET h == Naming!Hash(Naming!Bytes(len, c))
             IN h.len = 32 /\ h.content \in Nat /\ h = Naming!Bytes(32, h.content)
  BY DEF Naming!Hash, Naming!Bytes
<1>4. ASSUME NEW c \in Nat, NEW a \in Naming!OfIdentifier(t, c) PROVE SoundAccount(a) /\ a.type = t
  <2>1. /\ t \in Naming!IdentifierTypes
        /\ a = Naming!NewAccount(t, Naming!Hash(Naming!Bytes(0, c)), FALSE)
    BY <1>4, KindsOfType DEF Naming!OfIdentifier
  <2>2. PICK h : h = Naming!Hash(Naming!Bytes(0, c))
    OBVIOUS
  <2>3. h.len = 32 /\ h.content \in Nat /\ h = Naming!Bytes(32, h.content)
    BY <1>3, <2>2
  <2> QED BY <1>1, <2>1, <2>2, <2>3
<1>5. ASSUME NEW c \in Points, NEW a \in Naming!OfSeed(t, c) PROVE SoundAccount(a) /\ a.type = t
  <2>1. CASE t \in Naming!CryptoTypes
    BY <1>2, <1>5, <2>1 DEF Naming!OfSeed
  <2>2. CASE t \in Naming!IdentifierTypes
    <3>1. a = Naming!NewAccount(t, Naming!Hash(Naming!Bytes(36, c)), FALSE)
      BY <1>5, <2>2, KindsOfType DEF Naming!OfSeed
    <3>2. PICK h : h = Naming!Hash(Naming!Bytes(36, c))
      OBVIOUS
    <3>3. h.len = 32 /\ h.content \in Nat /\ h = Naming!Bytes(32, h.content)
      BY <1>3, <3>2, ContentsAssumption
    <3> QED BY <1>1, <2>2, <3>1, <3>2, <3>3
  <2> QED BY <2>1, <2>2, KindsOfType
<1>6. ASSUME NEW c \in Points PROVE Naming!OfPassphrase(t, c) \subseteq Naming!OfSeed(t, c)
  BY DEF Naming!OfPassphrase
<1>7. ASSUME NEW m, NEW a \in Naming!OfPublicKey(t, m) PROVE SoundAccount(a) /\ a.type = t
  BY <1>2, <1>7 DEF Naming!OfPublicKey, Naming!PublicKey
<1>8. ASSUME NEW m, NEW a \in Naming!OfPrivateKey(t, m) PROVE SoundAccount(a) /\ a.type = t
  BY <1>2, <1>8 DEF Naming!OfPrivateKey
<1>9. ASSUME NEW text, text.key.content \in Nat, NEW a \in Naming!OfPublicKeyString(t, text),
             text.key = Naming!Bytes(text.key.len, text.key.content)
      PROVE  SoundAccount(a) /\ a.type = t
  <2>1. CASE t \in Naming!CryptoTypes
    BY <1>2, <1>9, <2>1 DEF Naming!OfPublicKeyString, Naming!PublicKey
  <2>2. CASE t \in Naming!IdentifierTypes
    <3>1. PICK k \in Naming!IdentifierKey(text.key) : a = Naming!NewAccount(t, k, FALSE)
      BY <1>9, <2>2, KindsOfType DEF Naming!OfPublicKeyString
    <3>2. k = text.key /\ k.len = 32
      BY <3>1 DEF Naming!IdentifierKey
    <3> QED BY <1>1, <1>9, <2>2, <3>1, <3>2, KindsOfType
  <2> QED BY <2>1, <2>2, KindsOfType
<1> QED BY <1>4, <1>5, <1>6, <1>7, <1>8, <1>9

\* So is whatever is parsed.
LEMMA ParsedIsSound ==
  ASSUME NEW t, NEW m \in Naming!Material
  PROVE  /\ \A a \in Naming!FromHex(t, m) : SoundAccount(a)
         /\ \A sum : LET text == [type |-> t, key |-> m, sum |-> sum]
                    IN /\ \A a \in Naming!FromStr(text) : SoundAccount(a)
                       /\ t \in Naming!KeyPairTypes =>
                            \A a \in Naming!OfPublicKeyString(t, text) : SoundAccount(a)
<1>1. /\ m.len \in Nat /\ m.content \in Nat /\ m = Naming!Bytes(m.len, m.content)
  <2>1. PICK len \in {31, 32, 33, 65}, c \in Contents : m = Naming!Bytes(len, c)
    BY DEF Naming!Material
  <2>2. m.len = len /\ m.content = c
    BY <2>1 DEF Naming!Bytes
  <2> QED BY <2>1, <2>2, ContentsAssumption
<1>2. ASSUME NEW a \in Naming!FromHex(t, m) PROVE SoundAccount(a)
  <2>1. CASE t \in Naming!CryptoTypes
    <3>1. a \in Naming!OfPublicKey(t, m)
      BY <1>2, <2>1 DEF Naming!FromHex
    <3> QED BY <2>1, <3>1, MadeIsSound, KindsOfType
  <2>2. CASE t \in Naming!IdentifierTypes
    <3> DEFINE text == Naming!FormatPublicKeyString(m, t)
    <3>1. a \in Naming!OfPublicKeyString(t, text)
      BY <1>2, <2>2, KindsOfType DEF Naming!FromHex
    <3>2. text.key = m \/ text.key = Naming!Hash(m)
      BY DEF Naming!FormatPublicKeyString
    <3>3. PICK h : h = Naming!Hash(m)
      OBVIOUS
    <3>4. h.content \in Nat /\ h = Naming!Bytes(h.len, h.content)
      BY <1>1, <3>3 DEF Naming!Hash, Naming!Bytes
    <3> HIDE DEF text
    <3>5. text.key.content \in Nat /\ text.key = Naming!Bytes(text.key.len, text.key.content)
      BY <1>1, <3>2, <3>3, <3>4
    <3> QED BY <2>2, <3>1, <3>5, MadeIsSound, KindsOfType
  <2> QED BY <1>2, <2>1, <2>2 DEF Naming!FromHex
<1>3. ASSUME NEW sum, NEW text, text = [type |-> t, key |-> m, sum |-> sum]
      PROVE  /\ \A a \in Naming!FromStr(text) : SoundAccount(a)
             /\ t \in Naming!KeyPairTypes =>
                  \A a \in Naming!OfPublicKeyString(t, text) : SoundAccount(a)
  <2>1. text.type = t /\ text.key = m
    BY <1>3
  <2>2. \A a \in Naming!FromStr(text) : SoundAccount(a)
    BY <1>2, <2>1 DEF Naming!FromStr
  <2>3. ASSUME t \in Naming!KeyPairTypes, NEW a \in Naming!OfPublicKeyString(t, text)
        PROVE  SoundAccount(a)
    BY <1>1, <2>1, <2>3, MadeIsSound
  <2> QED BY <2>2, <2>3
<1> QED BY <1>2, <1>3

\* Making an account keeps the invariant.
LEMMA MadeKeeps ==
  ASSUME NameInv, NEW as, Naming!Made(as), \A a \in as : SoundAccount(a)
  PROVE  NameInv'
<1>1. PICK a \in as : account' = a /\ origin' = a
  BY DEF Naming!Made
<1>2. SoundAccount(a) /\ a # Naming!None /\ SameAs(a, a)
  BY SoundIsSome DEF SameAs
<1>3. signed = {} /\ signed' = signed /\ failed' = failed
  BY DEF Naming!Made, NameInv
<1> QED BY <1>1, <1>2, <1>3 DEF NameInv

\* A conversion that yields the account, with or without its private key, keeps it.
LEMMA ConversionKeeps ==
  ASSUME NameInv, NEW as, NEW b, as = {b}, SoundAccount(b), SameAs(b, account),
         Naming!Converted(as)
  PROVE  NameInv'
<1>1. account # Naming!None /\ account' = b /\ origin' = origin /\ signed' = signed
  BY DEF Naming!Converted
<1>2. ~failed'
  BY DEF Naming!Converted, NameInv
<1>3. SameAs(account, origin) /\ SoundAccount(origin)
  BY <1>1 DEF NameInv
<1>4. SameAs(b, origin) /\ b.type = account.type /\ b.key = account.key
  BY <1>3 DEF SameAs
<1>5. b # Naming!None
  BY SoundIsSome
<1> QED BY <1>1, <1>2, <1>3, <1>4, <1>5 DEF NameInv

\* Every step on an account keeps it.
LEMMA NameStep == ASSUME NameInv, [Naming!Next]_(Naming!vars) PROVE NameInv'
<1>1. ASSUME NEW t \in Naming!KeyPairTypes, Naming!FromKeyable(t) PROVE NameInv'
  <2>1. ASSUME NEW c \in Points, Naming!Made(Naming!OfSeed(t, c) \cup Naming!OfPassphrase(t, c))
        PROVE  NameInv'
    BY <2>1, MadeIsSound, MadeKeeps
  <2>2. ASSUME NEW c \in Contents, Naming!Made(Naming!OfIdentifier(t, c)) PROVE NameInv'
    <3>1. \A a \in Naming!OfIdentifier(t, c) : SoundAccount(a)
      BY MadeIsSound, ContentsAssumption
    <3> QED BY <2>2, <3>1, MadeKeeps
  <2>3. ASSUME NEW m \in Naming!Material,
               Naming!Made(Naming!OfPrivateKey(t, m) \cup Naming!OfPublicKey(t, m))
        PROVE  NameInv'
    BY <2>3, MadeIsSound, MadeKeeps
  <2> QED BY <1>1, <2>1, <2>2, <2>3 DEF Naming!FromKeyable
<1>2. ASSUME NEW t \in Naming!TypeBytes, Naming!Parse(t) PROVE NameInv'
  <2>1. PICK m \in Naming!Material, sum \in BOOLEAN :
          LET text == [type |-> t, key |-> m, sum |-> sum]
          IN \/ Naming!Made(Naming!FromHex(t, m)) \/ Naming!Made(Naming!FromStr(text))
             \/ t \in Naming!KeyPairTypes /\ Naming!Made(Naming!OfPublicKeyString(t, text))
    BY <1>2 DEF Naming!Parse
  <2> DEFINE text == [type |-> t, key |-> m, sum |-> sum]
  <2>2. /\ \A a \in Naming!FromHex(t, m) : SoundAccount(a)
        /\ \A a \in Naming!FromStr(text) : SoundAccount(a)
        /\ t \in Naming!KeyPairTypes => \A a \in Naming!OfPublicKeyString(t, text) : SoundAccount(a)
    BY ParsedIsSound
  <2> QED BY <2>1, <2>2, MadeKeeps
<1>3. ASSUME account # Naming!None
      PROVE  LET b == Naming!NewAccount(account.type, account.key, FALSE)
             IN SoundAccount(b) /\ SameAs(b, account)
  <2>1. SoundAccount(account)
    BY <1>3 DEF NameInv
  <2> QED BY <2>1, PublicHalf DEF SameAs
<1>4. CASE Naming!ToPublicAccount
  BY <1>3, <1>4, ReadBack, ConversionKeeps DEF Naming!ToPublicAccount, NameInv
<1>5. CASE Naming!ThroughString
  BY <1>3, <1>5, ReadBack, ConversionKeeps DEF Naming!ThroughString, NameInv
<1>6. CASE Naming!ThroughHex
  BY <1>3, <1>6, ReadBack, ConversionKeeps DEF Naming!ThroughHex, NameInv
<1>7. CASE Naming!ThroughKeyAndType
  BY <1>3, <1>7, ReadBack, ConversionKeeps DEF Naming!ThroughKeyAndType, NameInv
<1>8. CASE Naming!ThroughPublicKey
  <2>1. account # Naming!None /\ account.type \in Naming!CryptoTypes /\ SoundAccount(account)
    BY <1>8 DEF Naming!ThroughPublicKey, NameInv
  <2>2. Naming!OfPublicKey(account.type, account.key)
          = {Naming!NewAccount(account.type, account.key, FALSE)}
    BY <2>1, ReadBack DEF Naming!FromHex
  <2> QED BY <1>3, <1>8, <2>1, <2>2, ConversionKeeps DEF Naming!ThroughPublicKey
<1>9. CASE Naming!ThroughPrivateKey
  <2>1. account # Naming!None /\ account.private /\ SoundAccount(account)
    BY <1>9 DEF Naming!ThroughPrivateKey, NameInv
  <2>2. /\ account.type \in Naming!CryptoTypes /\ account.key.content \in Points
        /\ account.key = Naming!Bytes(Naming!Compressed(account.type), account.key.content)
    BY <2>1 DEF SoundAccount
  <2> DEFINE b == Naming!NewAccount(account.type, account.key, TRUE)
             as == Naming!OfPrivateKey(account.type, Naming!Bytes(32, account.key.content))
  <2>3. as = {b}
    <3>1. PICK m : m = Naming!Bytes(32, account.key.content)
      OBVIOUS
    <3>2. m.len = 32 /\ m.content = account.key.content
      BY <3>1 DEF Naming!Bytes
    <3> QED BY <2>2, <3>1, <3>2 DEF Naming!OfPrivateKey
  <2>4. SoundAccount(b) /\ SameAs(b, account)
    BY <2>1, <2>2, PublicHalf DEF SameAs
  <2>5. Naming!Converted(as)
    BY <1>9 DEF Naming!ThroughPrivateKey
  <2> QED BY <2>3, <2>4, <2>5, ConversionKeeps
<1>10. CASE Naming!Sign
  <2>1. account # Naming!None /\ account.private /\ SoundAccount(account)
    BY <1>10 DEF Naming!Sign, NameInv
  <2>2. account.type \in Naming!CryptoTypes
    BY <2>1 DEF SoundAccount
  <2>3. /\ signed' = signed \cup {[type |-> account.type, key |-> account.key]}
        /\ UNCHANGED <<account, origin, failed>>
    BY <1>10 DEF Naming!Sign
  <2> QED BY <2>1, <2>2, <2>3 DEF NameInv
<1>11. ASSUME NEW t \in Naming!IdentifierTypes, Naming!GenerateIdentifier(t) PROVE NameInv'
  <2>1. /\ account # Naming!None /\ SoundAccount(account) /\ account.key.content \in Nat
        /\ signed' = {} /\ failed' = FALSE
    BY <1>11, ContentsAssumption DEF Naming!GenerateIdentifier, NameInv
  <2>2. PICK a \in Naming!OfSeed(t, Naming!Hash(account.key).content) :
          account' = a /\ origin' = a
    BY <1>11 DEF Naming!GenerateIdentifier
  <2>3. account.key.len \in Nat
    BY <2>1 DEF SoundAccount, Naming!Bytes, Naming!Compressed
  <2>4. SoundAccount(a)
    <3>1. PICK c : c = Naming!Hash(account.key).content
      OBVIOUS
    <3>2. c \in Nat
      BY <2>1, <2>3, <3>1 DEF Naming!Hash, Naming!Bytes
    <3>3. a = Naming!NewAccount(t, Naming!Hash(Naming!Bytes(36, c)), FALSE)
      BY <2>2, <3>1, KindsOfType DEF Naming!OfSeed
    <3>4. PICK h : h = Naming!Hash(Naming!Bytes(36, c))
      OBVIOUS
    <3>5. h.content \in Nat /\ h = Naming!Bytes(32, h.content)
      BY <3>2, <3>4 DEF Naming!Hash, Naming!Bytes
    <3>6. a.type = t /\ a.key = h /\ a.private = FALSE
      BY <3>3, <3>4 DEF Naming!NewAccount
    <3> QED BY <3>3, <3>4, <3>5, <3>6 DEF SoundAccount
  <2>5. a # Naming!None /\ SameAs(a, a)
    BY <2>4, SoundIsSome DEF SameAs
  <2> QED BY <2>1, <2>2, <2>4, <2>5 DEF NameInv
<1>12. CASE UNCHANGED Naming!vars
  BY <1>12 DEF Naming!vars, NameInv
<1> QED BY <1>1, <1>2, <1>4, <1>5, <1>6, <1>7, <1>8, <1>9, <1>10, <1>11, <1>12 DEF Naming!Next

\* The steps of the other parts leave the account alone.
LEMMA OnlyNaming == [LocalNext]_localVars => [Naming!Next]_(Naming!vars)
<1>1. UNCHANGED nameVars <=> UNCHANGED Naming!vars
  BY DEF nameVars, Naming!vars
<1> QED BY <1>1 DEF localVars, LocalNext, HostSteps, SealSteps, BuildSteps, AccountSteps

\* The account at hand is at all times the one it was made as, with a key in
\* its canonical form, and made every signature (keetanetwork-account).
THEOREM NameInvariant == LocalSpec => []NameInv
<1>1. LocalInit => NameInv
  BY DEF LocalInit, Naming!Init, NameInv
<1>2. NameInv /\ [LocalNext]_localVars => NameInv'
  BY NameStep, OnlyNaming
<1> QED BY <1>1, <1>2, PTL DEF LocalSpec

\* No sequence of printing, parsing, reducing and rebuilding fails, changes who
\* an account is, gives it a private key or orphans a signature, for any key
\* material (to_public_account, FromStr, FromHex, encode_hex, take_private_key).
THEOREM IdentityKeptHolds == LocalSpec => []IdentityKept
<1>1. NameInv => IdentityKept
  <2> SUFFICES ASSUME NameInv, account # Naming!None PROVE IdentityKept
    BY DEF IdentityKept, Naming!IdentityKept
  <2>1. /\ ~failed /\ account.type = origin.type /\ account.key = origin.key
        /\ account.private => origin.private
    BY DEF NameInv, SameAs
  <2>2. Naming!CompareAccount(account, origin)
    BY <2>1 DEF Naming!CompareAccount, Naming!ToPublicKeyString
  <2>3. \A signer \in signed : Naming!Verifies(account, signer)
    BY DEF NameInv, Naming!Verifies
  <2> QED BY <2>1, <2>2, <2>3 DEF IdentityKept, Naming!IdentityKept
<1> QED BY <1>1, NameInvariant, PTL

-----------------------------------------------------------------------------
(* The signer field, level by level.                                       *)

\* Nothing is kept track of: the instances below are for their traces.
Anything(c, n, r) == TRUE

\* From the multisig nodes of a level to those of the next.
LevelStep(c, r, x) == UNION {{m \in Sealing!ToSet(n.members) : m.multi} : n \in r}
LevelFold == INSTANCE FoldFacts WITH Step <- LevelStep, Inv <- Anything

\* From one unfolding of the tree to the next.
Opened(n) == IF n.multi THEN n.members ELSE <<n>>
UnfoldStep(c, r, x) == Sealing!FlattenSeq([i \in DOMAIN r |-> Opened(r[i])])
UnfoldFold == INSTANCE FoldFacts WITH Step <- UnfoldStep, Inv <- Anything

\* One sequence after the other.
StringStep(c, r, x) == r \o x
StringFold == INSTANCE FoldFacts WITH Step <- StringStep, Inv <- Anything

\* The levels of a signer field, from the root down.
LEMMA LevelsAre ==
  ASSUME NEW s
  PROVE  /\ Sealing!Levels(s)[1] = IF s.multi THEN {s} ELSE {}
         /\ \A d \in 2..(MaxDepth + 1) :
              Sealing!Levels(s)[d] = LevelStep(0, Sealing!Levels(s)[d - 1], 0)
<1> DEFINE base == IF s.multi THEN {s} ELSE {}
           F(g) == [d \in 1..(MaxDepth + 1) |-> IF d = 1 THEN base
                      ELSE UNION {{m \in Sealing!ToSet(n.members) : m.multi} : n \in g[d - 1]}]
           way == [i \in 1..MaxDepth |-> 0]
<1>1. MaxDepth \in Nat
  BY SignersAssumption
<1>2. way \in Seq({0}) /\ Len(way) = MaxDepth
  BY <1>1
<1> HIDE DEF way
<1>3. PICK t : LevelFold!Trace(0, base, way, t)
  <2> HIDE DEF base
  <2> QED BY <1>2, LevelFold!FoldHasTrace
<1>4. t[0] = base /\ \A i \in 1..MaxDepth : t[i] = LevelStep(0, t[i - 1], way[i])
  BY <1>2, <1>3 DEF LevelFold!Trace
<1> DEFINE h == [d \in 1..(MaxDepth + 1) |-> t[d - 1]]
<1>5. h = F(h)
  <2> HIDE DEF base
  <2>1. ASSUME NEW d \in 1..(MaxDepth + 1) PROVE h[d] = F(h)[d]
    <3>1. CASE d = 1
      BY <1>1, <1>4, <3>1
    <3>2. CASE d # 1
      <4>1. d - 1 \in 1..MaxDepth /\ d - 1 \in 1..(MaxDepth + 1) /\ (d - 1) - 1 \in 0..MaxDepth
        BY <1>1, <3>2
      <4>2. h[d] = LevelStep(0, t[(d - 1) - 1], way[d - 1])
        BY <1>4, <4>1
      <4>3. h[d - 1] = t[(d - 1) - 1]
        BY <4>1
      <4> HIDE DEF h
      <4> QED BY <3>2, <4>2, <4>3 DEF LevelStep
    <3> QED BY <3>1, <3>2
  <2>2. DOMAIN h = 1..(MaxDepth + 1) /\ DOMAIN F(h) = 1..(MaxDepth + 1)
    OBVIOUS
  <2> QED BY <2>1
<1> HIDE DEF h
<1> DEFINE g == CHOOSE g : g = F(g)
<1>6. g = F(g)
  BY <1>5
<1>7. Sealing!Levels(s) = g
  BY DEF Sealing!Levels
<1> HIDE DEF g, base
<1>8. g[1] = base
  BY <1>1, <1>6
<1>9. ASSUME NEW d \in 2..(MaxDepth + 1) PROVE g[d] = LevelStep(0, g[d - 1], 0)
  <2>1. d \in 1..(MaxDepth + 1) /\ d # 1
    BY <1>1
  <2> QED BY <1>6, <2>1 DEF LevelStep
<1> QED BY <1>7, <1>8, <1>9 DEF base

\* The accounts at the leaves are those of the last unfolding.
LEMMA LeavesAre ==
  ASSUME NEW s
  PROVE  \E u : /\ u[0] = <<s>>
                /\ \A d \in 1..MaxDepth : u[d] = UnfoldStep(0, u[d - 1], 0)
                /\ Sealing!Leaves(s) = [i \in DOMAIN u[MaxDepth] |-> u[MaxDepth][i].account]
<1> DEFINE Unfolding(r) == Sealing!FlattenSeq([i \in DOMAIN r |->
                        IF r[i].multi THEN r[i].members ELSE <<r[i]>>])
           F(g) == [d \in 0..MaxDepth |-> IF d = 0 THEN <<s>> ELSE Unfolding(g[d - 1])]
           way == [i \in 1..MaxDepth |-> 0]
<1>0. \A r : Unfolding(r) = UnfoldStep(0, r, 0)
  BY DEF UnfoldStep, Opened
<1>1. MaxDepth \in Nat
  BY SignersAssumption
<1>2. way \in Seq({0}) /\ Len(way) = MaxDepth
  BY <1>1
<1> HIDE DEF way
<1>3. PICK t : UnfoldFold!Trace(0, <<s>>, way, t)
  BY <1>2, UnfoldFold!FoldHasTrace
<1>4. /\ DOMAIN t = 0..MaxDepth /\ t[0] = <<s>>
      /\ \A i \in 1..MaxDepth : t[i] = UnfoldStep(0, t[i - 1], way[i])
  BY <1>2, <1>3 DEF UnfoldFold!Trace
<1> DEFINE h == [d \in 0..MaxDepth |-> t[d]]
<1>5. h = F(h)
  <2>1. ASSUME NEW d \in 0..MaxDepth PROVE h[d] = F(h)[d]
    <3>1. CASE d = 0
      BY <1>1, <1>4, <3>1
    <3>2. CASE d # 0
      <4>1. d \in 1..MaxDepth /\ d - 1 \in 0..MaxDepth
        BY <1>1, <3>2
      <4>2. h[d] = UnfoldStep(0, t[d - 1], way[d])
        BY <1>4, <4>1
      <4>3. h[d - 1] = t[d - 1]
        BY <4>1
      <4>4. UnfoldStep(0, t[d - 1], way[d]) = UnfoldStep(0, t[d - 1], 0)
        BY DEF UnfoldStep
      <4>5. h[d] = Unfolding(h[d - 1])
        <5> HIDE DEF h, Unfolding
        <5> QED BY <1>0, <4>2, <4>3, <4>4
      <4> HIDE DEF h, Unfolding
      <4> QED BY <3>2, <4>5
    <3> QED BY <3>1, <3>2
  <2> HIDE DEF Unfolding
  <2>2. DOMAIN h = 0..MaxDepth /\ DOMAIN F(h) = 0..MaxDepth
    OBVIOUS
  <2> QED BY <2>1
<1> HIDE DEF h
<1> DEFINE g == CHOOSE g : g = F(g)
<1>6. g = F(g)
  BY <1>5
<1>7. Sealing!Leaves(s) = [i \in DOMAIN g[MaxDepth] |-> g[MaxDepth][i].account]
  BY DEF Sealing!Leaves
<1> HIDE DEF g, Unfolding
<1>8. g[0] = <<s>>
  BY <1>1, <1>6
<1>9. ASSUME NEW d \in 1..MaxDepth PROVE g[d] = UnfoldStep(0, g[d - 1], 0)
  <2>1. d \in 0..MaxDepth /\ d # 0
    BY <1>1
  <2> QED BY <1>0, <1>6, <2>1
<1> QED BY <1>7, <1>8, <1>9

\* The entries of a sequence.
LEMMA EntriesOf == \A s, x : x \in Sealing!ToSet(s) <=> \E i \in DOMAIN s : s[i] = x
  BY DEF Sealing!ToSet

\* What is strung together has the entries of all the sequences.
LEMMA FlattenEntries ==
  ASSUME NEW X, NEW seqs \in Seq(Seq(X))
  PROVE  /\ Listing(Sealing!FlattenSeq(seqs))
         /\ Sealing!ToSet(Sealing!FlattenSeq(seqs)) =
              UNION {Sealing!ToSet(seqs[i]) : i \in DOMAIN seqs}
<1> DEFINE n == Len(seqs)
<1>1. n \in Nat /\ DOMAIN seqs = 1..n /\ \A i \in 1..n : seqs[i] \in Seq(X)
  OBVIOUS
<1>2. CASE n = 0
  <2>1. Sealing!FlattenSeq(seqs) = seqs
    BY <1>2 DEF Sealing!FlattenSeq
  <2>2. Sealing!ToSet(seqs) = {} /\ {Sealing!ToSet(seqs[i]) : i \in DOMAIN seqs} = {}
    BY <1>1, <1>2 DEF Sealing!ToSet
  <2> QED BY <2>1, <2>2, ListingIs
<1>3. CASE n # 0
  <2>1. PICK t : StringFold!Trace(0, << >>, seqs, t)
    BY StringFold!FoldHasTrace
  <2>2. t[0] = << >> /\ \A i \in 1..n : t[i] = t[i - 1] \o seqs[i]
    BY <2>1 DEF StringFold!Trace, StringStep
  <2> DEFINE F(g) == [i \in 1..n |-> IF i = 1 THEN seqs[i] ELSE g[i - 1] \o seqs[i]]
             h == [i \in 1..n |-> t[i]]
  <2>3. t[1] = seqs[1]
    <3>0. 1 \in 1..n /\ 1 - 1 = 0
      BY <1>1, <1>3
    <3>1. t[1] = << >> \o seqs[1] /\ seqs[1] \in Seq(X)
      <4> HIDE DEF n
      <4>1. t[1] = t[1 - 1] \o seqs[1]
        BY <2>2, <3>0
      <4> QED BY <1>1, <2>2, <3>0, <4>1
    <3> QED BY <3>1
  <2>4. h = F(h)
    <3>1. ASSUME NEW i \in 1..n PROVE h[i] = F(h)[i]
      <4>1. CASE i = 1
        BY <1>1, <2>3, <4>1
      <4>2. CASE i # 1
        <5>1. i - 1 \in 1..n /\ h[i] = t[i - 1] \o seqs[i]
          BY <1>1, <2>2, <4>2
        <5>2. h[i - 1] = t[i - 1]
          BY <5>1
        <5> HIDE DEF h
        <5> QED BY <4>2, <5>1, <5>2
      <4> QED BY <4>1, <4>2
    <3> QED BY <3>1
  <2> HIDE DEF h
  <2> DEFINE g == CHOOSE g : g = F(g)
  <2>5. g = F(g)
    BY <2>4
  <2>6. Sealing!FlattenSeq(seqs) = g[n]
    BY <1>1, <1>3 DEF Sealing!FlattenSeq
  <2> HIDE DEF g
  <2>7. g[1] = seqs[1] /\ \A i \in 2..n : g[i] = g[i - 1] \o seqs[i]
    <3>1. g[1] = seqs[1]
      BY <1>1, <1>3, <2>5
    <3>2. ASSUME NEW i \in 2..n PROVE g[i] = g[i - 1] \o seqs[i]
      <4>1. i \in 1..n /\ i # 1
        BY <1>1
      <4> QED BY <2>5, <4>1
    <3> QED BY <3>1, <3>2
  <2> DEFINE Fine(m) == g[m] \in Seq(X) /\ \A x : x \in Sealing!ToSet(g[m]) <=>
                                                 \E i \in 1..m : x \in Sealing!ToSet(seqs[i])
             M == {m \in Nat : m + 1 <= n => Fine(m + 1)}
  <2>8. 0 \in M
    <3>1. Fine(1)
      BY <1>1, <1>3, <2>7
    <3> HIDE DEF Fine
    <3> QED BY <3>1
  <2>9. ASSUME NEW m \in M PROVE m + 1 \in M
    <3> SUFFICES ASSUME m + 2 <= n PROVE Fine(m + 2)
      <4> HIDE DEF Fine
      <4>1. (m + 1) + 1 = m + 2
        OBVIOUS
      <4> QED BY <4>1
    <3>1. m \in Nat /\ Fine(m + 1)
      <4> HIDE DEF Fine
      <4> QED BY <1>1
    <3>2. PICK a, b : a = g[m + 1] /\ b = seqs[m + 2]
      OBVIOUS
    <3>3. g[m + 2] = a \o b
      <4>1. m + 2 \in 2..n /\ (m + 2) - 1 = m + 1
        BY <1>1, <3>1
      <4> QED BY <2>7, <3>2, <4>1
    <3>4. a \in Seq(X) /\ b \in Seq(X)
      BY <1>1, <3>1, <3>2
    <3>5. a \o b \in Seq(X) /\ \A x : x \in Sealing!ToSet(a \o b) <=>
                                      x \in Sealing!ToSet(a) \/ x \in Sealing!ToSet(b)
      <4>1. /\ a \o b \in Seq(X) /\ Len(a) \in Nat /\ Len(b) \in Nat
            /\ DOMAIN (a \o b) = 1..(Len(a) + Len(b)) /\ DOMAIN a = 1..Len(a) /\ DOMAIN b = 1..Len(b)
            /\ \A k \in 1..Len(a) : (a \o b)[k] = a[k]
            /\ \A k \in 1..Len(b) : (a \o b)[Len(a) + k] = b[k]
        BY <3>4
      <4>2. PICK ab, la, lb : ab = a \o b /\ la = Len(a) /\ lb = Len(b)
        OBVIOUS
      <4>3. ASSUME NEW k \in DOMAIN ab PROVE ab[k] \in Sealing!ToSet(a) \/ ab[k] \in Sealing!ToSet(b)
        <5>1. CASE k <= la
          BY <4>1, <4>2, <5>1, EntriesOf
        <5>2. CASE k > la
          <6>1. k - la \in 1..lb /\ la + (k - la) = k
            BY <4>1, <4>2, <5>2
          <6> QED BY <4>1, <4>2, <6>1, EntriesOf, SMTT(30)
        <5> QED BY <4>1, <4>2, <5>1, <5>2
      <4>4. ASSUME NEW k \in DOMAIN a PROVE a[k] \in Sealing!ToSet(ab)
        <5>1. k \in DOMAIN ab /\ ab[k] = a[k]
          BY <4>1, <4>2
        <5> QED BY <5>1, EntriesOf
      <4>5. ASSUME NEW k \in DOMAIN b PROVE b[k] \in Sealing!ToSet(ab)
        <5>1. la + k \in DOMAIN ab /\ ab[la + k] = b[k]
          BY <4>1, <4>2
        <5> QED BY <5>1, EntriesOf
      <4>6. ASSUME NEW x PROVE x \in Sealing!ToSet(ab) <=> x \in Sealing!ToSet(a) \/ x \in Sealing!ToSet(b)
        <5>1. x \in Sealing!ToSet(ab) => x \in Sealing!ToSet(a) \/ x \in Sealing!ToSet(b)
          BY <4>3, EntriesOf
        <5>2. x \in Sealing!ToSet(a) => x \in Sealing!ToSet(ab)
          BY <4>4, EntriesOf
        <5>3. x \in Sealing!ToSet(b) => x \in Sealing!ToSet(ab)
          BY <4>5, EntriesOf
        <5> QED BY <5>1, <5>2, <5>3
      <4> QED BY <4>1, <4>2, <4>6
    <3>6. \A x : (\E i \in 1..(m + 2) : x \in Sealing!ToSet(seqs[i])) <=>
                 (\E i \in 1..(m + 1) : x \in Sealing!ToSet(seqs[i])) \/ x \in Sealing!ToSet(b)
      BY <3>1, <3>2
    <3>7. \A x : x \in Sealing!ToSet(a) <=> \E i \in 1..(m + 1) : x \in Sealing!ToSet(seqs[i])
      BY <3>1, <3>2
    <3>8. \A x : x \in Sealing!ToSet(g[m + 2]) <=> x \in Sealing!ToSet(a) \/ x \in Sealing!ToSet(b)
      BY <3>3, <3>5
    <3> QED BY <3>3, <3>5, <3>6, <3>7, <3>8
  <2>10. M = Nat
    <3> HIDE DEF M
    <3>1. M \in SUBSET Nat
      BY DEF M
    <3> QED BY <2>8, <2>9, <3>1, NatInductionSet
  <2>11. Fine(n)
    <3> HIDE DEF Fine
    <3>1. n - 1 \in Nat /\ (n - 1) + 1 = n
      BY <1>1, <1>3
    <3>2. n - 1 \in M
      BY <2>10, <3>1
    <3>3. Fine((n - 1) + 1)
      BY <1>1, <3>2
    <3> QED BY <3>1, <3>3
  <2>12. Listing(g[n])
    BY <2>11, ListingIs
  <2>13. Sealing!ToSet(g[n]) = UNION {Sealing!ToSet(seqs[i]) : i \in DOMAIN seqs}
    <3> HIDE DEF n
    <3> QED BY <1>1, <2>11
  <2> QED BY <2>6, <2>12, <2>13
<1> QED BY <1>2, <1>3

\* The members of the multisig nodes are sequences, as deep as a valid tree goes.
TreeOf(s) == \A d \in 1..MaxDepth : \A n \in Sealing!Levels(s)[d] :
               n.members \in Seq(Sealing!ToSet(n.members))

\* The leaves below the first d levels, the root if it is one included.
LeafNodes(s, d) ==
  (IF s.multi THEN {} ELSE {s}) \cup
  UNION {{m \in Sealing!ToSet(n.members) : ~m.multi} : n \in UNION {Sealing!Levels(s)[e] : e \in 1..d}}

\* An unfolding holds the leaves above it and the multisig nodes it stopped at.
Unfolded(s, d, r) ==
  /\ Listing(r)
  /\ {x \in Sealing!ToSet(r) : x.multi} = Sealing!Levels(s)[d + 1]
  /\ {x \in Sealing!ToSet(r) : ~x.multi} = LeafNodes(s, d)

\* One more level is opened.
LEMMA UnfoldOnce ==
  ASSUME NEW s, TreeOf(s), NEW d \in Nat, d + 1 <= MaxDepth, NEW r, Unfolded(s, d, r)
  PROVE  Unfolded(s, d + 1, UnfoldStep(0, r, 0))
<1>1. MaxDepth \in Nat /\ d + 1 \in 1..MaxDepth
  BY SignersAssumption
<1> DEFINE seqs == [i \in DOMAIN r |-> Opened(r[i])]
           L == Sealing!Levels(s)[d + 1]
           X == UNION {Sealing!ToSet(Opened(x)) : x \in Sealing!ToSet(r)}
<1>2. Listing(r) /\ Len(r) \in Nat /\ DOMAIN r = 1..Len(r)
  BY ListingIs DEF Unfolded, Listing
<1>3. ASSUME NEW i \in DOMAIN r PROVE Opened(r[i]) \in Seq(X)
  <2>1. r[i] \in Sealing!ToSet(r)
    BY EntriesOf
  <2>2. Opened(r[i]) \in Seq(Sealing!ToSet(Opened(r[i])))
    <3>1. CASE r[i].multi
      <4>1. r[i] \in L
        BY <2>1, <3>1 DEF Unfolded
      <4>2. r[i].members \in Seq(Sealing!ToSet(r[i].members))
        BY <1>1, <4>1 DEF TreeOf
      <4> QED BY <3>1, <4>2 DEF Opened
    <3>2. CASE ~r[i].multi
      <4>1. Opened(r[i]) = <<r[i]>>
        BY <3>2 DEF Opened
      <4>2. r[i] \in Sealing!ToSet(<<r[i]>>)
        <5>1. 1 \in DOMAIN <<r[i]>> /\ <<r[i]>>[1] = r[i]
          OBVIOUS
        <5> QED BY <5>1, EntriesOf
      <4> QED BY <4>1, <4>2
    <3> QED BY <3>1, <3>2
  <2>3. Sealing!ToSet(Opened(r[i])) \subseteq X
    BY <2>1
  <2> HIDE DEF X
  <2>4. PICK o, T : o = Opened(r[i]) /\ T = Sealing!ToSet(Opened(r[i]))
    OBVIOUS
  <2>5. o \in Seq(T) /\ T \subseteq X
    BY <2>2, <2>3, <2>4
  <2>6. o \in Seq(X)
    BY <2>5
  <2> QED BY <2>4, <2>6
<1> HIDE DEF X
<1>4. seqs \in Seq(Seq(X)) /\ DOMAIN seqs = DOMAIN r /\ \A i \in DOMAIN r : seqs[i] = Opened(r[i])
  BY <1>2, <1>3
<1>5. UnfoldStep(0, r, 0) = Sealing!FlattenSeq(seqs)
  BY DEF UnfoldStep
<1> HIDE DEF seqs
<1>6. PICK q : q = Sealing!FlattenSeq(seqs)
  OBVIOUS
<1>7. Listing(q) /\ Sealing!ToSet(q) = UNION {Sealing!ToSet(seqs[i]) : i \in DOMAIN seqs}
  BY <1>4, <1>6, FlattenEntries
<1>8. \A x : x \in Sealing!ToSet(q) <=> \E y \in Sealing!ToSet(r) : x \in Sealing!ToSet(Opened(y))
  <2>1. \A x : x \in Sealing!ToSet(q) <=> \E i \in DOMAIN r : x \in Sealing!ToSet(Opened(r[i]))
    BY <1>4, <1>7
  <2> QED BY <2>1, EntriesOf
<1>9. \A y : ~y.multi => \A x : x \in Sealing!ToSet(Opened(y)) <=> x = y
  <2>1. \A y : DOMAIN <<y>> = {1} /\ <<y>>[1] = y
    OBVIOUS
  <2> QED BY <2>1, EntriesOf DEF Opened
<1>10. \A y : y.multi => Opened(y) = y.members
  BY DEF Opened
<1>11. \A x : x \in Sealing!ToSet(q) <=>
               \/ x \in LeafNodes(s, d)
               \/ \E n \in L : x \in Sealing!ToSet(n.members)
  <2>1. \A y : y \in Sealing!ToSet(r) <=> (y.multi /\ y \in L) \/ (~y.multi /\ y \in LeafNodes(s, d))
    BY DEF Unfolded
  <2>2. \A y : y \in L => y.multi
    BY DEF Unfolded
  <2>3. \A y : y \in LeafNodes(s, d) => ~y.multi
    BY DEF Unfolded
  <2> HIDE DEF L
  <2> QED BY <1>8, <1>9, <1>10, <2>1, <2>2, <2>3
<1>12. \A x : x \in LeafNodes(s, d) => ~x.multi
  BY DEF LeafNodes
<1>13. {x \in Sealing!ToSet(q) : x.multi} = Sealing!Levels(s)[(d + 1) + 1]
  <2>1. (d + 1) + 1 \in 2..(MaxDepth + 1) /\ ((d + 1) + 1) - 1 = d + 1
    BY <1>1
  <2>2. Sealing!Levels(s)[(d + 1) + 1] = LevelStep(0, L, 0)
    BY <2>1, LevelsAre
  <2> HIDE DEF L
  <2> QED BY <1>11, <1>12, <2>2 DEF LevelStep
<1>14. {x \in Sealing!ToSet(q) : ~x.multi} = LeafNodes(s, d + 1)
  <2>1. \A n : n \in UNION {Sealing!Levels(s)[e] : e \in 1..(d + 1)} <=>
               n \in UNION {Sealing!Levels(s)[e] : e \in 1..d} \/ n \in L
    OBVIOUS
  <2>2. \A x : x \in LeafNodes(s, d + 1) <=>
               \/ x \in LeafNodes(s, d)
               \/ ~x.multi /\ \E n \in L : x \in Sealing!ToSet(n.members)
    <3> HIDE DEF L
    <3> QED BY <2>1 DEF LeafNodes
  <2> HIDE DEF L
  <2> QED BY <1>11, <1>12, <2>2
<1> QED BY <1>5, <1>6, <1>7, <1>13, <1>14 DEF Unfolded

\* The levels below a single signer are empty.
LEMMA SingleHasNoLevels ==
  ASSUME NEW s, ~s.multi
  PROVE  /\ TreeOf(s)
         /\ \A d \in 1..(MaxDepth + 1) : Sealing!Levels(s)[d] = {}
<1> DEFINE M == {m \in Nat : m + 1 \in 1..(MaxDepth + 1) => Sealing!Levels(s)[m + 1] = {}}
<1>1. MaxDepth \in Nat
  BY SignersAssumption
<1>2. 0 \in M
  <2>1. Sealing!Levels(s)[1] = {}
    BY LevelsAre, Zenon
  <2>2. 0 + 1 = 1
    OBVIOUS
  <2> QED BY <2>1, <2>2
<1>3. ASSUME NEW m \in M PROVE m + 1 \in M
  <2> SUFFICES ASSUME (m + 1) + 1 \in 1..(MaxDepth + 1) PROVE Sealing!Levels(s)[(m + 1) + 1] = {}
    OBVIOUS
  <2>1. m \in Nat /\ Sealing!Levels(s)[m + 1] = {}
    BY <1>1
  <2>2. (m + 1) + 1 \in 2..(MaxDepth + 1) /\ ((m + 1) + 1) - 1 = m + 1
    BY <1>1, <2>1
  <2>3. Sealing!Levels(s)[(m + 1) + 1] = LevelStep(0, Sealing!Levels(s)[m + 1], 0)
    BY <2>2, LevelsAre
  <2> QED BY <2>1, <2>3 DEF LevelStep
<1>4. M = Nat
  <2> HIDE DEF M
  <2>1. M \in SUBSET Nat
    BY DEF M
  <2> QED BY <1>2, <1>3, <2>1, NatInductionSet
<1>5. ASSUME NEW d \in 1..(MaxDepth + 1) PROVE Sealing!Levels(s)[d] = {}
  <2>1. d - 1 \in Nat /\ (d - 1) + 1 = d
    BY <1>1
  <2>2. d - 1 \in M
    BY <1>4, <2>1
  <2> QED BY <2>1, <2>2
<1>6. \A d \in 1..MaxDepth : d \in 1..(MaxDepth + 1)
  BY <1>1
<1> QED BY <1>5, <1>6 DEF TreeOf

\* The leaves of a tree that is not too deep are the accounts below its nodes
\* that are no multisig (Signer::required_signers).
LEMMA LeavesAreKeys ==
  ASSUME NEW s, TreeOf(s), Sealing!Levels(s)[MaxDepth + 1] = {}
  PROVE  /\ Listing(Sealing!Leaves(s))
         /\ Sealing!ToSet(Sealing!Leaves(s)) = {x.account : x \in LeafNodes(s, MaxDepth)}
<1>1. MaxDepth \in Nat
  BY SignersAssumption
<1>2. PICK u : /\ u[0] = <<s>>
               /\ \A d \in 1..MaxDepth : u[d] = UnfoldStep(0, u[d - 1], 0)
               /\ Sealing!Leaves(s) = [i \in DOMAIN u[MaxDepth] |-> u[MaxDepth][i].account]
  BY LeavesAre
<1> DEFINE M == {m \in Nat : m <= MaxDepth => Unfolded(s, m, u[m])}
<1>3. 0 \in M
  <2>1. Listing(<<s>>)
    <3>1. <<s>> \in Seq({s})
      OBVIOUS
    <3> QED BY <3>1, ListingIs
  <2>2. Sealing!ToSet(<<s>>) = {s}
    <3>1. DOMAIN <<s>> = {1} /\ <<s>>[1] = s
      OBVIOUS
    <3> QED BY <3>1, EntriesOf
  <2>3. LeafNodes(s, 0) = IF s.multi THEN {} ELSE {s}
    <3>1. 1..0 = {}
      OBVIOUS
    <3> QED BY <3>1 DEF LeafNodes
  <2>4. Sealing!Levels(s)[0 + 1] = IF s.multi THEN {s} ELSE {}
    <3>1. 0 + 1 = 1
      OBVIOUS
    <3>2. Sealing!Levels(s)[1] = IF s.multi THEN {s} ELSE {}
      BY LevelsAre, Zenon
    <3> QED BY <3>1, <3>2
  <2>5. Unfolded(s, 0, <<s>>)
    <3>1. CASE s.multi
      BY <2>1, <2>2, <2>3, <2>4, <3>1 DEF Unfolded
    <3>2. CASE ~s.multi
      BY <2>1, <2>2, <2>3, <2>4, <3>2 DEF Unfolded
    <3> QED BY <3>1, <3>2
  <2> QED BY <1>2, <2>5
<1>4. ASSUME NEW m \in M PROVE m + 1 \in M
  <2> SUFFICES ASSUME m + 1 <= MaxDepth PROVE Unfolded(s, m + 1, u[m + 1])
    OBVIOUS
  <2>1. m \in Nat /\ Unfolded(s, m, u[m]) /\ m + 1 \in 1..MaxDepth /\ (m + 1) - 1 = m
    BY <1>1
  <2>2. u[m + 1] = UnfoldStep(0, u[m], 0)
    BY <1>2, <2>1
  <2>3. Unfolded(s, m + 1, UnfoldStep(0, u[m], 0))
    BY <2>1, UnfoldOnce
  <2> QED BY <2>2, <2>3
<1>5. M = Nat
  <2> HIDE DEF M
  <2>1. M \in SUBSET Nat
    BY DEF M
  <2> QED BY <1>3, <1>4, <2>1, NatInductionSet
<1>6. PICK r : r = u[MaxDepth]
  OBVIOUS
<1>7. Unfolded(s, MaxDepth, r)
  BY <1>1, <1>5, <1>6
<1>8. Listing(r) /\ Len(r) \in Nat /\ DOMAIN r = 1..Len(r)
  BY <1>7, ListingIs DEF Unfolded, Listing
<1>9. Sealing!Leaves(s) = [i \in 1..Len(r) |-> r[i].account]
  BY <1>2, <1>6, <1>8
<1>10. PICK lv : lv = Sealing!Leaves(s)
  OBVIOUS
<1>11. DOMAIN lv = 1..Len(r) /\ lv = [i \in 1..Len(r) |-> lv[i]] /\ \A i \in DOMAIN r : lv[i] = r[i].account
  BY <1>8, <1>9, <1>10
<1>12. Listing(lv)
  BY <1>8, <1>11, ListingMade
<1>13. Sealing!ToSet(r) = LeafNodes(s, MaxDepth)
  BY <1>7 DEF Unfolded
<1>14. Sealing!ToSet(lv) = {x.account : x \in Sealing!ToSet(r)}
  BY <1>8, <1>11, EntriesOf
<1> QED BY <1>10, <1>12, <1>13, <1>14

\* required_signers takes an account it has not taken yet.
OnceStep(c, r, a) == IF a \in Sealing!ToSet(r) THEN r ELSE Append(r, a)
OnceInv(c, n, r) ==
  /\ Listing(r)
  /\ \A i, j \in DOMAIN r : r[i] = r[j] => i = j
  /\ \A x : x \in Sealing!ToSet(r) <=> \E i \in 1..n : c[i] = x
OnceFold == INSTANCE FoldFacts WITH Step <- OnceStep, Inv <- OnceInv

\* Every leaf is required once.
LEMMA RequiredOnce ==
  ASSUME NEW s, Listing(Sealing!Leaves(s))
  PROVE  LET r == Sealing!RequiredSigners(s) IN
           /\ Listing(r) /\ \A i, j \in DOMAIN r : r[i] = r[j] => i = j
           /\ Sealing!ToSet(r) = Sealing!ToSet(Sealing!Leaves(s))
<1>1. PICK lv : lv = Sealing!Leaves(s)
  OBVIOUS
<1>2. lv \in Seq({lv[i] : i \in DOMAIN lv}) /\ Len(lv) \in Nat /\ DOMAIN lv = 1..Len(lv)
  BY <1>1, ListingIs DEF Listing
<1>3. OnceInv(lv, 0, << >>)
  <2>1. << >> \in Seq({}) /\ DOMAIN << >> = {}
    OBVIOUS
  <2>2. Listing(<< >>)
    BY <2>1, ListingIs
  <2>3. 1..0 = {}
    OBVIOUS
  <2> QED BY <2>1, <2>2, <2>3, EntriesOf DEF OnceInv
<1>4. ASSUME NEW i \in 1..Len(lv), NEW r, OnceInv(lv, i - 1, r)
      PROVE  OnceInv(lv, i, OnceStep(lv, r, lv[i]))
  <2>1. /\ Listing(r) /\ \A j, k \in DOMAIN r : r[j] = r[k] => j = k
        /\ \A x : x \in Sealing!ToSet(r) <=> \E j \in 1..(i - 1) : lv[j] = x
    BY <1>4 DEF OnceInv
  <2>2. \A x : (\E j \in 1..i : lv[j] = x) <=> (\E j \in 1..(i - 1) : lv[j] = x) \/ x = lv[i]
    BY <1>2
  <2>3. CASE lv[i] \in Sealing!ToSet(r)
    BY <2>1, <2>2, <2>3 DEF OnceInv, OnceStep
  <2>4. CASE lv[i] \notin Sealing!ToSet(r)
    <3>1. PICK q, e : q = Append(r, e) /\ e = lv[i]
      OBVIOUS
    <3>2. /\ Listing(q) /\ Len(r) \in Nat /\ DOMAIN r = 1..Len(r) /\ DOMAIN q = 1..(Len(r) + 1)
          /\ \A j \in DOMAIN r : q[j] = r[j]
          /\ q[Len(r) + 1] = e
      BY <2>1, <3>1, ListingAppend
    <3>3. \A j \in DOMAIN q : j \in DOMAIN r \/ j = Len(r) + 1
      BY <3>2
    <3>4. \A j \in DOMAIN r : r[j] # e /\ j \in DOMAIN q
      BY <2>4, <3>1, <3>2, EntriesOf
    <3>5. \A j, k \in DOMAIN q : q[j] = q[k] => j = k
      BY <2>1, <3>2, <3>3, <3>4
    <3>6. \A x : x \in Sealing!ToSet(q) <=> x \in Sealing!ToSet(r) \/ x = e
      <4>1. Len(r) + 1 \in DOMAIN q
        BY <3>2
      <4> QED BY <3>2, <3>3, <3>4, <4>1, EntriesOf
    <3>7. OnceInv(lv, i, q)
      BY <2>1, <2>2, <3>1, <3>2, <3>5, <3>6 DEF OnceInv
    <3> QED BY <2>4, <3>1, <3>7 DEF OnceStep
  <2> QED BY <2>3, <2>4
<1>5. OnceInv(lv, Len(lv), OnceFold!Fold(lv, << >>, lv))
  BY <1>2, <1>3, <1>4, OnceFold!FoldKeeps
<1>6. Sealing!RequiredSigners(s) = OnceFold!Fold(lv, << >>, lv)
  BY <1>1 DEF Sealing!RequiredSigners, OnceFold!Fold, OnceStep, Sealing!FoldLeft, OnceFold!FoldLeft,
              Sealing!MapThenFoldSet, OnceFold!MapThenFoldSet, Sealing!Max, OnceFold!Max
<1>7. PICK r : r = Sealing!RequiredSigners(s)
  OBVIOUS
<1>8. OnceInv(lv, Len(lv), r)
  BY <1>5, <1>6, <1>7
<1>9. Listing(r) /\ \A i, j \in DOMAIN r : r[i] = r[j] => i = j
  BY <1>8 DEF OnceInv
<1>10. Sealing!ToSet(r) = Sealing!ToSet(lv)
  <2>1. \A x : x \in Sealing!ToSet(r) <=> \E i \in 1..Len(lv) : lv[i] = x
    BY <1>8 DEF OnceInv
  <2>2. \A x : x \in Sealing!ToSet(lv) <=> \E i \in 1..Len(lv) : lv[i] = x
    BY <1>2, EntriesOf
  <2>3. \A x : x \in Sealing!ToSet(r) <=> x \in Sealing!ToSet(lv)
    BY <2>1, <2>2
  <2> QED BY <2>3
<1> QED BY <1>1, <1>7, <1>9, <1>10

\* A sequence without repetitions has as many entries as places.
LEMMA OnceCounts ==
  ASSUME NEW r, Listing(r), \A i, j \in DOMAIN r : r[i] = r[j] => i = j
  PROVE  Sealing!Cardinality(Sealing!ToSet(r)) = Len(r)
<1>1. Len(r) \in Nat /\ DOMAIN r = 1..Len(r) /\ r = [i \in 1..Len(r) |-> r[i]]
  BY ListingIs DEF Listing
<1> DEFINE S == Sealing!ToSet(r)
<1>2. \A i \in 1..Len(r) : r[i] \in S
  BY <1>1, EntriesOf
<1>3. \A x \in S : \E i \in 1..Len(r) : r[i] = x
  BY <1>1, EntriesOf
<1> HIDE DEF S
<1>4. r \in Bijection(1..Len(r), S)
  BY <1>1, <1>2, <1>3 DEF Bijection, Injection, Surjection, IsInjective
<1>5. Cardinality(S) = Len(r)
  BY <1>1, <1>4, FS_CountingElements DEF ExistsBijection
<1> QED BY <1>5 DEF S, Sealing!Cardinality, Cardinality

\* A signer field as it may be staged.
SignerFine(s) == TreeOf(s) /\ s # Sealing!NoSigner /\ (s.multi \/ s = Sealing!Single(s.account))

\* The nodes of a signer field, and the accounts that are no multisig among them
\* and their members.
MultisOf(s) == UNION {Sealing!Levels(s)[d] : d \in 1..MaxDepth}
NodesOf(s) == MultisOf(s) \cup {s}
KeysBelow(s) ==
  {x.account : x \in {n \in NodesOf(s) : ~n.multi} \cup
                     UNION {{m \in Sealing!ToSet(n.members) : ~m.multi} : n \in NodesOf(s)}}

\* The levels hold multisig nodes.
LEMMA LevelsAreMulti ==
  ASSUME NEW s
  PROVE  \A d \in 1..(MaxDepth + 1) : \A n \in Sealing!Levels(s)[d] : n.multi
<1> SUFFICES ASSUME NEW d \in 1..(MaxDepth + 1), NEW n \in Sealing!Levels(s)[d] PROVE n.multi
  OBVIOUS
<1>1. MaxDepth \in Nat
  BY SignersAssumption
<1>2. CASE d = 1
  <2>1. n \in IF s.multi THEN {s} ELSE {}
    BY <1>2, LevelsAre, Zenon
  <2> QED BY <2>1
<1>3. CASE d # 1
  <2>1. d \in 2..(MaxDepth + 1)
    BY <1>1, <1>3
  <2>2. n \in LevelStep(0, Sealing!Levels(s)[d - 1], 0)
    BY <2>1, LevelsAre
  <2> QED BY <2>2 DEF LevelStep
<1> QED BY <1>2, <1>3

\* These accounts are the leaves of the tree.
LEMMA KeysAreLeaves ==
  ASSUME NEW s, SignerFine(s), Sealing!Levels(s)[MaxDepth + 1] = {}
  PROVE  KeysBelow(s) = {x.account : x \in LeafNodes(s, MaxDepth)}
<1>1. MaxDepth \in Nat
  BY SignersAssumption
<1> DEFINE Below(N) == {n \in N : ~n.multi} \cup
                         UNION {{m \in Sealing!ToSet(n.members) : ~m.multi} : n \in N}
<1>0. PICK L : L = MultisOf(s)
  OBVIOUS
<1>2. NodesOf(s) = L \cup {s} /\ KeysBelow(s) = {x.account : x \in Below(NodesOf(s))}
  <2>1. NodesOf(s) = L \cup {s}
    BY <1>0, Zenon DEF NodesOf
  <2>2. KeysBelow(s) = {x.account : x \in Below(NodesOf(s))}
    BY Zenon DEF KeysBelow
  <2> QED BY <2>1, <2>2
<1>3. LeafNodes(s, MaxDepth) = (IF s.multi THEN {} ELSE {s}) \cup
                                 UNION {{m \in Sealing!ToSet(n.members) : ~m.multi} : n \in L}
  <2>1. L = UNION {Sealing!Levels(s)[d] : d \in 1..MaxDepth}
    BY <1>0, Zenon DEF MultisOf
  <2> QED BY <2>1 DEF LeafNodes
<1>4. Below(NodesOf(s)) = LeafNodes(s, MaxDepth)
  <2>1. CASE s.multi
    <3>1. s \in L
      <4>1. Sealing!Levels(s)[1] = {s}
        BY <2>1, LevelsAre, Zenon
      <4>2. MaxDepth # 0
        <5> SUFFICES ASSUME MaxDepth = 0 PROVE FALSE
          OBVIOUS
        <5>1. Sealing!Levels(s)[1] = {}
          <6>1. 0 + 1 = 1
            OBVIOUS
          <6> QED BY <6>1
        <5> QED BY <4>1, <5>1
      <4>3. 1 \in 1..MaxDepth
        BY <1>1, <4>2
      <4> QED BY <1>0, <4>1, <4>3 DEF MultisOf
    <3>2. \A n \in L : n.multi
      <4>1. \A d \in 1..MaxDepth : d \in 1..(MaxDepth + 1)
        BY <1>1
      <4>2. \A n \in L : \E d \in 1..MaxDepth : n \in Sealing!Levels(s)[d]
        BY <1>0 DEF MultisOf
      <4> QED BY <4>1, <4>2, LevelsAreMulti
    <3>3. NodesOf(s) = L
      BY <1>2, <3>1
    <3>4. {n \in L : ~n.multi} = {}
      BY <3>2
    <3>5. LeafNodes(s, MaxDepth) = UNION {{m \in Sealing!ToSet(n.members) : ~m.multi} : n \in L}
      BY <1>3, <2>1
    <3> QED BY <3>3, <3>4, <3>5
  <2>2. CASE ~s.multi
    <3>1. L = {}
      <4>1. \A d \in 1..MaxDepth : d \in 1..(MaxDepth + 1)
        BY <1>1
      <4>2. \A d \in 1..MaxDepth : Sealing!Levels(s)[d] = {}
        BY <2>2, <4>1, SingleHasNoLevels
      <4> QED BY <1>0, <4>2 DEF MultisOf
    <3>2. Sealing!ToSet(s.members) = {}
      <4>1. s = Sealing!Single(s.account)
        BY <2>2 DEF SignerFine
      <4>2. s.members = << >>
        BY <4>1 DEF Sealing!Single
      <4> QED BY <4>2, EntriesOf
    <3>3. NodesOf(s) = {s}
      BY <1>2, <3>1
    <3>4. LeafNodes(s, MaxDepth) = {s}
      BY <1>3, <2>2, <3>1
    <3> QED BY <2>2, <3>2, <3>3, <3>4
  <2> QED BY <2>1, <2>2
<1> HIDE DEF Below
<1> QED BY <1>2, <1>4

\* A valid signer field is not too deep.
LEMMA ValidIsShallow ==
  ASSUME NEW c, Sealing!Valid(c)
  PROVE  Sealing!Levels(c.signer)[MaxDepth + 1] = {}
<1>1. MaxDepth \in Nat
  BY SignersAssumption
<1>2. CASE c.signer.multi
  BY <1>2 DEF Sealing!Valid, Sealing!SignerOk
<1>3. CASE ~c.signer.multi
  <2>1. MaxDepth + 1 \in 1..(MaxDepth + 1)
    BY <1>1
  <2> QED BY <1>3, <2>1, SingleHasNoLevels
<1> QED BY <1>2, <1>3

\* The keys of a valid signer field are required each once (required_signers).
LEMMA RequiredAreKeys ==
  ASSUME NEW c, Sealing!Valid(c), SignerFine(c.signer)
  PROVE  LET r == Sealing!RequiredSigners(c.signer) IN
           /\ Listing(r) /\ Sealing!ToSet(r) = KeysBelow(c.signer)
           /\ Len(r) = Sealing!Cardinality(KeysBelow(c.signer))
<1>1. PICK s : s = c.signer
  OBVIOUS
<1>2. Sealing!Levels(s)[MaxDepth + 1] = {} /\ SignerFine(s) /\ TreeOf(s)
  BY <1>1, ValidIsShallow DEF SignerFine
<1>3. Listing(Sealing!Leaves(s)) /\ Sealing!ToSet(Sealing!Leaves(s)) = KeysBelow(s)
  BY <1>2, LeavesAreKeys, KeysAreLeaves
<1>4. PICK r : r = Sealing!RequiredSigners(s)
  OBVIOUS
<1>5. /\ Listing(r) /\ \A i, j \in DOMAIN r : r[i] = r[j] => i = j
      /\ Sealing!ToSet(r) = KeysBelow(s)
  BY <1>3, <1>4, RequiredOnce
<1>6. Len(r) = Sealing!Cardinality(KeysBelow(s))
  BY <1>5, OnceCounts
<1> QED BY <1>1, <1>4, <1>5, <1>6

\* Whoever is required signed, and nobody else.
LEMMA SealedBySigners ==
  ASSUME NEW c, NEW sigs, Sealing!Sealable(c, sigs), SignerFine(c.signer), Listing(sigs)
  PROVE  /\ {sigs[i].by : i \in DOMAIN sigs} = KeysBelow(c.signer)
         /\ Len(sigs) = Sealing!Cardinality(KeysBelow(c.signer))
<1>1. PICK r : r = Sealing!RequiredSigners(c.signer)
  OBVIOUS
<1>2. /\ Sealing!Valid(c) /\ Len(sigs) = Len(r)
      /\ \A i \in DOMAIN r : sigs[i] = Sealing!Signature(r[i], c)
  BY <1>1 DEF Sealing!Sealable
<1>3. /\ Listing(r) /\ Sealing!ToSet(r) = KeysBelow(c.signer)
      /\ Len(r) = Sealing!Cardinality(KeysBelow(c.signer))
  BY <1>1, <1>2, RequiredAreKeys
<1>4. DOMAIN sigs = DOMAIN r
  <2>1. DOMAIN sigs = 1..Len(sigs) /\ DOMAIN r = 1..Len(r)
    BY <1>3, ListingIs DEF Listing
  <2> QED BY <1>2, <2>1
<1>5. \A i \in DOMAIN r : sigs[i].by = r[i]
  <2>1. \A a : Sealing!Signature(a, c).by = a
    BY DEF Sealing!Signature
  <2> QED BY <1>2, <2>1
<1>6. {sigs[i].by : i \in DOMAIN sigs} = Sealing!ToSet(r)
  BY <1>4, <1>5, EntriesOf
<1> QED BY <1>2, <1>3, <1>6

-----------------------------------------------------------------------------
(* Permissions read back.                                                  *)

\* The flags of a set that are not for any account, and their group.
SeenIn(kind, F) ==
  {i \in DOMAIN Sealing!FlagOrder :
     Sealing!FlagOrder[i] \in F /\ Sealing!RuleFor[Sealing!FlagOrder[i]][kind] # "Any"}
GroupOf(kind, seen) ==
  LET group(i) == Sealing!RuleFor[Sealing!FlagOrder[i]][kind]
      kept  == CHOOSE i \in seen : \A j \in seen : i <= j
      stops == {i \in seen : group(i) = "Never" \/ group(i) # group(kept)}
      first == CHOOSE i \in stops : \A j \in stops : i <= j
  IN CASE seen = {} -> "Any"
       [] seen # {} /\ stops = {} -> group(kept)
       [] OTHER -> IF group(first) = "Never" THEN "Never" ELSE "mixed"

\* The walk over the flags looks at these only (compute_flag_group).
LEMMA GroupOfSeen ==
  \A kind, F : Sealing!FlagGroup(kind, F) = GroupOf(kind, SeenIn(kind, F))
  BY Zenon DEF Sealing!FlagGroup, GroupOf, SeenIn

\* The flags in question, in their order.
LEMMA FlagsInOrder ==
  /\ DOMAIN Sealing!FlagOrder = 1..15
  /\ Sealing!FlagOrder[1] = "Access" /\ Sealing!FlagOrder[2] = "Owner" /\ Sealing!FlagOrder[3] = "Admin"
  /\ \A i, j \in 1..15 : Sealing!FlagOrder[i] = Sealing!FlagOrder[j] => i = j
  /\ {"Access", "Owner", "Admin"} \subseteq Sealing!Flags
<1>1. /\ DOMAIN Sealing!FlagOrder = 1..15
      /\ Sealing!FlagOrder[1] = "Access" /\ Sealing!FlagOrder[2] = "Owner" /\ Sealing!FlagOrder[3] = "Admin"
      /\ \A i, j \in 1..15 : Sealing!FlagOrder[i] = Sealing!FlagOrder[j] => i = j
  BY DEF Sealing!FlagOrder
<1>2. {"Access", "Owner", "Admin"} \subseteq Sealing!Flags
  BY <1>1 DEF Sealing!Flags
<1> QED BY <1>1, <1>2

\* A flag for any account does not change the group of a set.
LEMMA AccessIsForAny ==
  ASSUME NEW F, NEW kind \in {"entity", "principal", "target"}
  PROVE  SeenIn(kind, F \cup {"Access"}) = SeenIn(kind, F)
<1>1. Sealing!RuleFor["Access"][kind] = "Any"
  BY FlagsInOrder DEF Sealing!RuleFor, Sealing!Rule
<1> QED BY <1>1 DEF SeenIn

\* One flag has one group.
LEMMA OneFlagIsNotMixed ==
  ASSUME NEW kind, NEW n \in Nat
  PROVE  GroupOf(kind, {}) # "mixed" /\
         (Sealing!RuleFor[Sealing!FlagOrder[n]][kind] # "mixed" => GroupOf(kind, {n}) # "mixed")
<1>1. GroupOf(kind, {}) = "Any"
  BY DEF GroupOf
<1>2. ASSUME Sealing!RuleFor[Sealing!FlagOrder[n]][kind] # "mixed" PROVE GroupOf(kind, {n}) # "mixed"
  <2> DEFINE group(i) == Sealing!RuleFor[Sealing!FlagOrder[i]][kind]
             kept  == CHOOSE i \in {n} : \A j \in {n} : i <= j
             stops == {i \in {n} : group(i) = "Never" \/ group(i) # group(kept)}
             first == CHOOSE i \in stops : \A j \in stops : i <= j
  <2>1. GroupOf(kind, {n}) =
          CASE {n} = {} -> "Any"
            [] {n} # {} /\ stops = {} -> group(kept)
            [] OTHER -> IF group(first) = "Never" THEN "Never" ELSE "mixed"
    BY Zenon DEF GroupOf
  <2>2. kept = n
    <3>1. \E i \in {n} : \A j \in {n} : i <= j
      OBVIOUS
    <3>2. kept \in {n}
      BY <3>1
    <3> QED BY <3>2
  <2> HIDE DEF kept
  <2>3. CASE group(n) = "Never"
    <3>1. stops = {n}
      BY <2>3
    <3>2. first = n
      <4>1. \E i \in stops : \A j \in stops : i <= j
        BY <3>1
      <4>2. first \in stops
        BY <4>1
      <4> QED BY <3>1, <4>2
    <3> HIDE DEF stops, first, group
    <3> QED BY <2>1, <2>3, <3>1, <3>2
  <2>4. CASE group(n) # "Never"
    <3>1. stops = {}
      BY <2>2, <2>4
    <3> HIDE DEF stops, first
    <3> QED BY <1>2, <2>1, <2>2, <3>1
  <2> QED BY <2>3, <2>4
<1> QED BY <1>1, <1>2

\* No rule asks for a mixed group.
LEMMA RulesAreNotMixed ==
  \A f \in Sealing!Flags, kind \in {"entity", "principal", "target"} : Sealing!RuleFor[f][kind] # "mixed"
<1> SUFFICES ASSUME NEW f \in Sealing!Flags, NEW kind \in {"entity", "principal", "target"}
             PROVE  Sealing!RuleFor[f][kind] # "mixed"
  OBVIOUS
<1>1. Sealing!Flags = {"Access", "Owner", "Admin", "UpdateInfo", "SendOnBehalf",
                "TokenAdminCreate", "TokenAdminSupply", "TokenAdminModifyBalance",
                "StorageCreate", "StorageCanHold", "StorageDeposit",
                "PermissionDelegateAdd", "PermissionDelegateRemove",
                "ManageCertificate", "MultisigSigner"}
  <2>1. DOMAIN Sealing!FlagOrder = 1..15
    BY DEF Sealing!FlagOrder
  <2>2. 1..15 = {1, 2, 3, 4, 5, 6, 7, 8, 9, 10, 11, 12, 13, 14, 15}
    OBVIOUS
  <2> QED BY <2>1, <2>2 DEF Sealing!Flags, Sealing!FlagOrder
<1>2. Sealing!RuleFor[f] = CASE f = "Access" -> Sealing!Rule(TRUE, "Any", "Any", "Any")
    [] f \in {"Owner", "Admin", "UpdateInfo"} -> Sealing!Rule(FALSE, "Any", "NonIdentifier", "Never")
    [] f = "SendOnBehalf" -> Sealing!Rule(FALSE, "Any", "NonIdentifier", "Token")
    [] f \in {"StorageCreate", "TokenAdminCreate"} -> Sealing!Rule(TRUE, "Network", "NonIdentifier", "Never")
    [] f = "StorageCanHold" -> Sealing!Rule(TRUE, "Storage", "Token", "Never")
    [] f = "StorageDeposit" -> Sealing!Rule(TRUE, "Storage", "Any", "Token")
    [] f = "TokenAdminSupply" -> Sealing!Rule(FALSE, "Token", "NonIdentifier", "Never")
    [] f = "TokenAdminModifyBalance" -> Sealing!Rule(FALSE, "Token", "NonIdentifier", "Any")
    [] f \in {"PermissionDelegateAdd", "PermissionDelegateRemove"} ->
         Sealing!Rule(FALSE, "Any", "NonIdentifier", "Any")
    [] f = "ManageCertificate" -> Sealing!Rule(TRUE, "Any", "Any", "Never")
    [] f = "MultisigSigner" -> Sealing!Rule(FALSE, "Multisig", "NonIdentifierOrMultisig", "Never")
  BY DEF Sealing!RuleFor
<1>3. ASSUME NEW a, NEW b, NEW c, NEW d, Sealing!RuleFor[f] = Sealing!Rule(a, b, c, d),
             b # "mixed", c # "mixed", d # "mixed"
      PROVE  Sealing!RuleFor[f][kind] # "mixed"
  BY <1>3 DEF Sealing!Rule
<1>4. CASE f = "Access"
  <2>1. Sealing!RuleFor[f] = Sealing!Rule(TRUE, "Any", "Any", "Any")
    BY <1>2, <1>4
  <2> QED BY <1>3, <2>1
<1>5. CASE f \in {"Owner", "Admin", "UpdateInfo"}
  <2>1. Sealing!RuleFor[f] = Sealing!Rule(FALSE, "Any", "NonIdentifier", "Never")
    BY <1>2, <1>5
  <2> QED BY <1>3, <2>1
<1>6. CASE f = "SendOnBehalf"
  <2>1. Sealing!RuleFor[f] = Sealing!Rule(FALSE, "Any", "NonIdentifier", "Token")
    BY <1>2, <1>6
  <2> QED BY <1>3, <2>1
<1>7. CASE f \in {"StorageCreate", "TokenAdminCreate"}
  <2>1. Sealing!RuleFor[f] = Sealing!Rule(TRUE, "Network", "NonIdentifier", "Never")
    BY <1>2, <1>7
  <2> QED BY <1>3, <2>1
<1>8. CASE f = "StorageCanHold"
  <2>1. Sealing!RuleFor[f] = Sealing!Rule(TRUE, "Storage", "Token", "Never")
    BY <1>2, <1>8
  <2> QED BY <1>3, <2>1
<1>9. CASE f = "StorageDeposit"
  <2>1. Sealing!RuleFor[f] = Sealing!Rule(TRUE, "Storage", "Any", "Token")
    BY <1>2, <1>9
  <2> QED BY <1>3, <2>1
<1>10. CASE f = "TokenAdminSupply"
  <2>1. Sealing!RuleFor[f] = Sealing!Rule(FALSE, "Token", "NonIdentifier", "Never")
    BY <1>2, <1>10
  <2> QED BY <1>3, <2>1
<1>11. CASE f = "TokenAdminModifyBalance"
  <2>1. Sealing!RuleFor[f] = Sealing!Rule(FALSE, "Token", "NonIdentifier", "Any")
    BY <1>2, <1>11
  <2> QED BY <1>3, <2>1
<1>12. CASE f \in {"PermissionDelegateAdd", "PermissionDelegateRemove"}
  <2>1. Sealing!RuleFor[f] = Sealing!Rule(FALSE, "Any", "NonIdentifier", "Any")
    BY <1>2, <1>12
  <2> QED BY <1>3, <2>1
<1>13. CASE f = "ManageCertificate"
  <2>1. Sealing!RuleFor[f] = Sealing!Rule(TRUE, "Any", "Any", "Never")
    BY <1>2, <1>13
  <2> QED BY <1>3, <2>1
<1>14. CASE f = "MultisigSigner"
  <2>1. Sealing!RuleFor[f] = Sealing!Rule(FALSE, "Multisig", "NonIdentifierOrMultisig", "Never")
    BY <1>2, <1>14
  <2> QED BY <1>3, <2>1
<1> HIDE DEF Sealing!RuleFor
<1> QED BY <1>1, <1>4, <1>5, <1>6, <1>7, <1>8, <1>9, <1>10, <1>11, <1>12, <1>13, <1>14

\* Flags that do not mix do not mix when they are normalised, and normalising
\* them again changes nothing (TryFrom<BigInt> for BaseSet).
LEMMA NormalizedOnce ==
  ASSUME NEW F, ~Sealing!Mixed(F)
  PROVE  /\ ~Sealing!Mixed(Sealing!Normalize(F))
         /\ Sealing!Normalize(Sealing!Normalize(F)) = Sealing!Normalize(F)
<1>1. \/ Sealing!Normalize(F) = {}
      \/ Sealing!Normalize(F) = {"Owner", "Access"} \/ Sealing!Normalize(F) = {"Admin", "Access"}
      \/ Sealing!Normalize(F) = F \cup {"Access"} /\ "Owner" \notin F /\ "Admin" \notin F
  BY DEF Sealing!Normalize
<1>2. Sealing!Normalize(Sealing!Normalize(F)) = Sealing!Normalize(F)
  <2>1. PICK N : N = Sealing!Normalize(F)
    OBVIOUS
  <2>2. N = {} \/ ("Access" \in N /\ ("Owner" \in N => N = {"Owner", "Access"})
                                  /\ ("Admin" \in N => N = {"Admin", "Access"}))
    BY <1>1, <2>1
  <2>3. Sealing!Normalize(N) = N
    BY <2>2 DEF Sealing!Normalize
  <2> QED BY <2>1, <2>3
<1>3. ASSUME NEW kind \in {"entity", "principal", "target"}
      PROVE  Sealing!FlagGroup(kind, Sealing!Normalize(F)) # "mixed"
  <2>1. ASSUME NEW f \in Sealing!Flags, NEW n \in 1..15, Sealing!FlagOrder[n] = f,
               Sealing!Normalize(F) = {f, "Access"}
        PROVE  Sealing!FlagGroup(kind, Sealing!Normalize(F)) # "mixed"
    <3>1. {f, "Access"} = {f} \cup {"Access"}
      OBVIOUS
    <3>2. SeenIn(kind, Sealing!Normalize(F)) = SeenIn(kind, {f})
      BY <2>1, <3>1, AccessIsForAny
    <3>3. SeenIn(kind, {f}) = {} \/ SeenIn(kind, {f}) = {n}
      BY <2>1, FlagsInOrder DEF SeenIn
    <3>4. n \in Nat /\ Sealing!RuleFor[Sealing!FlagOrder[n]][kind] # "mixed"
      BY <2>1, RulesAreNotMixed
    <3>5. GroupOf(kind, {}) # "mixed" /\ GroupOf(kind, {n}) # "mixed"
      BY <3>4, OneFlagIsNotMixed
    <3> QED BY <3>2, <3>3, <3>5, GroupOfSeen
  <2>2. CASE Sealing!Normalize(F) = {}
    <3>1. SeenIn(kind, {}) = {}
      BY DEF SeenIn
    <3>2. GroupOf(kind, {}) # "mixed"
      BY OneFlagIsNotMixed
    <3> QED BY <2>2, <3>1, <3>2, GroupOfSeen
  <2>3. CASE Sealing!Normalize(F) = {"Owner", "Access"} \/ Sealing!Normalize(F) = {"Admin", "Access"}
    <3>1. 2 \in 1..15 /\ 3 \in 1..15
      OBVIOUS
    <3> QED BY <2>1, <2>3, <3>1, FlagsInOrder
  <2>4. CASE Sealing!Normalize(F) = F \cup {"Access"}
    <3>1. Sealing!FlagGroup(kind, F) # "mixed"
      BY DEF Sealing!Mixed
    <3> QED BY <2>4, <3>1, AccessIsForAny, GroupOfSeen
  <2> QED BY <1>1, <2>2, <2>3, <2>4
<1> QED BY <1>2, <1>3 DEF Sealing!Mixed

-----------------------------------------------------------------------------
(* The wire form read back.                                                *)

\* An operation that reads back as it is.
OpFine(op) ==
  /\ op = [field \in DOMAIN op |-> op[field]] /\ "op" \in DOMAIN op
  /\ op.op \in OperationKinds
  /\ Sealing!ReadableOp(op) /\ Sealing!ReadOp(op) = op
  /\ op.op = "manageCertificate" =>
       {"method", "byValue", "hash", "subject", "intermediates"} \subseteq DOMAIN op

\* Permissions from flags read back as they are.
LEMMA FlagsReadBack ==
  ASSUME NEW F, NEW external, ~Sealing!Mixed(F), NEW p,
         p = [ok |-> TRUE, base |-> Sealing!Normalize(F), external |-> external]
  PROVE  Sealing!ReadPermissions(p) = p
<1>1. p.ok = TRUE /\ p.base = Sealing!Normalize(F) /\ p.external = external
  OBVIOUS
<1>2. PICK N : N = Sealing!Normalize(F)
  OBVIOUS
<1>3. ~Sealing!Mixed(N) /\ Sealing!Normalize(N) = N
  BY <1>2, NormalizedOnce
<1>4. Sealing!FromFlags(N, external) = [ok |-> TRUE, base |-> N, external |-> external]
  BY <1>3 DEF Sealing!FromFlags
<1> QED BY <1>1, <1>2, <1>4 DEF Sealing!ReadPermissions

\* Operations of the catalogue read back as they are once they grant the flags
\* collected.
LEMMA GrantingReadsBack ==
  ASSUME NEW op \in Catalogue, NEW F, Sealing!Confers(op) => ~Sealing!Mixed(F)
  PROVE  OpFine(Sealing!Granting(op, Sealing!FromFlags(F, {})))
<1>1. /\ op = [field \in DOMAIN op |-> op[field]] /\ "op" \in DOMAIN op
      /\ op.op \in OperationKinds
      /\ op.op = "modifyPermissions" => "permissions" \in DOMAIN op
      /\ op.op = "setInfo" => "default" \in DOMAIN op
      /\ op.op = "manageCertificate" =>
           {"method", "byValue", "hash", "subject", "intermediates"} \subseteq DOMAIN op
  BY CatalogueAssumption
<1>2. PICK p : p = Sealing!FromFlags(F, {})
  OBVIOUS
<1>3. CASE ~Sealing!Confers(op)
  <2>1. Sealing!Granting(op, p) = op
    BY <1>3 DEF Sealing!Granting
  <2>2. /\ op.op = "modifyPermissions" => Sealing!ReadPermissions(op.permissions) = op.permissions
        /\ op.op = "setInfo" => Sealing!ReadPermissions(op.default) = op.default
    BY <1>3 DEF Sealing!Confers, Sealing!ReadPermissions
  <2>3. Sealing!ReadableOp(op)
    BY <2>2 DEF Sealing!ReadableOp
  <2>4. Sealing!ReadOp(op) = op
    <3>1. CASE op.op = "modifyPermissions"
      <4>1. Sealing!ReadOp(op) = [op EXCEPT !.permissions = Sealing!ReadPermissions(op.permissions)]
        BY <3>1 DEF Sealing!ReadOp
      <4> QED BY <1>1, <2>2, <3>1, <4>1
    <3>2. CASE op.op = "setInfo"
      <4>1. Sealing!ReadOp(op) = [op EXCEPT !.default = Sealing!ReadPermissions(op.default)]
        BY <3>2 DEF Sealing!ReadOp
      <4> QED BY <1>1, <2>2, <3>2, <4>1
    <3>3. CASE op.op # "modifyPermissions" /\ op.op # "setInfo"
      BY <3>3 DEF Sealing!ReadOp
    <3> QED BY <3>1, <3>2, <3>3
  <2> QED BY <1>1, <1>2, <2>1, <2>3, <2>4 DEF OpFine
<1>4. CASE Sealing!Confers(op)
  <2>1. ~Sealing!Mixed(F) /\ p = [ok |-> TRUE, base |-> Sealing!Normalize(F), external |-> {}]
    BY <1>2, <1>4 DEF Sealing!FromFlags
  <2>2. CASE op.op = "setInfo"
    <3>1. PICK g : g = Sealing!Granting(op, p)
      OBVIOUS
    <3>2. g = [op EXCEPT !.default = p]
      BY <1>4, <2>2, <3>1 DEF Sealing!Granting
    <3>3. g = [field \in DOMAIN g |-> g[field]] /\ "op" \in DOMAIN g /\ g.op = op.op /\ g.op = "setInfo" /\ g.default = p
      BY <1>1, <2>2, <3>2
    <3>4. Sealing!ReadPermissions(p) = p
      BY <2>1, FlagsReadBack
    <3>5. Sealing!ReadableOp(g)
      BY <3>3, <3>4 DEF Sealing!ReadableOp
    <3>6. Sealing!ReadOp(g) = [g EXCEPT !.default = p]
      BY <3>3, <3>4 DEF Sealing!ReadOp
    <3>7. [g EXCEPT !.default = p] = g
      BY <3>3
    <3> QED BY <1>1, <1>2, <3>1, <3>3, <3>5, <3>6, <3>7 DEF OpFine
  <2>3. CASE op.op = "modifyPermissions"
    <3>1. PICK g : g = Sealing!Granting(op, p)
      OBVIOUS
    <3>2. PICK q : q = [p EXCEPT !.external = op.permissions.external]
      OBVIOUS
    <3>3. g = [op EXCEPT !.permissions = q]
      BY <1>4, <2>3, <3>1, <3>2 DEF Sealing!Granting
    <3>4. g = [field \in DOMAIN g |-> g[field]] /\ "op" \in DOMAIN g /\ g.op = op.op
            /\ g.op = "modifyPermissions" /\ g.permissions = q
      BY <1>1, <2>3, <3>3
    <3>5. q = [ok |-> TRUE, base |-> Sealing!Normalize(F), external |-> op.permissions.external]
      BY <2>1, <3>2
    <3>6. Sealing!ReadPermissions(q) = q
      BY <2>1, <3>5, FlagsReadBack
    <3>7. Sealing!ReadableOp(g)
      BY <3>4, <3>6 DEF Sealing!ReadableOp
    <3>8. Sealing!ReadOp(g) = [g EXCEPT !.permissions = q]
      BY <3>4, <3>6 DEF Sealing!ReadOp
    <3>9. [g EXCEPT !.permissions = q] = g
      BY <3>4
    <3> QED BY <1>1, <1>2, <3>1, <3>4, <3>7, <3>8, <3>9 DEF OpFine
  <2> QED BY <1>4, <2>2, <2>3 DEF Sealing!Confers
<1> QED BY <1>3, <1>4

\* An operation on the wire reads back as it is there, and is written so again.
LEMMA WireReadsBack ==
  ASSUME NEW op, OpFine(op)
  PROVE  LET w == Sealing!WireOp(op) IN
           /\ Sealing!ReadableOp(w) /\ Sealing!ReadOp(w) = w /\ Sealing!WireOp(w) = w
           /\ w.op = op.op
           /\ op.op # "manageCertificate" => w = op
           /\ op.op = "manageCertificate" =>
                /\ w.method = op.method /\ w.hash = op.hash /\ w.subject = op.subject
                /\ w.intermediates = op.intermediates
                /\ op.method # "subtract" => w.byValue = op.byValue
<1>1. CASE op.op = "manageCertificate" /\ op.method = "subtract"
  <2>1. PICK w : w = Sealing!WireOp(op)
    OBVIOUS
  <2>2. w = [op EXCEPT !.byValue = FALSE]
    BY <1>1, <2>1 DEF Sealing!WireOp
  <2>3. {"op", "method", "byValue", "hash", "subject", "intermediates"} \subseteq DOMAIN op
    BY <1>1 DEF OpFine
  <2>4. /\ w.op = op.op /\ w.method = op.method /\ w.hash = op.hash /\ w.subject = op.subject
        /\ w.intermediates = op.intermediates /\ w.byValue = FALSE
        /\ w = [field \in DOMAIN w |-> w[field]]
    BY <2>2, <2>3
  <2>5. Sealing!ReadableOp(w) /\ Sealing!ReadOp(w) = w
    BY <1>1, <2>4 DEF Sealing!ReadableOp, Sealing!ReadOp
  <2>6. Sealing!WireOp(w) = w
    BY <1>1, <2>4 DEF Sealing!WireOp
  <2> QED BY <1>1, <2>1, <2>4, <2>5, <2>6
<1>2. CASE ~(op.op = "manageCertificate" /\ op.method = "subtract")
  <2>1. Sealing!WireOp(op) = op
    BY <1>2 DEF Sealing!WireOp
  <2> QED BY <1>2, <2>1 DEF OpFine
<1> QED BY <1>1, <1>2

\* A block whose fields are all there, for an account and a signer, with
\* operations that read back.
AsRecord(c) ==
  [version |-> c.version, purpose |-> c.purpose, network |-> c.network, subnet |-> c.subnet,
   idempotent |-> c.idempotent, late |-> c.late, account |-> c.account, signer |-> c.signer,
   previous |-> c.previous, ops |-> c.ops]
BlockFine(c) ==
  /\ c = AsRecord(c)
  /\ c.account # Sealing!NoAccount /\ SignerFine(c.signer)
  /\ \A i \in DOMAIN c.ops : OpFine(c.ops[i])

\* The block with its operations as they are on the wire.
OnWire(c) == [c EXCEPT !.ops = [i \in DOMAIN c.ops |-> Sealing!WireOp(c.ops[i])]]

\* It has the other fields of the block.
LEMMA OnWireIs ==
  ASSUME NEW c, BlockFine(c)
  PROVE  LET b == OnWire(c) IN
           /\ b.version = c.version /\ b.purpose = c.purpose /\ b.network = c.network
           /\ b.subnet = c.subnet /\ b.idempotent = c.idempotent /\ b.late = c.late
           /\ b.account = c.account /\ b.signer = c.signer /\ b.previous = c.previous
           /\ b.ops = [i \in DOMAIN c.ops |-> Sealing!WireOp(c.ops[i])]
           /\ DOMAIN b.ops = DOMAIN c.ops
           /\ \A i \in DOMAIN c.ops : b.ops[i] = Sealing!WireOp(c.ops[i])
<1>1. PICK w : w = [i \in DOMAIN c.ops |-> Sealing!WireOp(c.ops[i])]
  OBVIOUS
<1>2. PICK b : b = OnWire(c)
  OBVIOUS
<1>3. b = [c EXCEPT !.ops = w] /\ c = AsRecord(c)
  BY <1>1, <1>2 DEF OnWire, BlockFine
<1>4. /\ b.version = c.version /\ b.purpose = c.purpose /\ b.network = c.network
      /\ b.subnet = c.subnet /\ b.idempotent = c.idempotent /\ b.late = c.late
      /\ b.account = c.account /\ b.signer = c.signer /\ b.previous = c.previous
      /\ b.ops = w
  BY <1>3 DEF AsRecord
<1>5. DOMAIN w = DOMAIN c.ops /\ \A i \in DOMAIN c.ops : w[i] = Sealing!WireOp(c.ops[i])
  BY <1>1
<1> QED BY <1>1, <1>2, <1>4, <1>5

\* It is valid when the block is: no rule looks at how a certificate to be
\* removed is given (ManageCertificate::validate).
LEMMA OnWireValid ==
  ASSUME NEW c, BlockFine(c), Sealing!Valid(c)
  PROVE  Sealing!Valid(OnWire(c))
<1>1. PICK b : b = OnWire(c)
  OBVIOUS
<1>2. /\ b.version = c.version /\ b.purpose = c.purpose /\ b.network = c.network
      /\ b.subnet = c.subnet /\ b.idempotent = c.idempotent /\ b.late = c.late
      /\ b.account = c.account /\ b.signer = c.signer /\ b.previous = c.previous
      /\ DOMAIN b.ops = DOMAIN c.ops
      /\ \A i \in DOMAIN c.ops : b.ops[i] = Sealing!WireOp(c.ops[i])
  BY <1>1, OnWireIs
<1>3. \A i \in DOMAIN c.ops : OpFine(c.ops[i])
  BY DEF BlockFine
<1>4. ASSUME NEW i \in DOMAIN c.ops
      PROVE  /\ b.ops[i].op = c.ops[i].op
             /\ c.ops[i].op # "manageCertificate" => b.ops[i] = c.ops[i]
             /\ c.ops[i].op = "manageCertificate" =>
                  /\ b.ops[i].method = c.ops[i].method /\ b.ops[i].hash = c.ops[i].hash
                  /\ b.ops[i].subject = c.ops[i].subject /\ b.ops[i].intermediates = c.ops[i].intermediates
                  /\ c.ops[i].method # "subtract" => b.ops[i].byValue = c.ops[i].byValue
  BY <1>2, <1>3, WireReadsBack
<1>5. \A kind : Sealing!OfKind(b, kind) = Sealing!OfKind(c, kind)
  BY <1>2, <1>4 DEF Sealing!OfKind
<1>6. Sealing!Known(b) = Sealing!Known(c) /\ \A amount : Sealing!NumericOk(b, amount) = Sealing!NumericOk(c, amount)
  BY <1>2 DEF Sealing!Known, Sealing!NumericOk
<1>7. ASSUME NEW i \in DOMAIN c.ops, Sealing!OperationOk(c, i) PROVE Sealing!OperationOk(b, i)
  <2>1. PICK op : op = c.ops[i]
    OBVIOUS
  <2>2. \A o : Sealing!TokenAmountOk(b, o) = Sealing!TokenAmountOk(c, o)
    BY <1>6 DEF Sealing!TokenAmountOk
  <2>3. CASE op.op = "send"
    <3>1. Sealing!SendOk(c, op)
      BY <1>7, <2>1, <2>3 DEF Sealing!OperationOk
    <3>2. Sealing!SendOk(b, op)
      BY <1>2, <1>6, <2>2, <3>1 DEF Sealing!SendOk
    <3> QED BY <1>4, <2>1, <2>3, <3>2 DEF Sealing!OperationOk
  <2>4. CASE op.op = "receive"
    <3>1. Sealing!ReceiveOk(c, op)
      BY <1>7, <2>1, <2>4 DEF Sealing!OperationOk
    <3>2. Sealing!ReceiveOk(b, op)
      BY <1>2, <2>2, <3>1 DEF Sealing!ReceiveOk
    <3> QED BY <1>4, <2>1, <2>4, <3>2 DEF Sealing!OperationOk
  <2>5. CASE op.op = "setRep"
    <3>1. Sealing!SetRepOk(c, op)
      BY <1>7, <2>1, <2>5 DEF Sealing!OperationOk
    <3>2. Sealing!SetRepOk(b, op)
      BY <1>2, <1>5, <3>1 DEF Sealing!SetRepOk
    <3> QED BY <1>4, <2>1, <2>5, <3>2 DEF Sealing!OperationOk
  <2>6. CASE op.op = "setInfo"
    <3>1. Sealing!SetInfoOk(c, op)
      BY <1>7, <2>1, <2>6 DEF Sealing!OperationOk
    <3>2. Sealing!SetInfoOk(b, op)
      BY <1>2, <1>6, <3>1 DEF Sealing!SetInfoOk
    <3> QED BY <1>4, <2>1, <2>6, <3>2 DEF Sealing!OperationOk
  <2>7. CASE op.op = "modifyPermissions"
    <3>1. Sealing!ModifyPermissionsOk(c, op)
      BY <1>7, <2>1, <2>7 DEF Sealing!OperationOk
    <3>2. Sealing!PayloadOk(b, op) = Sealing!PayloadOk(c, op)
      BY <1>2, <1>6, Zenon DEF Sealing!PayloadOk
    <3>3. Sealing!NoDuplicateSet(b)
      <4>1. \A j \in Sealing!OfKind(c, "modifyPermissions") : b.ops[j] = c.ops[j]
        BY <1>4 DEF Sealing!OfKind
      <4>2. Sealing!NoDuplicateSet(c)
        BY <3>1 DEF Sealing!ModifyPermissionsOk
      <4> QED BY <1>2, <1>5, <4>1, <4>2 DEF Sealing!NoDuplicateSet
    <3>4. Sealing!ModifyPermissionsOk(b, op)
      BY <3>1, <3>2, <3>3 DEF Sealing!ModifyPermissionsOk
    <3> QED BY <1>4, <2>1, <2>7, <3>4 DEF Sealing!OperationOk
  <2>8. CASE op.op = "createIdentifier"
    <3>1. Sealing!CreateIdentifierOk(c, op, i - 1)
      BY <1>7, <2>1, <2>8 DEF Sealing!OperationOk
    <3>2. Sealing!MultisigArgumentsOk(b, op) = Sealing!MultisigArgumentsOk(c, op)
      BY <1>6, Zenon DEF Sealing!MultisigArgumentsOk
    <3>3. Sealing!CreateIdentifierOk(b, op, i - 1)
      BY <1>2, <3>1, <3>2 DEF Sealing!CreateIdentifierOk
    <3> QED BY <1>4, <2>1, <2>8, <3>3 DEF Sealing!OperationOk
  <2>9. CASE op.op = "tokenAdminSupply"
    <3>1. Sealing!TokenAdminSupplyOk(c, op)
      BY <1>7, <2>1, <2>9 DEF Sealing!OperationOk
    <3>2. Sealing!TokenAdminSupplyOk(b, op)
      BY <1>2, <1>6, <3>1 DEF Sealing!TokenAdminSupplyOk
    <3> QED BY <1>4, <2>1, <2>9, <3>2 DEF Sealing!OperationOk
  <2>10. CASE op.op = "tokenAdminModifyBalance"
    <3>1. Sealing!TokenAdminModifyBalanceOk(c, op)
      BY <1>7, <2>1, <2>10 DEF Sealing!OperationOk
    <3>2. Sealing!TokenAdminModifyBalanceOk(b, op)
      BY <1>2, <2>2, <3>1 DEF Sealing!TokenAdminModifyBalanceOk
    <3> QED BY <1>4, <2>1, <2>10, <3>2 DEF Sealing!OperationOk
  <2>11. CASE op.op = "manageCertificate"
    <3>1. Sealing!ManageCertificateOk(c, op)
      BY <1>7, <2>1, <2>11 DEF Sealing!OperationOk
    <3>2. \A j \in Sealing!OfKind(c, "manageCertificate") : b.ops[j].hash = c.ops[j].hash
      BY <1>4 DEF Sealing!OfKind
    <3>3. PICK w : w = b.ops[i]
      OBVIOUS
    <3>4. /\ w.op = op.op /\ w.method = op.method /\ w.subject = op.subject /\ w.intermediates = op.intermediates
          /\ op.method # "subtract" => w.byValue = op.byValue
      BY <1>4, <2>1, <2>11, <3>3
    <3>5. Sealing!ManageCertificateOk(b, w)
      BY <1>2, <1>5, <3>1, <3>2, <3>4 DEF Sealing!ManageCertificateOk
    <3> QED BY <2>11, <3>3, <3>4, <3>5 DEF Sealing!OperationOk
  <2>12. op.op \in OperationKinds
    BY <1>3, <2>1 DEF OpFine
  <2> QED BY <2>3, <2>4, <2>5, <2>6, <2>7, <2>8, <2>9, <2>10, <2>11, <2>12 DEF OperationKinds
<1>8. Sealing!SignerOk(b)
  <2>1. Sealing!SignerOk(c)
    BY DEF Sealing!Valid
  <2>2. Sealing!SignerOk(b) = Sealing!SignerOk(c)
    BY <1>2, <1>6, Zenon DEF Sealing!SignerOk
  <2> QED BY <2>1, <2>2
<1>9. \A i \in DOMAIN b.ops : (b.purpose = "fee" => b.ops[i].op = "send") /\ Sealing!OperationOk(b, i)
  <2>1. \A i \in DOMAIN c.ops : (c.purpose = "fee" => c.ops[i].op = "send") /\ Sealing!OperationOk(c, i)
    BY DEF Sealing!Valid
  <2> QED BY <1>2, <1>4, <1>7, <2>1
<1>10. Sealing!Valid(b)
  <2>1. /\ c.network # "negative" /\ c.subnet # "negative" /\ c.account.type # "multisig"
        /\ c.version = 1 => c.purpose = "generic" /\ ~c.signer.multi
        /\ c.idempotent # "none" => Sealing!Known(c) /\ c.idempotent # "long"
    BY DEF Sealing!Valid
  <2> QED BY <1>2, <1>6, <1>8, <1>9, <2>1 DEF Sealing!Valid
<1> QED BY <1>1, <1>10

\* What the encoding of a block holds.
LEMMA EncodeIs ==
  ASSUME NEW c
  PROVE  LET e == Sealing!Encode(c) IN
           /\ e.version = c.version /\ e.purpose = (IF c.version = 1 THEN "generic" ELSE c.purpose)
           /\ e.network = c.network
           /\ e.subnet = c.subnet /\ e.idempotent = c.idempotent /\ e.late = c.late
           /\ e.account = c.account /\ e.signer = Sealing!WireSigner(c) /\ e.previous = c.previous
           /\ e.ops = [i \in DOMAIN c.ops |-> Sealing!WireOp(c.ops[i])]
           /\ e = AsRecord(e)
<1>1. PICK p, w : p = (IF c.version = 1 THEN "generic" ELSE c.purpose) /\ w = [i \in DOMAIN c.ops |-> Sealing!WireOp(c.ops[i])]
  OBVIOUS
<1>2. PICK s : s = Sealing!WireSigner(c)
  OBVIOUS
<1>3. PICK e : e = Sealing!Encode(c)
  OBVIOUS
<1>4. e = [version |-> c.version, purpose |-> p,
   network |-> c.network, subnet |-> c.subnet, idempotent |-> c.idempotent,
   late |-> c.late, account |-> c.account, signer |-> s,
   previous |-> c.previous, ops |-> w]
  BY <1>1, <1>2, <1>3, Zenon DEF Sealing!Encode
<1>5. /\ e.version = c.version /\ e.purpose = p /\ e.network = c.network
      /\ e.subnet = c.subnet /\ e.idempotent = c.idempotent /\ e.late = c.late
      /\ e.account = c.account /\ e.signer = s /\ e.previous = c.previous
      /\ e.ops = w /\ e = AsRecord(e)
  BY <1>4 DEF AsRecord
<1> QED BY <1>1, <1>2, <1>3, <1>5

\* One signer is told from another by its account.
LEMMA SingleTells ==
  \A a, b : /\ Sealing!Single(a) = Sealing!Single(b) => a = b
            /\ ~Sealing!Single(a).multi
<1>1. \A a : Sealing!Single(a).account = a
  BY DEF Sealing!Single
<1> QED BY <1>1 DEF Sealing!Single

\* What was encoded is decoded to the block, operations as on the wire.
LEMMA RoundTrip ==
  ASSUME NEW c, BlockFine(c), Sealing!Valid(c)
  PROVE  /\ Sealing!Decode(Sealing!Encode(c)) = OnWire(c)
         /\ Sealing!Encode(OnWire(c)) = Sealing!Encode(c)
<1>1. PICK w : w = [i \in DOMAIN c.ops |-> Sealing!WireOp(c.ops[i])]
  OBVIOUS
<1>2. PICK e : e = Sealing!Encode(c)
  OBVIOUS
<1>3. c.version = 1 => c.purpose = "generic"
  BY DEF Sealing!Valid
<1>4. /\ e.version = c.version /\ e.purpose = c.purpose /\ e.network = c.network
      /\ e.subnet = c.subnet /\ e.idempotent = c.idempotent /\ e.late = c.late
      /\ e.account = c.account /\ e.signer = Sealing!WireSigner(c) /\ e.previous = c.previous
      /\ e.ops = w /\ e = AsRecord(e)
  BY <1>1, <1>2, <1>3, EncodeIs
<1>5. ASSUME NEW i \in DOMAIN c.ops
      PROVE  w[i] = Sealing!WireOp(c.ops[i]) /\ Sealing!ReadOp(w[i]) = w[i] /\ Sealing!WireOp(w[i]) = w[i]
  <2>1. OpFine(c.ops[i]) /\ w[i] = Sealing!WireOp(c.ops[i])
    BY <1>1 DEF BlockFine
  <2> QED BY <2>1, WireReadsBack
<1>6. DOMAIN w = DOMAIN c.ops
  BY <1>1
<1>7. [i \in DOMAIN w |-> Sealing!ReadOp(w[i])] = w /\ [i \in DOMAIN w |-> Sealing!WireOp(w[i])] = w
  BY <1>1, <1>5, <1>6
<1>8. PICK s : s = IF e.signer = Sealing!NoSigner THEN Sealing!Single(e.account) ELSE e.signer
  OBVIOUS
<1>9. s = c.signer
  <2>1. c.signer # Sealing!NoSigner
    BY DEF BlockFine, SignerFine
  <2> QED BY <1>4, <1>8, <2>1 DEF Sealing!WireSigner
<1>10. Sealing!Decode(e) = [e EXCEPT !.signer = c.signer, !.ops = w]
  <2>1. PICK v : v = [i \in DOMAIN e.ops |-> Sealing!ReadOp(e.ops[i])]
    OBVIOUS
  <2>2. v = w
    BY <1>4, <1>7, <2>1
  <2>3. Sealing!Decode(e) = [e EXCEPT !.signer = s, !.ops = v]
    BY <1>8, <2>1 DEF Sealing!Decode
  <2> QED BY <1>9, <2>2, <2>3
<1>11. OnWire(c) = [c EXCEPT !.ops = w] /\ c = AsRecord(c)
  BY <1>1 DEF OnWire, BlockFine
<1>12. [e EXCEPT !.signer = c.signer, !.ops = w] = [c EXCEPT !.ops = w]
  <2>1. PICK x, y : x = [e EXCEPT !.signer = c.signer, !.ops = w] /\ y = [c EXCEPT !.ops = w]
    OBVIOUS
  <2>2. /\ x.version = c.version /\ x.purpose = c.purpose /\ x.network = c.network
        /\ x.subnet = c.subnet /\ x.idempotent = c.idempotent /\ x.late = c.late
        /\ x.account = c.account /\ x.signer = c.signer /\ x.previous = c.previous
        /\ x.ops = w /\ x = AsRecord(x)
    BY <1>4, <2>1 DEF AsRecord
  <2>3. /\ y.version = c.version /\ y.purpose = c.purpose /\ y.network = c.network
        /\ y.subnet = c.subnet /\ y.idempotent = c.idempotent /\ y.late = c.late
        /\ y.account = c.account /\ y.signer = c.signer /\ y.previous = c.previous
        /\ y.ops = w /\ y = AsRecord(y)
    BY <1>11, <2>1 DEF AsRecord
  <2>4. AsRecord(x) = AsRecord(y)
    BY <2>2, <2>3 DEF AsRecord
  <2> QED BY <2>1, <2>2, <2>3, <2>4
<1>13. Sealing!Encode(OnWire(c)) = e
  <2>1. PICK b : b = OnWire(c)
    OBVIOUS
  <2>2. /\ b.version = c.version /\ b.purpose = c.purpose /\ b.network = c.network
        /\ b.subnet = c.subnet /\ b.idempotent = c.idempotent /\ b.late = c.late
        /\ b.account = c.account /\ b.signer = c.signer /\ b.previous = c.previous
        /\ b.ops = w
    BY <1>1, <2>1, OnWireIs
  <2>3. PICK f : f = Sealing!Encode(b)
    OBVIOUS
  <2>4. Sealing!WireSigner(b) = Sealing!WireSigner(c)
    BY <2>2 DEF Sealing!WireSigner
  <2>5. [i \in DOMAIN b.ops |-> Sealing!WireOp(b.ops[i])] = w
    BY <1>7, <2>2
  <2>6. /\ f.version = c.version /\ f.purpose = c.purpose /\ f.network = c.network
        /\ f.subnet = c.subnet /\ f.idempotent = c.idempotent /\ f.late = c.late
        /\ f.account = c.account /\ f.signer = Sealing!WireSigner(c) /\ f.previous = c.previous
        /\ f.ops = w /\ f = AsRecord(f)
    BY <1>3, <2>2, <2>3, <2>4, <2>5, EncodeIs
  <2>7. AsRecord(f) = AsRecord(e)
    BY <1>4, <2>6 DEF AsRecord
  <2> QED BY <1>4, <2>1, <2>3, <2>6, <2>7
<1> QED BY <1>2, <1>10, <1>11, <1>12, <1>13

\* The bytes of a sealed block can be decoded: the members that are no multisig
\* signed, so they are no identifiers (parse_multisig).
LEMMA SealedDecodes ==
  ASSUME NEW c, NEW sigs, BlockFine(c), Sealing!Sealable(c, sigs)
  PROVE  Sealing!Decodable(Sealing!Encode(c))
<1>1. PICK e : e = Sealing!Encode(c)
  OBVIOUS
<1>2. /\ e.account = c.account /\ e.signer = Sealing!WireSigner(c)
      /\ e.ops = [i \in DOMAIN c.ops |-> Sealing!WireOp(c.ops[i])]
  BY <1>1, EncodeIs
<1>3. PICK r : r = Sealing!RequiredSigners(c.signer)
  OBVIOUS
<1>4. /\ Sealing!Valid(c) /\ SignerFine(c.signer) /\ c.account # Sealing!NoAccount
      /\ \A i \in DOMAIN r : ~Sealing!IsIdentifier(r[i])
  BY <1>3 DEF Sealing!Sealable, BlockFine
<1>5. Sealing!ToSet(r) = KeysBelow(c.signer)
  BY <1>3, <1>4, RequiredAreKeys
<1>6. \A a \in KeysBelow(c.signer) : ~Sealing!IsIdentifier(a)
  BY <1>4, <1>5, EntriesOf
<1>7. e.signer # Sealing!Single(e.account)
  BY <1>2, <1>4, SingleTells DEF Sealing!WireSigner, Sealing!NoSigner
<1>8. ASSUME e.signer.multi
      PROVE  /\ Sealing!Levels(e.signer)[MaxDepth + 1] = {}
             /\ \A n \in UNION {Sealing!Levels(e.signer)[d] : d \in 1..MaxDepth} :
                  /\ n.account.type = "multisig"
                  /\ \A m \in Sealing!ToSet(n.members) : m.multi \/ ~Sealing!IsIdentifier(m.account)
  <2>1. e.signer = c.signer
    BY <1>2, <1>8, SingleTells DEF Sealing!WireSigner, Sealing!NoSigner
  <2>2. PICK s : s = c.signer
    OBVIOUS
  <2>3. /\ Sealing!Levels(s)[MaxDepth + 1] = {}
        /\ \A n \in MultisOf(s) : n.account.type = "multisig"
    BY <1>4, <1>8, <2>1, <2>2 DEF Sealing!Valid, Sealing!SignerOk, MultisOf
  <2>4. ASSUME NEW n \in MultisOf(s), NEW m \in Sealing!ToSet(n.members), ~m.multi
        PROVE  ~Sealing!IsIdentifier(m.account)
    <3>1. n \in NodesOf(s)
      BY DEF NodesOf
    <3>2. m.account \in KeysBelow(s)
      BY <2>4, <3>1 DEF KeysBelow
    <3> QED BY <1>6, <2>2, <3>2
  <2> QED BY <2>1, <2>2, <2>3, <2>4 DEF MultisOf
<1>9. Sealing!ReadableSigner(e)
  BY <1>7, <1>8 DEF Sealing!ReadableSigner
<1>10. ASSUME NEW i \in DOMAIN e.ops PROVE Sealing!ReadableOp(e.ops[i])
  <2>1. i \in DOMAIN c.ops /\ OpFine(c.ops[i]) /\ e.ops[i] = Sealing!WireOp(c.ops[i])
    BY <1>2 DEF BlockFine
  <2> QED BY <2>1, WireReadsBack
<1> QED BY <1>1, <1>9, <1>10 DEF Sealing!Decodable

\* A block as on the wire can be sealed with the signatures of the block.
LEMMA OnWireSeals ==
  ASSUME NEW c, NEW sigs, BlockFine(c), Sealing!Sealable(c, sigs)
  PROVE  Sealing!Sealable(OnWire(c), sigs)
<1>1. PICK b : b = OnWire(c)
  OBVIOUS
<1>2. PICK r : r = Sealing!RequiredSigners(c.signer)
  OBVIOUS
<1>3. /\ Sealing!Encodable(c) /\ Sealing!Valid(c) /\ sigs # << >>
      /\ c.version = 1 => Len(sigs) = 1
      /\ Len(sigs) = Len(r)
      /\ \A i \in DOMAIN r : ~Sealing!IsIdentifier(r[i]) /\ sigs[i] = Sealing!Signature(r[i], c)
  BY <1>2 DEF Sealing!Sealable
<1>4. b.version = c.version /\ b.signer = c.signer
  BY <1>1, OnWireIs
<1>5. Sealing!Valid(b)
  BY <1>1, <1>3, OnWireValid
<1>6. Sealing!Encode(b) = Sealing!Encode(c)
  BY <1>1, <1>3, RoundTrip
<1>7. \A a : Sealing!Signature(a, b) = Sealing!Signature(a, c)
  BY <1>6, Zenon DEF Sealing!Signature
<1>8. Sealing!Encodable(b) /\ Sealing!RequiredSigners(b.signer) = r
  BY <1>2, <1>3, <1>4 DEF Sealing!Encodable
<1>9. Sealing!Sealable(b, sigs)
  BY <1>3, <1>4, <1>5, <1>7, <1>8 DEF Sealing!Sealable
<1> QED BY <1>1, <1>9

\* The receiver accepts the bytes of a sealed block.
LEMMA OwnBytesAccepted ==
  ASSUME NEW c, NEW w, BlockFine(c), Sealing!Sealable(c, w.signatures), w.bytes = Sealing!Encode(c)
  PROVE  Sealing!Accepts(w)
<1>1. Sealing!Valid(c)
  BY DEF Sealing!Sealable
<1>2. PICK e : e = Sealing!Encode(c)
  OBVIOUS
<1>3. Sealing!Decode(e) = OnWire(c) /\ Sealing!Encode(OnWire(c)) = e
  BY <1>1, <1>2, RoundTrip
<1>4. Sealing!Decodable(e)
  BY <1>2, SealedDecodes
<1>5. Sealing!Sealable(OnWire(c), w.signatures)
  BY OnWireSeals
<1> QED BY <1>2, <1>3, <1>4, <1>5 DEF Sealing!Accepts

\* It accepts no others for the signatures of the block: the first of them is
\* over the bytes of the block.
LEMMA OnlyOwnBytes ==
  ASSUME NEW c, NEW w, BlockFine(c), Sealing!Sealable(c, w.signatures), Listing(w.signatures),
         Sealing!Accepts(w), Sealing!Decode(w.bytes).signer = c.signer
  PROVE  w.bytes = Sealing!Encode(c)
<1>1. PICK r : r = Sealing!RequiredSigners(c.signer)
  OBVIOUS
<1>2. PICK b : b = Sealing!Decode(w.bytes)
  OBVIOUS
<1>3. PICK sigs : sigs = w.signatures
  OBVIOUS
<1>4. /\ Sealing!Valid(c) /\ sigs # << >> /\ Len(sigs) = Len(r)
      /\ \A i \in DOMAIN r : sigs[i] = Sealing!Signature(r[i], c)
  BY <1>1, <1>3 DEF Sealing!Sealable
<1>5. \A i \in DOMAIN r : sigs[i] = Sealing!Signature(r[i], b)
  BY <1>1, <1>2, <1>3 DEF Sealing!Accepts, Sealing!Sealable
<1>6. Sealing!Encode(b) = w.bytes
  BY <1>2 DEF Sealing!Accepts
<1>7. Listing(r)
  BY <1>1, <1>4, RequiredAreKeys DEF BlockFine
<1>8. 1 \in DOMAIN r
  <2>1. Len(r) \in Nat /\ DOMAIN r = 1..Len(r)
    BY <1>7, ListingIs DEF Listing
  <2>2. Len(sigs) # 0
    BY <1>3, <1>4 DEF Listing
  <2> QED BY <1>4, <2>1, <2>2
<1>9. sigs[1].over = Sealing!Encode(c) /\ sigs[1].over = Sealing!Encode(b)
  <2>1. \A a, d : Sealing!Signature(a, d).over = Sealing!Encode(d)
    BY DEF Sealing!Signature
  <2> QED BY <1>4, <1>5, <1>8, <2>1
<1> QED BY <1>6, <1>9

-----------------------------------------------------------------------------
(* From the draft to the receiver.                                         *)

\* The draft is for an account and a signer; a sealed block reads back and its
\* signatures are those it was sealed with; what was sent is a block with its
\* signatures, for its signer; the verdict is that of Accepts.
CodecInv ==
  /\ draft.account # Sealing!NoAccount /\ SignerFine(draft.signer)
  /\ slot = "staged" => ~block.ok
  /\ block.ok => /\ BlockFine(block.data) /\ Sealing!Sealable(block.data, block.signatures)
                 /\ Listing(block.signatures)
  /\ wire.ok => /\ block.ok /\ wire.signatures = block.signatures
                /\ Sealing!Decode(wire.bytes).signer = block.data.signer
  /\ received # "none" => wire.ok /\ (received = "accepted" <=> Sealing!Accepts(wire))

\* The data to be sealed reads back.
LEMMA DataFine ==
  ASSUME SealInv, draft.account # Sealing!NoAccount, SignerFine(draft.signer), Sealing!Constructible
  PROVE  BlockFine(Sealing!Data)
<1>1. PICK p : p = Sealing!FromFlags(flags, {})
  OBVIOUS
<1>2. PICK g : g = [i \in DOMAIN draft.ops |-> Sealing!Granting(draft.ops[i], p)]
  OBVIOUS
<1>3. PICK c : c = Sealing!Data
  OBVIOUS
<1>4. c = [draft EXCEPT !.ops = g]
  BY <1>1, <1>2, <1>3 DEF Sealing!Data
<1>5. DOMAIN draft = {"version", "purpose", "network", "subnet", "idempotent", "late", "account",
                      "signer", "previous", "ops"}
  BY DEF SealInv, Sealing!NewDraft
<1>6. c = AsRecord(c)
  <2>1. DOMAIN c = DOMAIN draft /\ c = [f \in DOMAIN draft |-> c[f]]
    BY <1>4
  <2>2. PICK r : r = AsRecord(c)
    OBVIOUS
  <2>3. /\ DOMAIN r = DOMAIN draft /\ r = [f \in DOMAIN draft |-> r[f]]
        /\ r.version = c.version /\ r.purpose = c.purpose /\ r.network = c.network
        /\ r.subnet = c.subnet /\ r.idempotent = c.idempotent /\ r.late = c.late
        /\ r.account = c.account /\ r.signer = c.signer /\ r.previous = c.previous
        /\ r.ops = c.ops
    BY <1>5, <2>2 DEF AsRecord
  <2>4. \A f \in DOMAIN draft : r[f] = c[f]
    BY <1>5, <2>3
  <2>5. r = c
    BY <2>1, <2>3, <2>4
  <2> QED BY <2>2, <2>5
<1>7. c.account = draft.account /\ c.signer = draft.signer /\ c.ops = g
  BY <1>4, <1>5
<1>8. ASSUME NEW i \in DOMAIN g PROVE OpFine(g[i])
  <2>1. i \in DOMAIN draft.ops /\ draft.ops[i] \in Catalogue
    BY <1>2 DEF SealInv
  <2>2. Sealing!Confers(draft.ops[i]) => ~Sealing!Mixed(flags)
    BY <2>1 DEF Sealing!Constructible
  <2>3. g[i] = Sealing!Granting(draft.ops[i], p)
    BY <1>2
  <2> QED BY <1>1, <2>1, <2>2, <2>3, GrantingReadsBack
<1> QED BY <1>3, <1>6, <1>7, <1>8 DEF BlockFine

\* The signatures of a block that is sealed are a sequence, in whatever order
\* they arrive.
LEMMA ArrangedListing ==
  ASSUME NEW c, SignerFine(c.signer), NEW how \in {"sign", "reversed", "short"},
         Sealing!Sealable(c, Sealing!Arrange(how, Sealing!SignaturesOf(c)))
  PROVE  Listing(Sealing!Arrange(how, Sealing!SignaturesOf(c)))
<1>1. PICK r : r = Sealing!RequiredSigners(c.signer)
  OBVIOUS
<1>2. PICK s : s = Sealing!SignaturesOf(c)
  OBVIOUS
<1>3. PICK a : a = Sealing!Arrange(how, s)
  OBVIOUS
<1>4. Sealing!Valid(c) /\ a # << >> /\ Len(a) = Len(r)
  BY <1>1, <1>2, <1>3 DEF Sealing!Sealable
<1>5. Len(r) \in Nat /\ DOMAIN r = 1..Len(r)
  BY <1>1, <1>4, RequiredAreKeys, ListingIs DEF Listing
<1>6. PICK n : n = Len(r)
  OBVIOUS
<1>7. n \in Nat /\ s = [i \in 1..n |-> Sealing!Signature(r[i], c)]
  BY <1>1, <1>2, <1>5, <1>6 DEF Sealing!SignaturesOf
<1>8. Listing(s) /\ Len(s) = n
  BY <1>7, ListingMade
<1>9. CASE how = "sign"
  BY <1>2, <1>3, <1>8, <1>9 DEF Sealing!Arrange
<1>10. CASE how = "reversed"
  <2>1. a = [i \in 1..n |-> s[(n - i) + 1]]
    BY <1>3, <1>8, <1>10 DEF Sealing!Arrange, Sealing!Reverse
  <2> QED BY <1>2, <1>3, <1>7, <2>1, ListingMade
<1>11. CASE how = "short"
  <2>1. a = SubSeq(s, 1, n - 1)
    BY <1>3, <1>8, <1>11 DEF Sealing!Arrange
  <2>2. CASE n = 0
    <3>1. a = SubSeq(s, 1, 0 - 1) /\ s \in Seq({s[i] : i \in DOMAIN s})
      BY <1>8, <2>1, <2>2 DEF Listing
    <3>2. a = << >>
      BY <3>1
    <3> QED BY <1>4, <3>2
  <2>3. CASE n # 0
    <3>1. Len(a) = n - 1
      BY <1>7, <1>8, <2>1, <2>3 DEF Listing
    <3> QED BY <1>4, <1>6, <1>7, <3>1
  <2> QED BY <2>2, <2>3
<1> QED BY <1>9, <1>10, <1>11

\* However the bytes are written, they are for the signer of the block.
LEMMA RewrittenSigner ==
  ASSUME NEW c, BlockFine(c), NEW how \in {"encoded", "signer", "bits", "certificate"}
  PROVE  Sealing!Decode(Sealing!Rewritten(how, Sealing!Encode(c))).signer = c.signer
<1>1. PICK e : e = Sealing!Encode(c)
  OBVIOUS
<1>2. e.account = c.account /\ e.signer = Sealing!WireSigner(c) /\ e = AsRecord(e)
  BY <1>1, EncodeIs
<1>3. {"account", "signer", "ops"} \subseteq DOMAIN e
  BY <1>2 DEF AsRecord
<1>4. c.signer # Sealing!NoSigner /\ c.account # Sealing!NoAccount
  BY DEF BlockFine, SignerFine
<1>5. Sealing!Single(c.account) # Sealing!NoSigner
  BY <1>4, SingleTells DEF Sealing!NoSigner
<1>6. PICK w : w = Sealing!Rewritten(how, e)
  OBVIOUS
<1>7. /\ w.account = c.account /\ "signer" \in DOMAIN w
      /\ \/ w.signer = Sealing!WireSigner(c)
         \/ w.signer = IF e.signer = Sealing!NoSigner THEN Sealing!Single(e.account) ELSE e.signer
  <2>1. CASE how = "encoded"
    BY <1>2, <1>3, <1>6, <2>1 DEF Sealing!Rewritten
  <2>2. CASE how = "signer"
    <3>1. PICK s : s = IF e.signer = Sealing!NoSigner THEN Sealing!Single(e.account) ELSE e.signer
      OBVIOUS
    <3>2. w = [e EXCEPT !.signer = s]
      BY <1>6, <2>2, <3>1 DEF Sealing!Rewritten
    <3>3. w.signer = s /\ w.account = e.account /\ "signer" \in DOMAIN w
      BY <1>3, <3>2
    <3> QED BY <1>2, <3>1, <3>3
  <2>3. CASE how = "bits"
    <3>1. PICK o : o = [i \in DOMAIN e.ops |->
            Sealing!Granting(e.ops[i], [ok |-> TRUE, base |-> flags, external |-> {}])]
      OBVIOUS
    <3>2. w = [e EXCEPT !.ops = o]
      BY <1>6, <2>3, <3>1 DEF Sealing!Rewritten
    <3> QED BY <1>2, <1>3, <3>2
  <2>4. CASE how = "certificate"
    <3>1. PICK o : o = [i \in DOMAIN e.ops |->
            IF e.ops[i].op = "manageCertificate" THEN draft.ops[i] ELSE e.ops[i]]
      OBVIOUS
    <3>2. w = [e EXCEPT !.ops = o]
      BY <1>6, <2>4, <3>1 DEF Sealing!Rewritten
    <3> QED BY <1>2, <1>3, <3>2
  <2> QED BY <2>1, <2>2, <2>3, <2>4
<1>8. PICK t : t = IF w.signer = Sealing!NoSigner THEN Sealing!Single(w.account) ELSE w.signer
  OBVIOUS
<1>9. Sealing!Decode(w).signer = t
  <2>1. PICK v : v = [i \in DOMAIN w.ops |-> Sealing!ReadOp(w.ops[i])]
    OBVIOUS
  <2>2. Sealing!Decode(w) = [w EXCEPT !.signer = t, !.ops = v]
    BY <1>8, <2>1 DEF Sealing!Decode
  <2> QED BY <1>7, <2>2
<1>10. t = c.signer
  BY <1>2, <1>4, <1>5, <1>7, <1>8 DEF Sealing!WireSigner
<1> QED BY <1>1, <1>6, <1>9, <1>10

\* Blocks start for an account that signs for itself.
LEMMA CodecInit == Sealing!Init => CodecInv
<1> SUFFICES ASSUME Sealing!Init PROVE CodecInv
  OBVIOUS
<1>1. PICK start \in Starts : draft = Sealing!NewDraft(start[1], start[2])
  BY DEF Sealing!Init
<1>2. PICK a : a = start[1]
  OBVIOUS
<1>3. draft.account = a /\ draft.signer = Sealing!Single(a)
  BY <1>1, <1>2 DEF Sealing!NewDraft
<1>4. a # Sealing!NoAccount
  BY <1>2, SignersAssumption
<1>5. SignerFine(Sealing!Single(a))
  <2>1. ~Sealing!Single(a).multi /\ Sealing!Single(a) # Sealing!NoSigner
    BY <1>4, SingleTells DEF Sealing!NoSigner
  <2>2. Sealing!Single(a).account = a
    BY DEF Sealing!Single
  <2>3. TreeOf(Sealing!Single(a))
    BY <2>1, SingleHasNoLevels
  <2> QED BY <2>1, <2>2, <2>3 DEF SignerFine
<1>6. ~block.ok /\ ~wire.ok /\ received = "none"
  BY DEF Sealing!Init, Sealing!NoBlock
<1> QED BY <1>3, <1>4, <1>5, <1>6 DEF CodecInv

\* Staging an account field or a signer keeps it.
LEMMA CodecStage ==
  ASSUME CodecInv, NEW change, Sealing!Stage(change),
         change.account = draft.account, SignerFine(change.signer)
  PROVE  CodecInv'
<1>1. draft' = change /\ UNCHANGED <<slot, block, wire, received>>
  BY DEF Sealing!Stage
<1>2. SignerFine(draft.signer)'
  <2>1. PICK s : s = change.signer
    OBVIOUS
  <2>2. draft'.signer = s /\ SignerFine(s)
    BY <1>1, <2>1
  <2> QED BY <2>2 DEF SignerFine, TreeOf
<1> QED BY <1>1, <1>2 DEF CodecInv

\* Every step keeps it.
LEMMA CodecStep ==
  ASSUME SealInv, CodecInv, [Sealing!Next]_(Sealing!vars)
  PROVE  CodecInv'
<1>0. DOMAIN draft = {"version", "purpose", "network", "subnet", "idempotent", "late", "account",
                      "signer", "previous", "ops"}
  BY DEF SealInv, Sealing!NewDraft
<1>a. draft.account # Sealing!NoAccount /\ SignerFine(draft.signer)
  BY DEF CodecInv
<1>1. ASSUME NEW v \in {1, 2}, Sealing!WithVersion(v) PROVE CodecInv'
  BY <1>0, <1>a, <1>1, CodecStage DEF Sealing!WithVersion
<1>2. ASSUME NEW v \in {"generic", "fee"}, Sealing!WithPurpose(v) PROVE CodecInv'
  BY <1>0, <1>a, <1>2, CodecStage DEF Sealing!WithPurpose
<1>3. ASSUME NEW v \in {"some", "negative"}, Sealing!WithSubnet(v) PROVE CodecInv'
  BY <1>0, <1>a, <1>3, CodecStage DEF Sealing!WithSubnet
<1>4. ASSUME NEW v \in {"some", "long"}, Sealing!WithIdempotent(v) PROVE CodecInv'
  BY <1>0, <1>a, <1>4, CodecStage DEF Sealing!WithIdempotent
<1>5. ASSUME NEW v \in {0, 1}, Sealing!WithPrevious(v) PROVE CodecInv'
  BY <1>0, <1>a, <1>5, CodecStage DEF Sealing!WithPrevious
<1>6. ASSUME NEW v \in BOOLEAN, Sealing!WithDate(v) PROVE CodecInv'
  BY <1>0, <1>a, <1>6, CodecStage DEF Sealing!WithDate
<1>7. ASSUME NEW v \in Signers, Sealing!WithSigner(v) PROVE CodecInv'
  <2>1. SignerFine(v)
    BY SignersAssumption DEF SignerFine, TreeOf
  <2>2. PICK more : more = [draft EXCEPT !.signer = v]
    OBVIOUS
  <2>3. Sealing!Stage(more)
    BY <1>7, <2>2 DEF Sealing!WithSigner
  <2>4. more.account = draft.account /\ more.signer = v
    BY <1>0, <2>2
  <2> QED BY <2>1, <2>3, <2>4, CodecStage
<1>8. ASSUME NEW op \in Catalogue, Sealing!WithOperation(op) PROVE CodecInv'
  <2>1. PICK more : more = [draft EXCEPT !.ops = Append(draft.ops, op)]
    OBVIOUS
  <2>2. Sealing!Stage(more)
    BY <1>8, <2>1 DEF Sealing!WithOperation
  <2>3. more.account = draft.account /\ more.signer = draft.signer
    BY <1>0, <2>1
  <2> QED BY <1>a, <2>2, <2>3, CodecStage
<1>9. ASSUME NEW f \in Sealing!Flags, Sealing!Collect(f) PROVE CodecInv'
  BY <1>9 DEF Sealing!Collect, CodecInv
<1>10. ASSUME NEW how \in {"sign", "reversed", "short"}, Sealing!BuildAndSign(how) PROVE CodecInv'
  <2>1. PICK c : c = Sealing!Data
    OBVIOUS
  <2>2. PICK sigs : sigs = Sealing!Arrange(how, Sealing!SignaturesOf(c))
    OBVIOUS
  <2>3. /\ slot = "staged" /\ slot' = "taken" /\ UNCHANGED <<draft, wire, received>>
        /\ \/ block' = Sealing!NoBlock
           \/ /\ block' = [ok |-> TRUE, data |-> c, signatures |-> sigs]
              /\ Sealing!Constructible /\ Sealing!Sealable(c, sigs)
    BY <1>10, <2>1, <2>2 DEF Sealing!BuildAndSign
  <2>4. ~block.ok /\ ~wire.ok /\ received = "none"
    BY <2>3 DEF CodecInv
  <2>5. CASE block' = Sealing!NoBlock
    <3>1. ~block'.ok
      BY <2>5 DEF Sealing!NoBlock
    <3> QED BY <1>a, <2>3, <2>4, <3>1 DEF CodecInv
  <2>6. CASE /\ block' = [ok |-> TRUE, data |-> c, signatures |-> sigs]
             /\ Sealing!Constructible /\ Sealing!Sealable(c, sigs)
    <3>1. BlockFine(c)
      BY <1>a, <2>1, <2>6, DataFine
    <3>2. Listing(sigs)
      BY <2>2, <2>6, <3>1, ArrangedListing DEF BlockFine
    <3>3. block'.ok /\ block'.data = c /\ block'.signatures = sigs
      BY <2>6
    <3>4. BlockFine(block'.data) /\ Sealing!Sealable(block'.data, block'.signatures) /\ Listing(block'.signatures)
      BY <2>6, <3>1, <3>2, <3>3
    <3> QED BY <1>a, <2>3, <2>4, <3>4 DEF CodecInv
  <2> QED BY <2>3, <2>5, <2>6
<1>11. ASSUME NEW how \in {"encoded", "signer", "bits", "certificate"}, Sealing!Send(how) PROVE CodecInv'
  <2>1. PICK w : w = Sealing!Rewritten(how, Sealing!Encode(block.data))
    OBVIOUS
  <2>2. /\ block.ok /\ ~wire.ok /\ wire' = [ok |-> TRUE, bytes |-> w, signatures |-> block.signatures]
        /\ UNCHANGED <<draft, slot, block, received>>
    BY <1>11, <2>1 DEF Sealing!Send
  <2>3. BlockFine(block.data)
    BY <2>2 DEF CodecInv
  <2>4. Sealing!Decode(w).signer = block.data.signer
    BY <2>1, <2>3, RewrittenSigner
  <2>5. wire'.ok /\ wire'.signatures = block.signatures /\ wire'.bytes = w
    BY <2>2
  <2>6. received = "none"
    BY <2>2 DEF CodecInv
  <2>7. Sealing!Decode(wire'.bytes).signer = block.data.signer
    BY <2>4, <2>5
  <2> QED BY <2>2, <2>5, <2>6, <2>7 DEF CodecInv
<1>12. CASE Sealing!Receive
  <2>1. /\ wire.ok /\ UNCHANGED <<draft, flags, slot, block, wire>>
        /\ received' = IF Sealing!Accepts(wire) THEN "accepted" ELSE "refused"
    BY <1>12 DEF Sealing!Receive
  <2>2. received' = "accepted" <=> Sealing!Accepts(wire)
    BY <2>1
  <2>3. PICK w : w = wire
    OBVIOUS
  <2>4. received' = "accepted" <=> Sealing!Accepts(w)
    BY <2>2, <2>3
  <2>5. wire' = w
    BY <2>1, <2>3
  <2>6. received' = "accepted" <=> Sealing!Accepts(wire')
    BY <2>4, <2>5
  <2> QED BY <2>1, <2>6 DEF CodecInv
<1>13. CASE UNCHANGED Sealing!vars
  BY <1>13 DEF Sealing!vars, CodecInv
<1> QED BY <1>1, <1>2, <1>3, <1>4, <1>5, <1>6, <1>7, <1>8, <1>9, <1>10, <1>11, <1>12, <1>13
    DEF Sealing!Next

\* From the draft to the receiver, a block keeps what sealing it established
\* (BlockBuilder, TryFrom<BlockParts> and TryFrom<&[u8]> for Block).
THEOREM CodecInvariant == LocalSpec => []CodecInv
<1>1. LocalInit => CodecInv
  BY CodecInit DEF LocalInit
<1>2. SealInv /\ CodecInv /\ [LocalNext]_localVars => CodecInv'
  BY CodecStep, OnlySealing
<1> QED BY <1>1, <1>2, SealInvariant, PTL DEF LocalSpec

\* For any accounts, signer trees, operations and flags, the receiver accepts a
\* sealed block in its own encoding and in no other: not with the signer spelled
\* out, the permission bits as collected or a removed certificate by value
\* (TryFrom<&[u8]> for Block).
THEOREM OneEncodingHolds == LocalSpec => []OneEncoding
<1>1. CodecInv => OneEncoding
  <2> SUFFICES ASSUME CodecInv, received # "none"
               PROVE  received = "accepted" <=> wire.bytes = Sealing!Encode(block.data)
    BY DEF OneEncoding, Sealing!OneEncoding
  <2>1. PICK c, w : c = block.data /\ w = wire
    OBVIOUS
  <2>2. /\ BlockFine(c) /\ Sealing!Sealable(c, w.signatures) /\ Listing(w.signatures)
        /\ Sealing!Decode(w.bytes).signer = c.signer
        /\ received = "accepted" <=> Sealing!Accepts(w)
    BY <2>1 DEF CodecInv
  <2>3. ASSUME w.bytes = Sealing!Encode(c) PROVE Sealing!Accepts(w)
    BY <2>2, <2>3, OwnBytesAccepted
  <2>4. ASSUME Sealing!Accepts(w) PROVE w.bytes = Sealing!Encode(c)
    BY <2>2, <2>4, OnlyOwnBytes
  <2> QED BY <2>1, <2>2, <2>3, <2>4
<1> QED BY <1>1, CodecInvariant, PTL

\* For any signer tree, the keys at its leaves signed a sealed block, each once,
\* and nobody else did (Signer::required_signers, TryFrom<BlockParts>).
THEOREM EverySignerSignedHolds == LocalSpec => []EverySignerSigned
<1>1. CodecInv => EverySignerSigned
  <2> SUFFICES ASSUME CodecInv, block.ok PROVE Sealing!EverySignerSigned
    BY DEF EverySignerSigned, Sealing!EverySignerSigned
  <2>1. PICK c, s, sigs : c = block.data /\ s = c.signer /\ sigs = block.signatures
    OBVIOUS
  <2>2. SignerFine(s) /\ Sealing!Sealable(c, sigs) /\ Listing(sigs)
    BY <2>1 DEF CodecInv, BlockFine
  <2>3. /\ {sigs[i].by : i \in DOMAIN sigs} = KeysBelow(s)
        /\ Len(sigs) = Sealing!Cardinality(KeysBelow(s))
    <3>1. c.signer = s
      BY <2>1
    <3>2. SignerFine(c.signer)
      BY <2>2, <3>1
    <3>3. /\ {sigs[i].by : i \in DOMAIN sigs} = KeysBelow(c.signer)
          /\ Len(sigs) = Sealing!Cardinality(KeysBelow(c.signer))
      BY <2>2, <3>2, SealedBySigners, Zenon
    <3> QED BY <3>1, <3>3, Zenon
  <2>4. NodesOf(s) = (UNION {Sealing!Levels(s)[d] : d \in 1..MaxDepth}) \cup {s}
    <3>1. PICK L : L = MultisOf(s)
      OBVIOUS
    <3>2. L = UNION {Sealing!Levels(s)[d] : d \in 1..MaxDepth}
      BY <3>1, Zenon DEF MultisOf
    <3>3. NodesOf(s) = L \cup {s}
      BY <3>1, Zenon DEF NodesOf
    <3> QED BY <3>2, <3>3
  <2>5. PICK nodes : nodes = NodesOf(s)
    OBVIOUS
  <2>6. KeysBelow(s) = {x.account : x \in {n \in nodes : ~n.multi} \cup
                          UNION {{m \in Sealing!ToSet(n.members) : ~m.multi} : n \in nodes}}
    BY <2>5, Zenon DEF KeysBelow
  <2>7. nodes = (UNION {Sealing!Levels(block.data.signer)[d] : d \in 1..MaxDepth}) \cup {block.data.signer}
    BY <2>1, <2>4, <2>5, ZenonT(60)
  <2> QED BY <2>1, <2>3, <2>6, <2>7, ZenonT(60) DEF Sealing!EverySignerSigned
<1> QED BY <1>1, CodecInvariant, PTL
=============================================================================
