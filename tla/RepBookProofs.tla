--------------------------- MODULE RepBookProofs ---------------------------
(***************************************************************************)
(* Proofs about RepBook, for every number of tasks, keys, listings and     *)
(* retries: the types and the bounds of the scores, TransportComing,       *)
(* NoDuplicate for a client with a single discoverer, and DeadRepSurvived  *)
(* for one dead representative and a live one that outweighs what the      *)
(* retries leave of its score.                                             *)
(*                                                                         *)
(* TransportComing is not inductive alone: the task about to bind a        *)
(* transport must stand at an entry of its listing (AtEntry), and starting *)
(* the refresh task must not restart one that is binding (RefreshOff).     *)
(***************************************************************************)
EXTENDS RepBook, OrderFacts

Entries == [key : Keys, weight : Nat, api : BOOLEAN]

\* Listings, of tasks and in the cache, are sequences of entries.
ListingsTyped ==
  /\ listing \in [All -> Seq(Entries)]
  /\ \A e \in cache : e.listing \in Seq(Entries)

\* A task that adds a representative, or binds its transport, looks at an entry.
AtEntry == \A t \in All : pc[t] \in {"add", "insert"} => at[t] \in 1..Len(listing[t])

\* The refresh task does nothing before it is started.
RefreshOff == ~started => pc[Refresher] = "off"

BookInv == TypeOK /\ ListingsTyped /\ AtEntry /\ RefreshOff /\ TransportComing

\* What a client with one discovering task d keeps: only d scans a listing, and
\* the representative it is about to add is still unknown.
OnlyScanner(d) ==
  /\ \A t \in All \ {d} : pc[t] \notin {"scan", "add", "insert"}
  /\ pc[d] = "add" => ~Contains(listing[d][at[d]].key)
-----------------------------------------------------------------------------
(* Lemmas about the book.                                                  *)

\* The book and its scores have their types.
BookTyped == book \in Seq(Records) /\ \A i \in 1..Len(book) : book[i].score \in Floor..One

\* The step changes neither the representatives of the book nor their order.
SameKeys == Len(book') = Len(book) /\ \A i \in 1..Len(book) : book'[i].key = book[i].key

\* A changed score stays between the floor and one (reliability_after_success,
\* reliability_after_failure).
LEMMA ScoreBounds ==
  \A s \in Floor..One : Boosted(s) \in Floor..One /\ Decayed(s) \in Floor..One
<1> SUFFICES ASSUME NEW s \in Floor..One
             PROVE  Boosted(s) \in Floor..One /\ Decayed(s) \in Floor..One
  OBVIOUS
<1>1. s \in Nat /\ Floor \in Nat /\ One \in Nat /\ Inc \in Nat /\ Floor <= s /\ s <= One
  BY ScoreAssumption
<1>2. s \div 2 \in Nat /\ s \div 2 <= s
  BY <1>1
<1> QED BY <1>1, <1>2 DEF Boosted, Decayed

\* Setting a score that follows from the old one keeps the book's type, its
\* length and its keys (boost, decay).
LEMMA SetScoreKeeps ==
  ASSUME BookTyped, NEW k, NEW s, book' = SetScore(k, s),
         Reliability(book, k) \in Floor..One => s \in Floor..One
  PROVE  BookTyped' /\ KeysOf(book') = KeysOf(book) /\ SameKeys
<1>1. Len(book) \in Nat /\ Floor..One \subseteq Nat
  BY ScoreAssumption DEF BookTyped
<1>2. ASSUME NEW i \in 1..Len(book), book[i].key = k, \A j \in 1..(i - 1) : book[j].key # k
      PROVE  s \in Floor..One
  <2>1. PICK l \in 1..Len(book) : Reliability(book, k) = book[l].score
    BY <1>2 DEF Reliability
  <2> QED BY <2>1 DEF BookTyped
<1>3. book' = [i \in 1..Len(book) |->
                 IF book[i].key = k /\ \A j \in 1..(i - 1) : book[j].key # k
                   THEN [book[i] EXCEPT !.score = s] ELSE book[i]]
  BY DEF SetScore
<1>4. ASSUME NEW i \in 1..Len(book)
      PROVE  /\ book'[i] \in Records /\ book'[i].key = book[i].key
             /\ book'[i].score \in Floor..One
  <2>1. book[i] \in Records /\ book[i].score \in Floor..One
    BY DEF BookTyped
  <2>2. CASE book[i].key = k /\ \A j \in 1..(i - 1) : book[j].key # k
    <3>1. book'[i] = [book[i] EXCEPT !.score = s]
      BY <1>3, <2>2
    <3>2. s \in Floor..One
      BY <1>2, <2>2
    <3> QED BY <1>1, <2>1, <3>1, <3>2 DEF Records
  <2>3. CASE ~(book[i].key = k /\ \A j \in 1..(i - 1) : book[j].key # k)
    BY <1>3, <2>1, <2>3
  <2> QED BY <2>2, <2>3
<1>5. book' \in Seq(Records) /\ Len(book') = Len(book)
  BY <1>1, <1>3, <1>4
<1> QED BY <1>4, <1>5 DEF BookTyped, KeysOf, SameKeys

\* Boosting and decaying keep the book's type and its keys.
LEMMA BoostKeeps ==
  ASSUME BookTyped, NEW k, Boost(k) \/ Decay(k)
  PROVE  BookTyped' /\ KeysOf(book') = KeysOf(book) /\ SameKeys
<1>1. PICK s : book' = SetScore(k, s) /\ (Reliability(book, k) \in Floor..One => s \in Floor..One)
  BY ScoreBounds DEF Boost, Decay
<1> QED BY <1>1, SetScoreKeeps

\* New weights keep the book's type, its keys and its scores (update_weights).
LEMMA ReweighKeeps ==
  ASSUME BookTyped, NEW l \in Seq(Entries), book' = Reweighed(book, l)
  PROVE  BookTyped' /\ KeysOf(book') = KeysOf(book) /\ SameKeys
<1>1. Len(book) \in Nat /\ Len(l) \in Nat
  BY DEF BookTyped
<1> DEFINE Mine(i) == {j \in 1..Len(l) : l[j].key = book[i].key}
<1>2. book' = [i \in 1..Len(book) |->
                 IF Mine(i) = {} THEN book[i]
                 ELSE [book[i] EXCEPT !.weight =
                         l[CHOOSE j \in Mine(i) : \A m \in Mine(i) : m <= j].weight]]
  BY DEF Reweighed
<1>3. ASSUME NEW i \in 1..Len(book)
      PROVE  /\ book'[i] \in Records /\ book'[i].key = book[i].key
             /\ book'[i].score \in Floor..One
  <2>1. book[i] \in Records /\ book[i].score \in Floor..One
    BY DEF BookTyped
  <2>2. CASE Mine(i) = {}
    BY <1>2, <2>1, <2>2
  <2>3. CASE Mine(i) # {}
    <3> DEFINE last == CHOOSE j \in Mine(i) : \A m \in Mine(i) : m <= j
    <3>1. \E j \in Mine(i) : \A m \in Mine(i) : m <= j
      <4>1. Mine(i) \in SUBSET (0..Len(l))
        BY <1>1
      <4> HIDE DEF Mine
      <4> QED BY <1>1, <2>3, <4>1, GreatestNat
    <3>2. last \in Mine(i)
      BY <3>1
    <3>3. l[last].weight \in Nat
      <4>1. last \in 1..Len(l)
        BY <3>2
      <4> HIDE DEF last
      <4>2. l[last] \in Entries
        BY <4>1
      <4> QED BY <4>2 DEF Entries
    <3>4. book'[i] = [book[i] EXCEPT !.weight = l[last].weight]
      BY <1>2, <2>3
    <3> HIDE DEF last
    <3> QED BY <2>1, <3>3, <3>4 DEF Records
  <2> QED BY <2>2, <2>3
<1> HIDE DEF Mine
<1>4. book' \in Seq(Records) /\ Len(book') = Len(book)
  <2>1. book' \in [1..Len(book) -> Records]
    BY <1>2, <1>3
  <2> QED BY <1>1, <2>1
<1> QED BY <1>3, <1>4 DEF BookTyped, KeysOf, SameKeys

\* Adding a representative adds its key (add).
LEMMA AddKeeps ==
  ASSUME BookTyped, NEW e \in Entries, book' = Append(book, NewRecord(e))
  PROVE  /\ BookTyped' /\ KeysOf(book') = KeysOf(book) \cup {e.key}
         /\ Len(book') = Len(book) + 1 /\ book'[Len(book) + 1].key = e.key
         /\ \A i \in 1..Len(book) : book'[i] = book[i]
<1>1. Len(book) \in Nat /\ NewRecord(e) \in Records /\ NewRecord(e).key = e.key
      /\ NewRecord(e).score \in Floor..One
  BY ScoreAssumption DEF BookTyped, NewRecord, Records, Entries
<1>2. /\ book' \in Seq(Records) /\ Len(book') = Len(book) + 1
      /\ book'[Len(book) + 1] = NewRecord(e)
      /\ \A i \in 1..Len(book) : book'[i] = book[i]
  BY <1>1 DEF BookTyped
<1>3. 1..Len(book') = 1..Len(book) \cup {Len(book) + 1}
  BY <1>1, <1>2
<1> QED BY <1>1, <1>2, <1>3 DEF BookTyped, KeysOf
\* The listings of the network are sequences of entries.
LEMMA NetworkTyped ==
  /\ Len(Listings) \in Nat /\ 1 <= Len(Listings)
  /\ \A n \in 1..Len(Listings) : Listings[n] \in Seq(Entries)
<1> DEFINE S == Seq(Entries)
<1>1. Listings \in Seq(S) /\ Listings # << >>
  BY ListingAssumption DEF Entries
<1> HIDE DEF S
<1>2. Len(Listings) \in Nat /\ Len(Listings) # 0 /\ \A n \in 1..Len(Listings) : Listings[n] \in S
  BY <1>1
<1> QED BY <1>2 DEF S

-----------------------------------------------------------------------------
(* TransportComing, action by action.                                      *)

\* A step that adds no key and leaves the tasks that bind a transport alone
\* leaves every representative reachable.
LEMMA ComingKept ==
  ASSUME TransportComing, KeysOf(book') \subseteq KeysOf(book), transports' = transports,
         \A t \in All : pc[t] = "insert" =>
           pc'[t] = "insert" /\ listing'[t] = listing[t] /\ at'[t] = at[t]
  PROVE  TransportComing'
<1> SUFFICES ASSUME NEW k \in KeysOf(book') \ transports'
             PROVE  \E t \in All : pc'[t] = "insert" /\ listing'[t][at'[t]].key = k
  BY DEF TransportComing
<1>1. PICK t \in All : pc[t] = "insert" /\ listing[t][at[t]].key = k
  BY DEF TransportComing
<1> QED BY <1>1

\* The types, without the book.
RestTyped ==
  /\ transports \subseteq Keys
  /\ pc \in [All -> PCs] /\ target \in [All -> Keys]
  /\ attempt \in [All -> 0..MaxRetries]
  /\ at \in [All -> Nat \ {0}]
  /\ started \in BOOLEAN /\ handle \in BOOLEAN /\ aborted \in BOOLEAN
  /\ epoch \in 1..Len(Listings) /\ conflicts \in 0..MaxConflicts

\* The two halves of the type invariant.
LEMMA TypeSplit == TypeOK <=> BookTyped /\ RestTyped
  BY DEF TypeOK, BookTyped, RestTyped

\* Starting a call, and the refresh task with it, keeps the invariant (Begin).
LEMMA BeginKeeps ==
  ASSUME BookInv, NEW t \in Tasks, Begin(t)
  PROVE  BookInv'
<1>1. BookTyped /\ RestTyped /\ ListingsTyped /\ AtEntry /\ RefreshOff /\ TransportComing
  BY TypeSplit DEF BookInv
<1>2. /\ book' = book /\ transports' = transports /\ listing' = listing /\ at' = at
      /\ cache' = cache /\ pc[t] = "start" /\ t # Refresher
  BY BookAssumption DEF Begin, bookVars
<1>3. RestTyped'
  BY <1>1 DEF Begin, EnsureRefresh, RestTyped, bookVars, networkVars, PCs, All
<1>4. BookTyped' /\ ListingsTyped'
  BY <1>1, <1>2 DEF BookTyped, ListingsTyped
<1>5. \A s \in All : pc[s] # "off" /\ pc'[s] # pc[s] => s = t /\ pc'[s] = "pick"
  BY <1>1, <1>2 DEF Begin, EnsureRefresh, RestTyped, RefreshOff, All
<1>6. \A s \in All : pc'[s] \in {"add", "insert"} => pc[s] = pc'[s]
  BY <1>1, <1>2 DEF Begin, EnsureRefresh, RestTyped, RefreshOff, All
<1>7. AtEntry'
  BY <1>1, <1>2, <1>6 DEF AtEntry
<1>8. RefreshOff'
  BY <1>1, <1>2 DEF Begin, EnsureRefresh, RefreshOff, RestTyped, All
<1>9. TransportComing'
  BY <1>1, <1>2, <1>5, ComingKept
<1> QED BY <1>3, <1>4, <1>7, <1>8, <1>9, TypeSplit, PTL DEF BookInv
\* A step of task t that neither binds nor is about to bind a transport keeps
\* the invariant when it keeps the keys of the book and the types.
LEMMA QuietKeeps ==
  ASSUME BookInv, NEW t \in All, pc[t] \notin {"off", "insert"},
         BookTyped', KeysOf(book') = KeysOf(book), RestTyped', ListingsTyped',
         transports' = transports, started' = started,
         \A s \in All : s # t => pc'[s] = pc[s] /\ listing'[s] = listing[s] /\ at'[s] = at[s],
         pc'[t] = "add" => at'[t] \in 1..Len(listing'[t]),
         pc'[t] # "insert"
  PROVE  BookInv'
<1>1. BookTyped /\ RestTyped /\ ListingsTyped /\ AtEntry /\ RefreshOff /\ TransportComing
  BY TypeSplit DEF BookInv
<1>2. AtEntry'
  BY <1>1 DEF AtEntry
<1>3. RefreshOff'
  BY <1>1 DEF RefreshOff, All
<1>4. TransportComing'
  BY <1>1, ComingKept
<1> QED BY <1>2, <1>3, <1>4, TypeSplit, PTL DEF BookInv

\* Starting a refresh, from the cache or not, keeps the invariant (update_reps).
LEMMA UpdateKeeps ==
  ASSUME BookInv, Update
  PROVE  BookInv'
<1>1. BookTyped /\ RestTyped /\ ListingsTyped /\ Refresher \in All
  BY TypeSplit DEF BookInv, All
<1>2. BookTyped' /\ KeysOf(book') = KeysOf(book) /\ transports' = transports
      /\ started' = started /\ at' = at /\ cache' = cache
  BY <1>1 DEF Update, bookVars, BookTyped
<1>3. RestTyped'
  <2>1. pc' \in [All -> PCs]
    BY <1>1 DEF Update, RestTyped, PCs
  <2>2. attempt' \in [All -> 0..MaxRetries]
    BY <1>1, BookAssumption DEF Update, RestTyped
  <2>3. target' = target /\ handle' = handle /\ aborted' = aborted /\ epoch' = epoch /\ conflicts' = conflicts
    BY DEF Update, networkVars
  <2> QED BY <1>1, <1>2, <2>1, <2>2, <2>3 DEF RestTyped
<1>4. listing' \in [All -> Seq(Entries)]
  BY <1>1 DEF Update, ListingsTyped
<1>5. ListingsTyped'
  BY <1>1, <1>2, <1>4 DEF ListingsTyped
<1>6. \A s \in All : s # Refresher => pc'[s] = pc[s] /\ listing'[s] = listing[s]
  BY <1>1 DEF Update, RestTyped, ListingsTyped
<1>7. pc[Refresher] = "start" /\ pc'[Refresher] \in {"apply", "pick"}
  BY <1>1 DEF Update, RestTyped
<1> QED BY <1>1, <1>2, <1>3, <1>5, <1>6, <1>7, QuietKeeps

\* Products of natural numbers grow with their factors.
LEMMA ProductGrows ==
  ASSUME NEW a \in Nat, NEW b \in Nat, NEW c \in Nat, b <= c
  PROVE  a * b \in Nat /\ a * c \in Nat /\ a * b <= a * c
<1>1. PICK x \in Nat : c = b + x
  <2>1. c - b \in Nat /\ c = b + (c - b)
    OBVIOUS
  <2> QED BY <2>1
<1>2. a * b \in Nat /\ a * x \in Nat
  OBVIOUS
<1>3. a * c = a * b + a * x
  BY <1>1
<1> QED BY <1>2, <1>3

\* i is the record of k that reliability, boost and decay look at.
FirstOf(b, k, i) == i \in 1..Len(b) /\ b[i].key = k /\ \A j \in 1..(i - 1) : b[j].key # k

\* A sequence of numbers has a first greatest element.
LEMMA FirstGreatest ==
  ASSUME NEW N \in Nat, N # 0, NEW E \in [1..N -> Nat]
  PROVE  \E i \in 1..N : (\A j \in 1..N : E[j] <= E[i]) /\ (\A j \in 1..(i - 1) : E[j] < E[i])
<1> DEFINE Top(n, i) == (\A j \in 1..n : E[j] <= E[i]) /\ (\A j \in 1..(i - 1) : E[j] < E[i])
           P(n) == n \in 1..N => \E i \in 1..n : Top(n, i)
           M == {n \in Nat : P(n)}
<1>1. 0 \in M
  OBVIOUS
<1>2. ASSUME NEW n \in M PROVE n + 1 \in M
  <2> SUFFICES ASSUME n + 1 \in 1..N PROVE \E i \in 1..(n + 1) : Top(n + 1, i)
    OBVIOUS
  <2>1. n \in Nat /\ 1..(n + 1) = 1..n \cup {n + 1}
    OBVIOUS
  <2>2. CASE n = 0
    <3>1. Top(n + 1, 1)
      BY <2>2
    <3> QED BY <2>2, <3>1
  <2>3. CASE n # 0
    <3>1. PICK i \in 1..n : Top(n, i)
      BY <2>3
    <3>2. E[i] \in Nat /\ E[n + 1] \in Nat /\ \A j \in 1..n : E[j] \in Nat
      BY <2>1
    <3>3. CASE E[n + 1] <= E[i]
      <4>1. Top(n + 1, i)
        BY <2>1, <3>1, <3>3
      <4> QED BY <2>1, <4>1
    <3>4. CASE E[n + 1] > E[i]
      <4>1. Top(n + 1, n + 1)
        BY <2>1, <3>1, <3>2, <3>4
      <4> QED BY <2>1, <4>1
    <3> QED BY <3>2, <3>3, <3>4
  <2> QED BY <2>2, <2>3
<1> HIDE DEF P
<1>3. M = Nat
  BY <1>1, <1>2, NatInductionSet
<1>4. P(N)
  BY <1>3
<1> QED BY <1>4 DEF P

\* A representative of the book has one record that reliability reads.
LEMMA FirstRecord ==
  ASSUME BookTyped, NEW k
  PROVE  /\ k \in KeysOf(book) => \E i : FirstOf(book, k, i)
         /\ \A i : FirstOf(book, k, i) => Reliability(book, k) = book[i].score
<1>1. Len(book) \in Nat
  BY DEF BookTyped
<1>2. ASSUME k \in KeysOf(book) PROVE \E i : FirstOf(book, k, i)
  <2> DEFINE T == {i \in 1..Len(book) : book[i].key = k}
  <2>1. T \in SUBSET Nat /\ T # {}
    BY <1>1, <1>2 DEF KeysOf
  <2>2. PICK x \in T : \A y \in T : x <= y
    <3> HIDE DEF T
    <3> QED BY <2>1, LeastNat
  <2>3. FirstOf(book, k, x)
    BY <1>1, <2>2 DEF FirstOf
  <2> QED BY <2>3
<1>3. ASSUME NEW i, FirstOf(book, k, i) PROVE Reliability(book, k) = book[i].score
  <2>1. \A j \in 1..Len(book) : FirstOf(book, k, j) => j = i
    BY <1>1, <1>3 DEF FirstOf
  <2>2. i = CHOOSE j \in 1..Len(book) : book[j].key = k /\ \A l \in 1..(j - 1) : book[l].key # k
    BY <1>3, <2>1 DEF FirstOf
  <2> QED BY <2>2 DEF Reliability
<1> QED BY <1>2, <1>3

\* The representative pick_target takes has the greatest effective score.
LEMMA BestIsGreatest ==
  ASSUME BookTyped, book # << >>
  PROVE  /\ Best(book) \in 1..Len(book)
         /\ \A j \in 1..Len(book) : EffectiveScore(book, j) <= EffectiveScore(book, Best(book))
<1>1. Len(book) \in Nat /\ Len(book) # 0
  BY DEF BookTyped
<1>2. ASSUME NEW i \in 1..Len(book) PROVE EffectiveScore(book, i) \in Nat
  <2>1. book[i] \in Records
    BY DEF BookTyped
  <2>2. Share(book, i) \in Nat
    BY <2>1 DEF Share, Records
  <2>3. book[i].key \in KeysOf(book)
    BY DEF KeysOf
  <2>4. PICK l : FirstOf(book, book[i].key, l)
    BY <2>3, FirstRecord
  <2>5. l \in 1..Len(book) /\ Reliability(book, book[i].key) = book[l].score
    BY <2>4, FirstRecord DEF FirstOf
  <2>6. Reliability(book, book[i].key) \in Nat
    <3>1. book[l].score \in Floor..One
      BY <2>5 DEF BookTyped
    <3> QED BY <2>5, <3>1, ScoreAssumption
  <2> QED BY <2>2, <2>6, ProductGrows DEF EffectiveScore
<1> DEFINE E == [i \in 1..Len(book) |-> EffectiveScore(book, i)]
<1>3. E \in [1..Len(book) -> Nat] /\ \A i \in 1..Len(book) : E[i] = EffectiveScore(book, i)
  BY <1>2
<1> HIDE DEF E
<1>4. PICK i \in 1..Len(book) : /\ \A j \in 1..Len(book) : E[j] <= E[i]
                                /\ \A j \in 1..(i - 1) : E[j] < E[i]
  BY <1>1, <1>3, FirstGreatest
<1>5. \A j \in 1..(i - 1) : j \in 1..Len(book)
  BY <1>1
<1>6. /\ \A j \in 1..Len(book) : EffectiveScore(book, j) <= EffectiveScore(book, i)
      /\ \A j \in 1..(i - 1) : EffectiveScore(book, j) < EffectiveScore(book, i)
  BY <1>3, <1>4, <1>5
<1> QED BY <1>6 DEF Best

\* Choosing a representative, and its answer or failure, keep the invariant
\* (dispatch_any, boost, decay).
LEMMA DispatchKeeps ==
  ASSUME BookInv, NEW t \in All, Dispatch(t)
  PROVE  BookInv'
<1>1. BookTyped /\ RestTyped /\ ListingsTyped
  BY TypeSplit DEF BookInv
<1>2. transports' = transports /\ started' = started /\ at' = at /\ pc[t] \in {"pick", "bind", "call"}
  BY DEF Dispatch, Pick, Bind, Succeeds, Fails, Synced, bookVars, refreshVars
<1>3. BookTyped' /\ KeysOf(book') = KeysOf(book)
  <2>1. CASE book' = book
    BY <1>1, <2>1 DEF BookTyped
  <2>2. CASE Boost(target[t]) \/ Decay(target[t])
    BY <1>1, <2>2, BoostKeeps
  <2> QED BY <2>1, <2>2 DEF Dispatch, Pick, Bind, Succeeds, Fails, Synced, bookVars
<1>4. \A s \in All : s # t => pc'[s] = pc[s] /\ listing'[s] = listing[s]
  BY <1>1 DEF Dispatch, Pick, Bind, Succeeds, Fails, Synced, Ends, RestTyped, ListingsTyped
<1>5. pc'[t] \in {"sleep", "norep", "failed", "bind", "call", "pick", "done", "apply"}
  BY <1>1 DEF Dispatch, Pick, Bind, Succeeds, Fails, Synced, Ends, RestTyped
<1>6. ListingsTyped'
  <2>1. CASE Succeeds(t)
    <3>1. Listings[epoch] \in Seq(Entries)
      BY <1>1, NetworkTyped DEF RestTyped
    <3>2. listing' \in [All -> Seq(Entries)]
      BY <1>1, <2>1, <3>1 DEF Succeeds, ListingsTyped
    <3>3. \A e \in cache' : e \in cache \/ e = [sig |-> sig, listing |-> Listings[epoch]]
      BY <2>1 DEF Succeeds, Stored
    <3>4. \A e \in cache' : e.listing \in Seq(Entries)
      BY <1>1, <3>1, <3>3 DEF ListingsTyped
    <3> QED BY <3>2, <3>4 DEF ListingsTyped
  <2>2. CASE Pick(t) \/ Bind(t) \/ Fails(t) \/ Synced(t)
    BY <1>1, <2>2 DEF Pick, Bind, Fails, Synced, refreshVars, ListingsTyped
  <2> QED BY <2>1, <2>2 DEF Dispatch
<1>7. RestTyped'
  <2>1. pc' \in [All -> PCs]
    <3>1. PICK w : pc' = [pc EXCEPT ![t] = w]
      BY DEF Dispatch, Pick, Bind, Succeeds, Fails, Synced, Ends
    <3> QED BY <1>1, <1>5, <3>1 DEF RestTyped, PCs
  <2>2. target' \in [All -> Keys]
    <3>1. target \in [All -> Keys]
      BY <1>1 DEF RestTyped
    <3>2. ASSUME book # << >> PROVE book[Best(book)].key \in Keys
      <4>1. Best(book) \in 1..Len(book)
        BY <1>1, <3>2, BestIsGreatest
      <4>2. book[Best(book)] \in Records
        BY <1>1, <4>1 DEF BookTyped
      <4> QED BY <4>2 DEF Records
    <3> QED BY <3>1, <3>2 DEF Dispatch, Pick, Bind, Succeeds, Fails, Synced
  <2>3. attempt' \in [All -> 0..MaxRetries]
    BY <1>1, BookAssumption DEF Dispatch, Pick, Bind, Succeeds, Fails, Synced, OutOfRetries, RestTyped
  <2>4. conflicts' \in 0..MaxConflicts /\ epoch' = epoch
    BY <1>1, BookAssumption DEF Dispatch, Pick, Bind, Succeeds, Fails, Synced, networkVars, RestTyped
  <2>5. handle' = handle /\ aborted' = aborted
    BY DEF Dispatch, Pick, Bind, Succeeds, Fails, Synced, refreshVars
  <2> QED BY <1>1, <1>2, <2>1, <2>2, <2>3, <2>4, <2>5 DEF RestTyped
<1> QED BY <1>2, <1>3, <1>4, <1>5, <1>6, <1>7, QuietKeeps
\* Refreshing the weights, and looking at an entry, keep the invariant (apply_reps).
LEMMA ScanKeeps ==
  ASSUME BookInv, NEW t \in All, ApplyWeights(t) \/ Scan(t)
  PROVE  BookInv'
<1>1. BookTyped /\ RestTyped /\ ListingsTyped
  BY TypeSplit DEF BookInv
<1>2. /\ transports' = transports /\ started' = started /\ listing' = listing /\ cache' = cache
      /\ pc[t] \in {"apply", "scan"}
  BY DEF ApplyWeights, Scan, bookVars, refreshVars
<1>3. BookTyped' /\ KeysOf(book') = KeysOf(book)
  <2>1. CASE book' = book
    BY <1>1, <2>1 DEF BookTyped
  <2>2. CASE book' = Reweighed(book, listing[t])
    <3>1. listing[t] \in Seq(Entries)
      BY <1>1 DEF ListingsTyped
    <3> QED BY <1>1, <2>2, <3>1, ReweighKeeps
  <2> QED BY <2>1, <2>2 DEF ApplyWeights, Scan, bookVars
<1>4. ListingsTyped'
  BY <1>1, <1>2 DEF ListingsTyped
<1>5. \A s \in All : s # t => pc'[s] = pc[s] /\ at'[s] = at[s]
  BY <1>1 DEF ApplyWeights, Scan, Ends, RestTyped
<1>6. pc'[t] \in {"scan", "sleep", "done", "add"}
  BY <1>1, <1>2 DEF ApplyWeights, Scan, Ends, RestTyped
<1>7. at' \in [All -> Nat \ {0}]
  BY <1>1 DEF ApplyWeights, Scan, RestTyped
<1>8. pc'[t] = "add" => at'[t] \in 1..Len(listing'[t])
  <2> SUFFICES ASSUME pc'[t] = "add" PROVE at'[t] \in 1..Len(listing'[t])
    OBVIOUS
  <2>1. Scan(t) /\ ~(at[t] > Len(listing[t])) /\ at' = at
    BY <1>1, <1>2 DEF ApplyWeights, Scan, Ends, RestTyped
  <2>2. at[t] \in Nat \ {0} /\ Len(listing[t]) \in Nat
    BY <1>1 DEF RestTyped, ListingsTyped
  <2> QED BY <1>2, <2>1, <2>2
<1>9. RestTyped'
  <2>1. pc' \in [All -> PCs]
    BY <1>1, <1>5, <1>6 DEF ApplyWeights, Scan, Ends, RestTyped, PCs
  <2>2. /\ target' = target /\ attempt' = attempt /\ handle' = handle /\ aborted' = aborted
        /\ epoch' = epoch /\ conflicts' = conflicts
    BY DEF ApplyWeights, Scan, refreshVars, networkVars
  <2> QED BY <1>1, <1>2, <1>7, <2>1, <2>2 DEF RestTyped
<1> QED BY <1>2, <1>3, <1>4, <1>5, <1>6, <1>8, <1>9, QuietKeeps

\* Adding a representative leaves its transport to the same task (Add) ...
LEMMA AddKeepsInv ==
  ASSUME BookInv, NEW t \in All, Add(t)
  PROVE  BookInv'
<1>1. BookTyped /\ RestTyped /\ ListingsTyped /\ AtEntry /\ RefreshOff /\ TransportComing
  BY TypeSplit DEF BookInv
<1>2. /\ transports' = transports /\ started' = started /\ listing' = listing /\ cache' = cache
      /\ at' = at /\ target' = target /\ attempt' = attempt /\ handle' = handle
      /\ aborted' = aborted /\ epoch' = epoch /\ conflicts' = conflicts
      /\ pc[t] = "add" /\ pc' = [pc EXCEPT ![t] = "insert"]
      /\ book' = Append(book, NewRecord(listing[t][at[t]]))
  BY DEF Add, refreshVars, networkVars
<1>3. at[t] \in 1..Len(listing[t]) /\ listing[t][at[t]] \in Entries
  <2>1. listing[t] \in Seq(Entries) /\ at[t] \in 1..Len(listing[t])
    BY <1>1, <1>2 DEF AtEntry, ListingsTyped
  <2> QED BY <2>1
<1>4. BookTyped' /\ KeysOf(book') = KeysOf(book) \cup {listing[t][at[t]].key}
  BY <1>1, <1>2, <1>3, AddKeeps
<1>5. pc'[t] = "insert" /\ \A s \in All : s # t => pc'[s] = pc[s]
  BY <1>1, <1>2 DEF RestTyped
<1>6. RestTyped'
  BY <1>1, <1>2 DEF RestTyped, PCs
<1>7. ListingsTyped' /\ AtEntry' /\ RefreshOff'
  <2>1. ListingsTyped'
    BY <1>1, <1>2 DEF ListingsTyped
  <2>2. AtEntry'
    BY <1>1, <1>2, <1>3, <1>5 DEF AtEntry
  <2>3. RefreshOff'
    BY <1>1, <1>2, <1>5 DEF RefreshOff, All
  <2> QED BY <2>1, <2>2, <2>3
<1>8. TransportComing'
  <2> SUFFICES ASSUME NEW k \in KeysOf(book') \ transports'
               PROVE  \E s \in All : pc'[s] = "insert" /\ listing'[s][at'[s]].key = k
    BY DEF TransportComing
  <2>1. CASE k = listing[t][at[t]].key
    BY <1>2, <1>5, <2>1
  <2>2. CASE k # listing[t][at[t]].key
    <3>1. k \in KeysOf(book) \ transports
      BY <1>2, <1>4, <2>2
    <3>2. PICK s \in All : pc[s] = "insert" /\ listing[s][at[s]].key = k
      BY <1>1, <3>1 DEF TransportComing
    <3> QED BY <1>2, <1>5, <3>2
  <2> QED BY <2>1, <2>2
<1> QED BY <1>4, <1>6, <1>7, <1>8, TypeSplit, PTL DEF BookInv

\* ... which binds it (Insert).
LEMMA InsertKeepsInv ==
  ASSUME BookInv, NEW t \in All, Insert(t)
  PROVE  BookInv'
<1>1. BookTyped /\ RestTyped /\ ListingsTyped /\ AtEntry /\ RefreshOff /\ TransportComing
  BY TypeSplit DEF BookInv
<1>2. /\ transports' = transports \cup {listing[t][at[t]].key}
      /\ started' = started /\ listing' = listing /\ cache' = cache /\ book' = book
      /\ target' = target /\ attempt' = attempt /\ handle' = handle
      /\ aborted' = aborted /\ epoch' = epoch /\ conflicts' = conflicts
      /\ pc[t] = "insert" /\ pc' = [pc EXCEPT ![t] = "scan"] /\ at' = [at EXCEPT ![t] = @ + 1]
  BY DEF Insert, InsertTransport, refreshVars, networkVars
<1>3. listing[t][at[t]].key \in Keys
  <2>1. listing[t] \in Seq(Entries) /\ at[t] \in 1..Len(listing[t])
    BY <1>1, <1>2 DEF AtEntry, ListingsTyped
  <2>2. listing[t][at[t]] \in Entries
    BY <2>1
  <2> QED BY <2>2 DEF Entries
<1>4. pc'[t] = "scan" /\ \A s \in All : s # t => pc'[s] = pc[s] /\ at'[s] = at[s]
  BY <1>1, <1>2 DEF RestTyped
<1>5. BookTyped' /\ ListingsTyped'
  BY <1>1, <1>2 DEF BookTyped, ListingsTyped
<1>6. RestTyped'
  BY <1>1, <1>2, <1>3 DEF RestTyped, PCs
<1>7. AtEntry' /\ RefreshOff'
  <2>1. AtEntry'
    BY <1>1, <1>2, <1>4 DEF AtEntry
  <2>2. RefreshOff'
    BY <1>1, <1>2, <1>4 DEF RefreshOff, All
  <2> QED BY <2>1, <2>2
<1>8. TransportComing'
  <2> SUFFICES ASSUME NEW k \in KeysOf(book') \ transports'
               PROVE  \E s \in All : pc'[s] = "insert" /\ listing'[s][at'[s]].key = k
    BY DEF TransportComing
  <2>1. k \in KeysOf(book) \ transports /\ k # listing[t][at[t]].key
    BY <1>2
  <2>2. PICK s \in All : pc[s] = "insert" /\ listing[s][at[s]].key = k
    BY <1>1, <2>1 DEF TransportComing
  <2> QED BY <1>2, <1>4, <2>1, <2>2
<1> QED BY <1>5, <1>6, <1>7, <1>8, TypeSplit, PTL DEF BookInv
\* The refresh interval, destroy and the network keep the invariant.
LEMMA RestKeeps ==
  ASSUME BookInv, \/ Wake \/ Cancelled \/ Destroy \/ NetworkChanges \/ UNCHANGED vars
                  \/ \E e \in cache : CacheExpires(e)
  PROVE  BookInv'
<1>1. BookTyped /\ RestTyped /\ ListingsTyped /\ AtEntry /\ RefreshOff /\ TransportComing
  BY TypeSplit DEF BookInv
<1>2. /\ book' = book /\ transports' = transports /\ listing' = listing /\ at' = at
      /\ target' = target /\ attempt' = attempt /\ started' = started /\ cache' \subseteq cache
  BY DEF Wake, Cancelled, Destroy, CacheExpires, NetworkChanges, vars, bookVars, taskVars, refreshVars
<1>3. BookTyped' /\ ListingsTyped'
  BY <1>1, <1>2 DEF BookTyped, ListingsTyped
<1>4. \/ pc' = pc
      \/ /\ pc[Refresher] \in {"start", "pick", "call", "sleep"}
         /\ pc' = [pc EXCEPT ![Refresher] = "start"] \/ pc' = [pc EXCEPT ![Refresher] = "off"]
  BY DEF Wake, Cancelled, Destroy, CacheExpires, NetworkChanges, vars, taskVars
<1>5. /\ \A s \in All : s # Refresher => pc'[s] = pc[s]
      /\ \A s \in All : pc'[s] = pc[s] \/ (pc'[s] \in {"start", "off"} /\ pc[s] \notin {"insert", "off"})
      /\ pc' \in [All -> PCs]
  BY <1>1, <1>4 DEF RestTyped, PCs, All
<1>6. RestTyped'
  <2>1. handle' \in BOOLEAN /\ aborted' \in BOOLEAN
    BY <1>1 DEF RestTyped, Wake, Cancelled, Destroy, CacheExpires, NetworkChanges, vars, refreshVars
  <2>2. epoch' \in 1..Len(Listings) /\ conflicts' = conflicts
    BY <1>1, NetworkTyped DEF RestTyped, Wake, Cancelled, Destroy, CacheExpires, NetworkChanges, vars, networkVars
  <2> QED BY <1>1, <1>2, <1>5, <2>1, <2>2 DEF RestTyped
<1>7. AtEntry' /\ RefreshOff'
  <2>1. AtEntry'
    BY <1>1, <1>2, <1>5 DEF AtEntry
  <2>2. RefreshOff'
    BY <1>1, <1>2, <1>5 DEF RefreshOff, All
  <2> QED BY <2>1, <2>2
<1>8. TransportComing'
  BY <1>1, <1>2, <1>5, ComingKept
<1> QED BY <1>3, <1>6, <1>7, <1>8, TypeSplit, PTL DEF BookInv

\* A new client: the seeds have transports and nobody is at work.
LEMMA BookInit == Init => BookInv
<1> SUFFICES ASSUME Init PROVE BookInv
  OBVIOUS
<1>1. Seeds \in Seq([key : Keys, weight : Nat]) /\ Len(Seeds) \in Nat
  BY ListingAssumption
<1>2. ASSUME NEW i \in 1..Len(Seeds)
      PROVE  /\ NewRecord(Seeds[i]) \in Records /\ NewRecord(Seeds[i]).score \in Floor..One
             /\ NewRecord(Seeds[i]).key = Seeds[i].key /\ Seeds[i].key \in Keys
  <2>1. Seeds[i] \in [key : Keys, weight : Nat]
    <3> DEFINE S == [key : Keys, weight : Nat]
    <3>1. Seeds \in Seq(S)
      BY <1>1
    <3> HIDE DEF S
    <3>2. Seeds[i] \in S
      BY <3>1
    <3> QED BY <3>2 DEF S
  <2> QED BY <2>1, ScoreAssumption DEF NewRecord, Records
<1>3. book = [i \in 1..Len(Seeds) |-> NewRecord(Seeds[i])]
  BY DEF Init
<1>4. book \in Seq(Records) /\ Len(book) = Len(Seeds)
  BY <1>1, <1>2, <1>3
<1>5. BookTyped /\ KeysOf(book) = KeysOf(Seeds)
  BY <1>2, <1>3, <1>4 DEF BookTyped, KeysOf
<1>6. transports = KeysOf(Seeds) /\ transports \subseteq Keys
  BY <1>2 DEF Init, KeysOf
<1>7. RestTyped
  <2>1. (CHOOSE k \in Keys : TRUE) \in Keys
    BY BookAssumption
  <2>2. pc \in [All -> PCs] /\ target \in [All -> Keys]
    BY <2>1 DEF Init, PCs
  <2>3. attempt \in [All -> 0..MaxRetries] /\ at \in [All -> Nat \ {0}]
    BY BookAssumption DEF Init
  <2>4. epoch \in 1..Len(Listings) /\ conflicts \in 0..MaxConflicts
    BY NetworkTyped, BookAssumption DEF Init
  <2>5. started \in BOOLEAN /\ handle \in BOOLEAN /\ aborted \in BOOLEAN
    BY DEF Init
  <2> QED BY <1>6, <2>2, <2>3, <2>4, <2>5 DEF RestTyped
<1>8. ListingsTyped
  BY DEF Init, ListingsTyped
<1>9. AtEntry /\ RefreshOff
  BY DEF Init, AtEntry, RefreshOff, All
<1>10. TransportComing
  BY <1>5, <1>6 DEF TransportComing
<1> QED BY <1>5, <1>7, <1>8, <1>9, <1>10, TypeSplit DEF BookInv

\* Every step keeps the invariant.
LEMMA BookStep == BookInv /\ [Next]_vars => BookInv'
<1> SUFFICES ASSUME BookInv, [Next]_vars PROVE BookInv'
  OBVIOUS
<1>1. ASSUME NEW t \in All, Dispatch(t) \/ Apply(t) PROVE BookInv'
  BY <1>1, DispatchKeeps, ScanKeeps, AddKeepsInv, InsertKeepsInv DEF Apply
<1>2. ASSUME NEW t \in Tasks, TaskStep(t) PROVE BookInv'
  BY <1>1, <1>2, BeginKeeps DEF TaskStep, All
<1>3. CASE RefreshStep
  BY <1>1, <1>3, UpdateKeeps, RestKeeps DEF RefreshStep, All
<1> QED BY <1>2, <1>3, RestKeeps DEF Next

\* Every reachable state satisfies BookInv.
THEOREM BookInvariant == Spec => []BookInv
<1> QED BY BookInit, BookStep, PTL DEF Spec

\* Every variable of the book keeps its shape, and every score stays between
\* the floor and one, however boosts and decays interleave.
THEOREM BookTypeCorrect == Spec => []TypeOK
<1>1. BookInv => TypeOK
  BY DEF BookInv
<1> QED BY <1>1, BookInvariant, PTL

\* A representative in the book has a transport, or the task that added it is
\* about to bind one, whatever the other tasks and the refresh task do.
THEOREM TransportComingHolds == Spec => []TransportComing
<1>1. BookInv => TransportComing
  BY DEF BookInv
<1> QED BY <1>1, BookInvariant, PTL
-----------------------------------------------------------------------------
(* NoDuplicate with one discoverer.                                        *)

\* A step of the dispatch, and of the refresh of the weights, keeps the
\* representatives of the book.
LEMMA SameBook ==
  ASSUME BookInv, [Next]_vars, \A t \in All : ~Add(t)
  PROVE  SameKeys /\ KeysOf(book') = KeysOf(book)
<1>1. BookTyped /\ ListingsTyped
  BY TypeSplit DEF BookInv
<1>2. CASE book' = book
  BY <1>2 DEF SameKeys
<1>3. ASSUME NEW t \in All, Boost(target[t]) \/ Decay(target[t])
      PROVE  SameKeys /\ KeysOf(book') = KeysOf(book)
  BY <1>1, <1>3, BoostKeeps
<1>4. ASSUME NEW t \in All, book' = Reweighed(book, listing[t])
      PROVE  SameKeys /\ KeysOf(book') = KeysOf(book)
  <2>1. listing[t] \in Seq(Entries)
    BY <1>1 DEF ListingsTyped
  <2> QED BY <1>1, <1>4, <2>1, ReweighKeeps
<1>5. ASSUME NEW t \in All, Dispatch(t) \/ Apply(t)
      PROVE  SameKeys /\ KeysOf(book') = KeysOf(book)
  BY <1>2, <1>3, <1>4, <1>5 DEF Dispatch, Apply, Pick, Bind, Succeeds, Fails, Synced, ApplyWeights, Scan, Insert, bookVars
<1>6. ASSUME NEW t \in Tasks, Begin(t) PROVE book' = book
  BY <1>6 DEF Begin, bookVars
<1>7. CASE \/ Update \/ Wake \/ Cancelled \/ Destroy \/ NetworkChanges \/ UNCHANGED vars
           \/ \E e \in cache : CacheExpires(e)
  BY <1>2, <1>7 DEF Update, Wake, Cancelled, Destroy, CacheExpires, NetworkChanges, vars, bookVars
<1> QED BY <1>2, <1>5, <1>6, <1>7 DEF Next, TaskStep, RefreshStep, All

\* A task's locals change only in its own steps; before it is started the
\* refresh task has none to lose.
LEMMA OwnSteps ==
  ASSUME BookInv, [Next]_vars, NEW t \in All
  PROVE  \/ pc'[t] = pc[t] /\ listing'[t] = listing[t] /\ at'[t] = at[t]
         \/ Dispatch(t) \/ Apply(t)
         \/ pc'[t] \in {"start", "pick", "apply", "off"}
<1>1. RestTyped /\ ListingsTyped /\ Refresher \in All
  BY TypeSplit DEF BookInv, All
<1>2. ASSUME NEW s \in All, s # t, Dispatch(s)
      PROVE  pc'[t] = pc[t] /\ listing'[t] = listing[t] /\ at'[t] = at[t]
  BY <1>1, <1>2 DEF Dispatch, Pick, Bind, Succeeds, Fails, Synced, Ends, RestTyped, ListingsTyped
<1>3. ASSUME NEW s \in All, s # t, Apply(s)
      PROVE  pc'[t] = pc[t] /\ listing'[t] = listing[t] /\ at'[t] = at[t]
  BY <1>1, <1>3 DEF Apply, ApplyWeights, Scan, Add, Insert, Ends, RestTyped, ListingsTyped
<1>4. ASSUME NEW s \in Tasks, Begin(s)
      PROVE  /\ listing'[t] = listing[t] /\ at'[t] = at[t]
             /\ pc'[t] = pc[t] \/ pc'[t] \in {"start", "pick"}
  BY <1>1, <1>4 DEF Begin, EnsureRefresh, RestTyped, All
<1>5. CASE Update
  BY <1>1, <1>5 DEF Update, RestTyped, ListingsTyped
<1>6. CASE \/ Wake \/ Cancelled \/ Destroy \/ NetworkChanges \/ UNCHANGED vars
           \/ \E e \in cache : CacheExpires(e)
  BY <1>1, <1>6 DEF Wake, Cancelled, Destroy, CacheExpires, NetworkChanges, vars, taskVars, RestTyped
<1> QED BY <1>1, <1>2, <1>3, <1>4, <1>5, <1>6 DEF Next, TaskStep, RefreshStep, All

\* A client built from distinct representatives, of whose tasks (the refresh task
\* included) only d discovers, holds every representative once: what a
\* NoDuplicate counterexample needs is a second discoverer between the lookup
\* and the addition of apply_reps.
THEOREM OneDiscoverer ==
  ASSUME NEW d \in All, \A t \in All \ {d} : ~Discovers(t),
         \A i, j \in 1..Len(Seeds) : Seeds[i].key = Seeds[j].key => i = j
  PROVE  Spec => []NoDuplicate
<1>1. Init => NoDuplicate /\ OnlyScanner(d)
  <2> SUFFICES ASSUME Init PROVE NoDuplicate /\ OnlyScanner(d)
    OBVIOUS
  <2>1. Len(Seeds) \in Nat /\ book = [i \in 1..Len(Seeds) |-> NewRecord(Seeds[i])]
    BY ListingAssumption DEF Init
  <2>2. Len(book) = Len(Seeds) /\ \A i \in 1..Len(Seeds) : book[i].key = Seeds[i].key
    BY <2>1 DEF NewRecord
  <2>3. NoDuplicate
    BY <2>2 DEF NoDuplicate
  <2> QED BY <2>3 DEF Init, OnlyScanner
<1>2. BookInv /\ NoDuplicate /\ OnlyScanner(d) /\ [Next]_vars => (NoDuplicate /\ OnlyScanner(d))'
  <2> SUFFICES ASSUME BookInv, NoDuplicate, OnlyScanner(d), [Next]_vars
               PROVE  NoDuplicate' /\ OnlyScanner(d)'
    OBVIOUS
  <2>1. BookTyped /\ RestTyped /\ ListingsTyped /\ AtEntry
    BY TypeSplit DEF BookInv
  <2>2. ASSUME NEW t \in All, t # d
        PROVE  pc'[t] \notin {"scan", "add", "insert"}
    <3>1. pc[t] \notin {"scan", "add", "insert"} /\ ~Discovers(t)
      BY <2>2 DEF OnlyScanner
    <3>2. CASE Dispatch(t) \/ Apply(t)
      BY <2>1, <3>1, <3>2 DEF Dispatch, Pick, Bind, Succeeds, Fails, Synced, Apply, ApplyWeights, Scan, Add,
                              Insert, Ends, RestTyped
    <3> QED BY <3>1, <3>2, OwnSteps
  <2>3. CASE \A t \in All : ~Add(t)
    <3>1. SameKeys /\ KeysOf(book') = KeysOf(book)
      BY <2>3, SameBook
    <3>2. NoDuplicate'
      BY <3>1 DEF NoDuplicate, SameKeys
    <3>3. pc'[d] = "add" => listing'[d][at'[d]].key \notin KeysOf(book)
      <4> SUFFICES ASSUME pc'[d] = "add" PROVE listing'[d][at'[d]].key \notin KeysOf(book)
        OBVIOUS
      <4>1. CASE pc'[d] = pc[d] /\ listing'[d] = listing[d] /\ at'[d] = at[d]
        BY <4>1 DEF OnlyScanner, Contains
      <4>2. CASE Dispatch(d)
        BY <2>1, <4>2 DEF Dispatch, Pick, Bind, Succeeds, Fails, Synced, Ends, RestTyped
      <4>3. CASE Apply(d)
        BY <2>1, <2>3, <4>3 DEF Apply, ApplyWeights, Scan, Insert, Ends, RestTyped, Contains
      <4> QED BY <4>1, <4>2, <4>3, OwnSteps
    <3> QED BY <2>2, <3>1, <3>2, <3>3 DEF OnlyScanner, Contains
  <2>4. ASSUME NEW t \in All, Add(t) PROVE NoDuplicate' /\ OnlyScanner(d)'
    <3>1. t = d
      BY <2>4 DEF Add, OnlyScanner
    <3>2. listing[d] \in Seq(Entries) /\ at[d] \in 1..Len(listing[d]) /\ pc[d] = "add"
      BY <2>1, <2>4, <3>1 DEF Add, AtEntry, ListingsTyped
    <3>3. listing[d][at[d]] \in Entries /\ listing[d][at[d]].key \notin KeysOf(book)
      BY <3>2 DEF OnlyScanner, Contains
    <3>4. /\ Len(book') = Len(book) + 1 /\ book'[Len(book) + 1].key = listing[d][at[d]].key
          /\ \A i \in 1..Len(book) : book'[i] = book[i]
      BY <2>1, <2>4, <3>1, <3>3, AddKeeps DEF Add
    <3>5. Len(book) \in Nat
      BY <2>1 DEF BookTyped
    <3>6. NoDuplicate'
      <4> SUFFICES ASSUME NEW i \in 1..Len(book'), NEW j \in 1..Len(book'), book'[i].key = book'[j].key
                   PROVE  i = j
        BY DEF NoDuplicate
      <4>1. \A n \in 1..Len(book) : book[n].key # listing[d][at[d]].key
        BY <3>3 DEF KeysOf
      <4>2. CASE i = Len(book) + 1 \/ j = Len(book) + 1
        BY <3>4, <3>5, <4>1, <4>2
      <4>3. CASE i \in 1..Len(book) /\ j \in 1..Len(book)
        BY <3>4, <4>3 DEF NoDuplicate
      <4> QED BY <3>4, <3>5, <4>2, <4>3
    <3>7. pc'[d] = "insert"
      BY <2>1, <2>4, <3>1 DEF Add, RestTyped
    <3> QED BY <2>2, <3>6, <3>7 DEF OnlyScanner
  <2> QED BY <2>3, <2>4
<1> QED BY <1>1, <1>2, BookInvariant, PTL DEF Spec
-----------------------------------------------------------------------------
(* DeadRepSurvived with one dead representative.                           *)

\* Somebody gave representative k the weight w: the seeds or the network.
Seen(k, w) ==
  \/ \E i \in 1..Len(Seeds) : Seeds[i].key = k /\ Seeds[i].weight = w
  \/ \E n \in 1..Len(Listings) : \E j \in 1..Len(Listings[n]) :
       Listings[n][j].key = k /\ Listings[n][j].weight = w

\* Only d is dead, nobody else answers only sometimes, and `live', a seed,
\* outweighs d once the score of d has decayed as often as a call may retry:
\* worst[m] is what m failures leave of the best score.
Outweighed(d, live, worst) ==
  /\ Dead = {d} /\ Flaky \subseteq {d} /\ live \in KeysOf(Seeds) /\ live # d
  /\ worst \in [0..MaxRetries -> Nat] /\ worst[0] = One
  /\ \A m \in 1..MaxRetries : worst[m] = Decayed(worst[m - 1])
  /\ \A w, v \in Nat : Seen(d, w) /\ Seen(live, v) => w * worst[MaxRetries] < v * One

\* The weights of the book, of the listings and of the cache are weights seen.
ListingSeen(l) == \A j \in 1..Len(l) : Seen(l[j].key, l[j].weight)
WeightsSeen ==
  /\ \A i \in 1..Len(book) : Seen(book[i].key, book[i].weight)
  /\ \A t \in All : ListingSeen(listing[t])
  /\ \A e \in cache : ListingSeen(e.listing)

\* The others keep the best score; the score of d is what the failures met by
\* any one task leave of it, or less.
Scored(d, worst) ==
  /\ \A i \in 1..Len(book) : book[i].key # d => book[i].score = One
  /\ \A i, t : t \in All /\ FirstOf(book, d, i) => book[i].score <= worst[attempt[t]]

\* Where a task has picked the representative it calls.
Aimed == {"bind", "call"}

\* A task that retries has met d, and calls d only while it may retry again.
Retrying(d) ==
  \A t \in All :
    /\ attempt[t] > 0 => d \in KeysOf(book)
    /\ pc[t] \in Aimed => target[t] \in KeysOf(book)
    /\ pc[t] \in Aimed /\ target[t] = d => attempt[t] < MaxRetries
    /\ pc[t] # "failed"

DeadInv(d, live, worst) ==
  WeightsSeen /\ Scored(d, worst) /\ Retrying(d) /\ live \in KeysOf(book)

\* A decayed score keeps the order of the scores, and is no larger than the
\* score was (reliability_after_failure).
LEMMA DecayedGrows ==
  /\ \A a, b \in Nat : a <= b => Decayed(a) <= Decayed(b)
  /\ \A a \in Nat : Floor <= a => Decayed(a) <= a
  /\ \A a \in Nat : Decayed(a) \in Nat
BY ScoreAssumption DEF Decayed

\* boost and decay change one score, and no weight.
LEMMA ScoreIsSet ==
  ASSUME BookTyped, NEW k, NEW s, book' = SetScore(k, s), NEW i \in 1..Len(book)
  PROVE  /\ book'[i].weight = book[i].weight
         /\ FirstOf(book, k, i) => book'[i].score = s
         /\ ~FirstOf(book, k, i) => book'[i].score = book[i].score
<1>1. book[i] \in Records
  BY DEF BookTyped
<1>2. book'[i] = IF FirstOf(book, k, i) THEN [book[i] EXCEPT !.score = s] ELSE book[i]
  BY DEF SetScore, FirstOf
<1> QED BY <1>1, <1>2 DEF Records

\* update_weights changes no score; the weight of a record is its own or that
\* of an entry with its key.
LEMMA WeightIsSet ==
  ASSUME BookTyped, NEW l \in Seq(Entries), book' = Reweighed(book, l), NEW i \in 1..Len(book)
  PROVE  /\ book'[i].score = book[i].score
         /\ \/ book'[i].weight = book[i].weight
            \/ \E j \in 1..Len(l) : l[j].key = book[i].key /\ book'[i].weight = l[j].weight
<1> DEFINE Mine == {j \in 1..Len(l) : l[j].key = book[i].key}
           last == CHOOSE j \in Mine : \A m \in Mine : m <= j
<1>1. book[i] \in Records /\ Len(l) \in Nat
  BY DEF BookTyped
<1>2. book'[i] = IF Mine = {} THEN book[i] ELSE [book[i] EXCEPT !.weight = l[last].weight]
  BY DEF Reweighed
<1>3. CASE Mine = {}
  BY <1>2, <1>3
<1>4. CASE Mine # {}
  <2>1. \E j \in Mine : \A m \in Mine : m <= j
    <3>1. Mine \in SUBSET (0..Len(l))
      BY <1>1
    <3> HIDE DEF Mine
    <3> QED BY <1>1, <1>4, <3>1, GreatestNat
  <2>2. last \in Mine
    BY <2>1
  <2>3. last \in 1..Len(l) /\ l[last].key = book[i].key
    BY <2>2
  <2> HIDE DEF last, Mine
  <2>4. book'[i] = [book[i] EXCEPT !.weight = l[last].weight]
    BY <1>2, <1>4
  <2> QED BY <1>1, <2>3, <2>4 DEF Records
<1> QED BY <1>3, <1>4

\* A call whose retries are used up does not choose d: the live representative
\* has the greater effective score by then (pick_target).
LEMMA LastPickSpares ==
  ASSUME NEW d, NEW live, NEW worst, Outweighed(d, live, worst),
         BookInv, DeadInv(d, live, worst), NEW t \in All,
         book # << >>, book[Best(book)].key = d
  PROVE  attempt[t] < MaxRetries
<1> SUFFICES ASSUME ~(attempt[t] < MaxRetries) PROVE FALSE
  OBVIOUS
<1>1. BookTyped /\ attempt[t] = MaxRetries
  BY TypeSplit, BookAssumption DEF BookInv, RestTyped
<1>2. PICK b : b = Best(book)
  OBVIOUS
<1>3. b \in 1..Len(book) /\ book[b].key = d /\ \A j \in 1..Len(book) : EffectiveScore(book, j) <= EffectiveScore(book, b)
  BY <1>1, <1>2, BestIsGreatest
<1>4. live \in KeysOf(book) /\ d \in KeysOf(book) /\ live # d
  BY <1>3 DEF DeadInv, KeysOf, Outweighed
<1>5. PICK l : FirstOf(book, live, l)
  BY <1>1, <1>4, FirstRecord
<1>6. PICK f : FirstOf(book, d, f)
  BY <1>1, <1>4, FirstRecord
<1>7. /\ l \in 1..Len(book) /\ book[l].key = live /\ book[l].score = One
      /\ f \in 1..Len(book) /\ book[f].score <= worst[MaxRetries]
  BY <1>1, <1>4, <1>5, <1>6 DEF FirstOf, DeadInv, Scored
<1>8. Reliability(book, live) = One /\ Reliability(book, d) = book[f].score
  BY <1>1, <1>5, <1>6, <1>7, FirstRecord
<1>9. PICK wd, wl, r, w : wd = book[b].weight /\ wl = book[l].weight /\ r = book[f].score /\ w = worst[MaxRetries]
  OBVIOUS
<1>10. wd \in Nat /\ wl \in Nat /\ r \in Nat /\ w \in Nat /\ One \in Nat /\ r <= w
  <2>1. book[b] \in Records /\ book[l] \in Records /\ book[f] \in Records
    BY <1>1, <1>3, <1>7 DEF BookTyped
  <2>2. w \in Nat
    BY <1>9, BookAssumption DEF Outweighed
  <2> QED BY <1>7, <1>9, <2>1, <2>2, ScoreAssumption DEF Records
<1>11. wd * w < wl * One
  <2>1. Seen(d, wd) /\ Seen(live, wl)
    BY <1>3, <1>7, <1>9 DEF DeadInv, WeightsSeen
  <2> QED BY <1>9, <1>10, <2>1 DEF Outweighed
<1>12. wl # 0
  BY <1>10, <1>11, ProductGrows
<1>13. EffectiveScore(book, b) = wd * r /\ EffectiveScore(book, l) = wl * One
  <2>1. ~\A j \in 1..Len(book) : book[j].weight = 0
    BY <1>7, <1>9, <1>12
  <2> QED BY <1>3, <1>7, <1>8, <1>9, <2>1 DEF EffectiveScore, Share
<1>14. wl * One <= wd * r
  BY <1>3, <1>7, <1>13
<1>15. wd * r <= wd * w /\ wd * r \in Nat /\ wd * w \in Nat /\ wl * One \in Nat
  BY <1>10, ProductGrows
<1> QED BY <1>11, <1>14, <1>15

\* What a task calls is in the book, and not d when its retries are used up.
MayCall(d, t) ==
  /\ target[t] \in KeysOf(book)
  /\ target[t] = d => attempt[t] < MaxRetries

\* A step that keeps the scores and the representatives keeps the invariant,
\* when no attempt is added and whoever starts a call may.
LEMMA SteadyKeepsDead ==
  ASSUME NEW d, NEW live, NEW worst, Outweighed(d, live, worst),
         BookInv, BookInv', DeadInv(d, live, worst), WeightsSeen',
         SameKeys, \A i \in 1..Len(book) : book'[i].score = book[i].score,
         \A s \in All : attempt'[s] = attempt[s] \/ attempt'[s] = 0,
         \A s \in All : pc'[s] # "failed",
         \A s \in All : pc'[s] \in Aimed =>
             \/ pc[s] \in Aimed /\ target'[s] = target[s] /\ attempt'[s] = attempt[s]
             \/ MayCall(d, s)'
  PROVE  DeadInv(d, live, worst)'
<1>1. BookTyped /\ BookTyped' /\ Len(book) \in Nat
  BY DEF BookInv, TypeOK, BookTyped
<1>2. Len(book') = Len(book) /\ \A i \in 1..Len(book) : book'[i].key = book[i].key
  BY DEF SameKeys
<1>3. KeysOf(book') = KeysOf(book)
  BY <1>2 DEF KeysOf
<1>4. \A i : FirstOf(book', d, i) => FirstOf(book, d, i)
  BY <1>1, <1>2 DEF FirstOf
<1>5. Scored(d, worst)'
  <2>1. \A i \in 1..Len(book') : book'[i].key # d => book'[i].score = One
    BY <1>2 DEF DeadInv, Scored
  <2>2. ASSUME NEW i, NEW t \in All, FirstOf(book', d, i) PROVE book'[i].score <= worst[attempt'[t]]
    <3>1. FirstOf(book, d, i) /\ i \in 1..Len(book) /\ book'[i].score = book[i].score
      BY <1>4, <2>2 DEF FirstOf
    <3>2. CASE attempt'[t] = attempt[t]
      BY <3>1, <3>2 DEF DeadInv, Scored
    <3>3. CASE attempt'[t] = 0
      <4>1. book[i].score \in Floor..One
        BY <1>1, <3>1 DEF BookTyped
      <4> QED BY <3>1, <3>3, <4>1, ScoreAssumption DEF Outweighed
    <3> QED BY <3>2, <3>3
  <2> QED BY <2>1, <2>2 DEF Scored
<1>6. Retrying(d)'
  <2> SUFFICES ASSUME NEW t \in All
               PROVE  /\ attempt'[t] > 0 => d \in KeysOf(book')
                      /\ pc'[t] \in Aimed => target'[t] \in KeysOf(book')
                      /\ pc'[t] \in Aimed /\ target'[t] = d => attempt'[t] < MaxRetries
                      /\ pc'[t] # "failed"
    BY DEF Retrying
  <2>1. attempt'[t] > 0 => d \in KeysOf(book')
    BY <1>3 DEF DeadInv, Retrying
  <2>2. pc'[t] \in Aimed => MayCall(d, t)'
    BY <1>3 DEF DeadInv, Retrying, MayCall
  <2> QED BY <2>1, <2>2 DEF MayCall
<1> QED BY <1>3, <1>5, <1>6 DEF DeadInv

\* Every listing of the network was seen.
LEMMA NetworkSeen == \A n \in 1..Len(Listings) : ListingSeen(Listings[n])
  BY DEF ListingSeen, Seen

\* Every step keeps the weights among the ones seen.
LEMMA WeightsStaySeen ==
  ASSUME BookInv, WeightsSeen, [Next]_vars
  PROVE  WeightsSeen'
<1>1. BookTyped /\ RestTyped /\ ListingsTyped /\ AtEntry /\ Len(book) \in Nat /\ Refresher \in All
  BY TypeSplit DEF BookInv, BookTyped, All
<1>2. /\ \A i \in 1..Len(book) : Seen(book[i].key, book[i].weight)
      /\ \A s \in All : ListingSeen(listing[s])
      /\ \A e \in cache : ListingSeen(e.listing)
  BY DEF WeightsSeen
<1> DEFINE Rest == (\A s \in All : ListingSeen(listing'[s])) /\ (\A e \in cache' : ListingSeen(e.listing))
           Records2 == \A i \in 1..Len(book') : Seen(book'[i].key, book'[i].weight)
<1>3. ASSUME listing' = listing, cache' \subseteq cache PROVE Rest
  BY <1>2, <1>3
<1>4. ASSUME book' = book PROVE Records2
  BY <1>2, <1>4
<1>5. ASSUME NEW t \in All, Succeeds(t) PROVE Rest /\ Records2
  <2>1. ListingSeen(Listings[epoch])
    BY <1>1, NetworkSeen DEF RestTyped
  <2>2. \A s \in All : listing'[s] = listing[s] \/ listing'[s] = Listings[epoch]
    BY <1>1, <1>5 DEF Succeeds, ListingsTyped
  <2>3. \A e \in cache' : e \in cache \/ e = [sig |-> sig, listing |-> Listings[epoch]]
    BY <1>5 DEF Succeeds, Stored
  <2>4. Rest
    BY <1>2, <2>1, <2>2, <2>3
  <2>5. PICK k, s : book' = SetScore(k, s)
    BY <1>5 DEF Succeeds, Boost
  <2>6. SameKeys
    BY <1>1, <1>5, BoostKeeps DEF Succeeds
  <2>7. Records2
    BY <1>1, <1>2, <2>5, <2>6, ScoreIsSet DEF SameKeys
  <2> QED BY <2>4, <2>7
<1>6. ASSUME NEW t \in All, Fails(t) PROVE Rest /\ Records2
  <2>1. PICK k, s : book' = SetScore(k, s)
    BY <1>6 DEF Fails, Decay
  <2>2. SameKeys
    BY <1>1, <1>6, BoostKeeps DEF Fails
  <2>3. Records2
    BY <1>1, <1>2, <2>1, <2>2, ScoreIsSet DEF SameKeys
  <2> QED BY <1>3, <1>6, <2>3 DEF Fails, refreshVars
<1>7. ASSUME NEW t \in All, ApplyWeights(t) PROVE Rest /\ Records2
  <2>1. PICK l : l = listing[t]
    OBVIOUS
  <2>2. l \in Seq(Entries) /\ ListingSeen(l) /\ book' = Reweighed(book, l)
    BY <1>1, <1>2, <1>7, <2>1 DEF ApplyWeights, ListingsTyped
  <2>3. SameKeys
    BY <1>1, <2>2, ReweighKeeps
  <2>4. Records2
    BY <1>1, <1>2, <2>2, <2>3, WeightIsSet DEF SameKeys, ListingSeen
  <2> QED BY <1>3, <1>7, <2>4 DEF ApplyWeights, refreshVars
<1>8. ASSUME NEW t \in All, Add(t) PROVE Rest /\ Records2
  <2>1. PICK e : e = listing[t][at[t]]
    OBVIOUS
  <2>2. at[t] \in 1..Len(listing[t]) /\ listing[t] \in Seq(Entries) /\ ListingSeen(listing[t])
    BY <1>1, <1>2, <1>8 DEF Add, AtEntry, ListingsTyped
  <2>3. e \in Entries /\ Seen(e.key, e.weight) /\ book' = Append(book, NewRecord(e))
    BY <1>8, <2>1, <2>2 DEF ListingSeen, Add
  <2>4. /\ Len(book') = Len(book) + 1 /\ \A i \in 1..Len(book) : book'[i] = book[i]
        /\ book'[Len(book) + 1] = NewRecord(e)
    BY <1>1, <2>3, AddKeeps DEF BookTyped
  <2>5. NewRecord(e).key = e.key /\ NewRecord(e).weight = e.weight
    BY DEF NewRecord
  <2>6. 1..(Len(book) + 1) = 1..Len(book) \cup {Len(book) + 1}
    BY <1>1
  <2>7. Records2
    BY <1>2, <2>3, <2>4, <2>5, <2>6
  <2> QED BY <1>3, <1>8, <2>7 DEF Add, refreshVars
<1>9. ASSUME NEW t \in All, Pick(t) \/ Bind(t) \/ Synced(t) \/ Scan(t) \/ Insert(t) PROVE Rest /\ Records2
  BY <1>3, <1>4, <1>9 DEF Pick, Bind, Synced, Scan, Insert, bookVars, refreshVars
<1>10. ASSUME NEW t \in Tasks, Begin(t) PROVE Rest /\ Records2
  BY <1>3, <1>4, <1>10 DEF Begin, bookVars
<1>11. ASSUME Update PROVE Rest /\ Records2
  <2>1. \A s \in All : listing'[s] = listing[s] \/ \E e \in cache : listing'[s] = e.listing
    BY <1>1, <1>11 DEF Update, ListingsTyped
  <2>2. book' = book /\ cache' = cache
    BY <1>11 DEF Update, bookVars
  <2> QED BY <1>2, <1>4, <2>1, <2>2
<1>12. ASSUME \/ Wake \/ Cancelled \/ Destroy \/ NetworkChanges \/ UNCHANGED vars
              \/ \E e \in cache : CacheExpires(e)
       PROVE  Rest /\ Records2
  <2>1. book' = book /\ listing' = listing /\ cache' \subseteq cache
    BY <1>12 DEF Wake, Cancelled, Destroy, CacheExpires, NetworkChanges, vars, bookVars, taskVars, refreshVars
  <2> QED BY <1>3, <1>4, <2>1
<1> HIDE DEF Rest, Records2
<1>13. Rest /\ Records2
  BY <1>1, <1>5, <1>6, <1>7, <1>8, <1>9, <1>10, <1>11, <1>12
     DEF Next, TaskStep, RefreshStep, Dispatch, Apply, All
<1> QED BY <1>13 DEF Rest, Records2, WeightsSeen

\* The answer of a live representative leaves every score as it is: it was the
\* best already (boost).
LEMMA SuccessKeepsScores ==
  ASSUME NEW d, NEW worst, BookInv, Scored(d, worst), NEW t \in All, Succeeds(t), target[t] # d
  PROVE  SameKeys /\ \A i \in 1..Len(book) : book'[i].score = book[i].score
<1>1. BookTyped
  BY TypeSplit DEF BookInv
<1>2. PICK k, s : k = target[t] /\ s = Boosted(Reliability(book, k))
  OBVIOUS
<1>3. book' = SetScore(k, s) /\ SameKeys
  BY <1>1, <1>2, BoostKeeps DEF Succeeds, Boost
<1>4. ASSUME NEW i \in 1..Len(book), FirstOf(book, k, i) PROVE s = book[i].score
  <2>1. Reliability(book, k) = book[i].score /\ book[i].score = One
    BY <1>1, <1>2, <1>4, FirstRecord DEF FirstOf, Scored
  <2> QED BY <1>2, <2>1, ScoreAssumption DEF Boosted
<1> QED BY <1>1, <1>3, <1>4, ScoreIsSet

\* A failure of d costs every task's bound one decay at most, and the failing
\* task, which could retry, exactly one (decay).
LEMMA FailureKeepsDead ==
  ASSUME NEW d, NEW live, NEW worst, Outweighed(d, live, worst),
         BookInv, DeadInv(d, live, worst), WeightsSeen', NEW t \in All, Fails(t)
  PROVE  DeadInv(d, live, worst)'
<1>1. BookTyped /\ RestTyped /\ Len(book) \in Nat
  BY TypeSplit DEF BookInv, BookTyped
<1>2. target[t] = d /\ pc[t] = "call"
  BY DEF Fails, Outweighed
<1>3. /\ attempt \in [All -> 0..MaxRetries] /\ attempt[t] < MaxRetries /\ MaxRetries \in Nat
      /\ d \in KeysOf(book) /\ pc \in [All -> PCs]
  BY <1>1, <1>2, BookAssumption DEF DeadInv, Retrying, RestTyped, Aimed
<1>4. ~OutOfRetries(t)
  BY <1>3 DEF OutOfRetries
<1>5. /\ attempt' = [attempt EXCEPT ![t] = @ + 1] /\ pc' = [pc EXCEPT ![t] = "pick"]
      /\ target' = target
  BY <1>4 DEF Fails
<1>6. PICK s : s = Decayed(Reliability(book, d))
  OBVIOUS
<1>7. book' = SetScore(d, s) /\ SameKeys /\ KeysOf(book') = KeysOf(book)
  BY <1>1, <1>2, <1>6, BoostKeeps DEF Fails, Decay
<1>8. \A i : FirstOf(book', d, i) => FirstOf(book, d, i) /\ i \in 1..Len(book)
  BY <1>1, <1>7 DEF FirstOf, SameKeys
<1>9. ASSUME NEW i, FirstOf(book, d, i), NEW u \in All PROVE s <= worst[attempt'[u]]
  <2>1. Reliability(book, d) = book[i].score /\ i \in 1..Len(book) /\ book[i].score <= worst[attempt[u]]
    <3>1. Reliability(book, d) = book[i].score
      BY <1>1, <1>9, FirstRecord
    <3>2. i \in 1..Len(book)
      BY <1>9 DEF FirstOf
    <3>3. book[i].score <= worst[attempt[u]]
      BY <1>9 DEF DeadInv, Scored
    <3> QED BY <3>1, <3>2, <3>3
  <2>2. PICK r, m : r = book[i].score /\ m = attempt[u]
    OBVIOUS
  <2>3. r \in Floor..One /\ m \in 0..MaxRetries /\ s = Decayed(r) /\ r <= worst[m]
    BY <1>1, <1>3, <1>6, <2>1, <2>2 DEF BookTyped
  <2>4. r \in Nat /\ Floor <= r /\ worst[m] \in Nat
    BY <2>3, ScoreAssumption DEF Outweighed
  <2>5. CASE u = t
    <3>1. attempt'[u] = m + 1 /\ m + 1 \in 1..MaxRetries /\ (m + 1) - 1 = m
      BY <1>3, <1>5, <2>2, <2>3, <2>5
    <3>2. worst[m + 1] = Decayed(worst[m])
      BY <3>1 DEF Outweighed
    <3> QED BY <2>3, <2>4, <3>1, <3>2, DecayedGrows
  <2>6. CASE u # t
    <3>1. attempt'[u] = m
      BY <1>3, <1>5, <2>2, <2>6
    <3>2. s <= r /\ s \in Nat
      BY <2>3, <2>4, DecayedGrows
    <3> QED BY <2>3, <2>4, <3>1, <3>2
  <2> QED BY <2>5, <2>6
<1>10. Scored(d, worst)'
  <2>1. \A i \in 1..Len(book') : book'[i].key # d => book'[i].score = One
    BY <1>1, <1>7, ScoreIsSet DEF DeadInv, Scored, SameKeys, FirstOf
  <2>2. ASSUME NEW i, NEW u \in All, FirstOf(book', d, i) PROVE book'[i].score <= worst[attempt'[u]]
    BY <1>1, <1>7, <1>8, <1>9, <2>2, ScoreIsSet
  <2> QED BY <2>1, <2>2 DEF Scored
<1>11. Retrying(d)'
  BY <1>3, <1>5, <1>7 DEF DeadInv, Retrying, Aimed
<1> QED BY <1>7, <1>10, <1>11 DEF DeadInv

\* A representative enters the book with the best score, and d only while no
\* task has met it (add).
LEMMA AdditionKeepsDead ==
  ASSUME NEW d, NEW live, NEW worst, Outweighed(d, live, worst),
         BookInv, DeadInv(d, live, worst), WeightsSeen', NEW t \in All, Add(t)
  PROVE  DeadInv(d, live, worst)'
<1>1. BookTyped /\ RestTyped /\ Len(book) \in Nat /\ ListingsTyped /\ AtEntry
  BY TypeSplit DEF BookInv, BookTyped
<1>2. PICK e : e = listing[t][at[t]]
  OBVIOUS
<1>3. e \in Entries /\ book' = Append(book, NewRecord(e))
  <2>1. at[t] \in 1..Len(listing[t]) /\ listing[t] \in Seq(Entries)
    BY <1>1 DEF Add, AtEntry, ListingsTyped
  <2> QED BY <1>2, <2>1 DEF Add
<1>4. /\ Len(book') = Len(book) + 1 /\ \A i \in 1..Len(book) : book'[i] = book[i]
      /\ book'[Len(book) + 1] = NewRecord(e) /\ KeysOf(book') = KeysOf(book) \cup {e.key}
  BY <1>1, <1>3, AddKeeps DEF BookTyped
<1>5. NewRecord(e).score = One
  BY DEF NewRecord
<1>6. /\ attempt' = attempt /\ target' = target /\ attempt \in [All -> 0..MaxRetries]
      /\ pc' = [pc EXCEPT ![t] = "insert"] /\ pc \in [All -> PCs] /\ MaxRetries \in Nat
  BY <1>1, BookAssumption DEF Add, RestTyped
<1>7. Scored(d, worst)'
  <2>1. ASSUME NEW i \in 1..Len(book'), book'[i].key # d PROVE book'[i].score = One
    BY <1>1, <1>4, <1>5, <2>1 DEF DeadInv, Scored
  <2>2. ASSUME NEW i, NEW u \in All, FirstOf(book', d, i) PROVE book'[i].score <= worst[attempt'[u]]
    <3>1. i \in 1..(Len(book) + 1)
      BY <1>4, <2>2 DEF FirstOf
    <3>2. CASE i \in 1..Len(book)
      <4>1. FirstOf(book, d, i)
        BY <1>1, <1>4, <2>2, <3>2 DEF FirstOf
      <4> QED BY <1>4, <1>6, <3>2, <4>1 DEF DeadInv, Scored
    <3>3. CASE i = Len(book) + 1
      <4>1. d \notin KeysOf(book)
        BY <1>1, <1>4, <2>2, <3>3 DEF FirstOf, KeysOf
      <4>2. attempt'[u] = 0
        BY <1>6, <4>1 DEF DeadInv, Retrying
      <4> QED BY <1>4, <1>5, <3>3, <4>2, ScoreAssumption DEF Outweighed
    <3> QED BY <1>1, <3>1, <3>2, <3>3
  <2> QED BY <2>1, <2>2 DEF Scored
<1>8. Retrying(d)'
  BY <1>4, <1>6 DEF DeadInv, Retrying, Aimed
<1> QED BY <1>4, <1>7, <1>8 DEF DeadInv

\* Every step keeps the invariant.
LEMMA DeadStep ==
  ASSUME NEW d, NEW live, NEW worst, Outweighed(d, live, worst),
         BookInv, BookInv', DeadInv(d, live, worst), [Next]_vars
  PROVE  DeadInv(d, live, worst)'
<1>1. BookTyped /\ RestTyped /\ ListingsTyped /\ Refresher \in All
  BY TypeSplit DEF BookInv, All
<1>2. WeightsSeen'
  BY WeightsStaySeen DEF DeadInv
<1>3. \A s \in All : pc[s] # "failed"
  BY DEF DeadInv, Retrying
<1>4. pc \in [All -> PCs] /\ attempt \in [All -> 0..MaxRetries] /\ target \in [All -> Keys]
  BY <1>1 DEF RestTyped
<1> DEFINE Same == SameKeys /\ \A i \in 1..Len(book) : book'[i].score = book[i].score
           Calm == \A s \in All :
                     /\ attempt'[s] = attempt[s] \/ attempt'[s] = 0
                     /\ pc'[s] # "failed"
                     /\ pc'[s] \in Aimed =>
                          \/ pc[s] \in Aimed /\ target'[s] = target[s] /\ attempt'[s] = attempt[s]
                          \/ MayCall(d, s)'
<1>5. Same /\ Calm => DeadInv(d, live, worst)'
  BY <1>2, SteadyKeepsDead
<1>6. ASSUME book' = book PROVE Same
  BY <1>6 DEF SameKeys
<1>7. ASSUME NEW t \in All, Succeeds(t) PROVE DeadInv(d, live, worst)'
  <2>1. Same
    BY <1>7, SuccessKeepsScores DEF Succeeds, Outweighed, DeadInv
  <2>2. Calm
    BY <1>3, <1>4, <1>7 DEF Succeeds, Aimed
  <2> QED BY <1>5, <2>1, <2>2
<1>8. ASSUME NEW t \in All, Fails(t) PROVE DeadInv(d, live, worst)'
  BY <1>2, <1>8, FailureKeepsDead
<1>9. ASSUME NEW t \in All, Pick(t) PROVE DeadInv(d, live, worst)'
  <2>1. book' = book /\ attempt' = attempt
    BY <1>9 DEF Pick, bookVars
  <2>2. ASSUME book # << >>, pc' = [pc EXCEPT ![t] = "bind"],
               target' = [target EXCEPT ![t] = book[Best(book)].key]
        PROVE  MayCall(d, t)'
    <3>1. Best(book) \in 1..Len(book)
      BY <1>1, <2>2, BestIsGreatest
    <3>2. PICK k : k = book[Best(book)].key
      OBVIOUS
    <3>3. k \in KeysOf(book) /\ target'[t] = k
      BY <1>4, <2>2, <3>1, <3>2 DEF KeysOf
    <3>4. k = d => attempt[t] < MaxRetries
      BY <2>2, <3>2, LastPickSpares
    <3> QED BY <2>1, <3>3, <3>4 DEF MayCall
  <2>3. Calm
    <3>1. CASE pc' = [pc EXCEPT ![t] = "bind"] /\ target' = [target EXCEPT ![t] = book[Best(book)].key] /\ book # << >>
      BY <1>3, <1>4, <2>1, <2>2, <3>1 DEF Aimed
    <3>2. CASE Ends(t, "norep") /\ UNCHANGED target
      BY <1>3, <1>4, <2>1, <3>2 DEF Ends, Aimed
    <3> QED BY <1>9, <3>1, <3>2 DEF Pick
  <2> QED BY <1>5, <1>6, <2>1, <2>3
<1>10. ASSUME NEW t \in All, ApplyWeights(t) PROVE DeadInv(d, live, worst)'
  <2>1. PICK l : l = listing[t]
    OBVIOUS
  <2>2. l \in Seq(Entries) /\ book' = Reweighed(book, l)
    BY <1>1, <1>10, <2>1 DEF ApplyWeights, ListingsTyped
  <2>3. Same
    BY <1>1, <2>2, ReweighKeeps, WeightIsSet
  <2>4. Calm
    BY <1>3, <1>4, <1>10 DEF ApplyWeights, Ends, Aimed
  <2> QED BY <1>5, <2>3, <2>4
<1>11. ASSUME NEW t \in All, Add(t) PROVE DeadInv(d, live, worst)'
  BY <1>2, <1>11, AdditionKeepsDead
<1>12. ASSUME NEW t \in All, Bind(t) \/ Synced(t) \/ Scan(t) \/ Insert(t) PROVE DeadInv(d, live, worst)'
  <2>1. book' = book
    BY <1>12 DEF Bind, Synced, Scan, Insert, bookVars
  <2>2. Calm
    BY <1>3, <1>4, <1>12 DEF Bind, Synced, Scan, Insert, Ends, Aimed
  <2> QED BY <1>5, <1>6, <2>1, <2>2
<1>13. ASSUME NEW t \in Tasks, Begin(t) PROVE DeadInv(d, live, worst)'
  <2>1. book' = book
    BY <1>13 DEF Begin, bookVars
  <2>2. Calm
    BY <1>1, <1>3, <1>4, <1>13 DEF Begin, EnsureRefresh, Aimed
  <2> QED BY <1>5, <1>6, <2>1, <2>2
<1>14. ASSUME Update PROVE DeadInv(d, live, worst)'
  <2>1. book' = book
    BY <1>14 DEF Update, bookVars
  <2>2. Calm
    BY <1>1, <1>3, <1>4, <1>14 DEF Update, Aimed
  <2> QED BY <1>5, <1>6, <2>1, <2>2
<1>15. ASSUME \/ Wake \/ Cancelled \/ Destroy \/ NetworkChanges \/ UNCHANGED vars
              \/ \E e \in cache : CacheExpires(e)
       PROVE  DeadInv(d, live, worst)'
  <2>1. book' = book
    BY <1>15 DEF Wake, Cancelled, Destroy, CacheExpires, NetworkChanges, vars, bookVars
  <2>2. Calm
    BY <1>1, <1>3, <1>4, <1>15
    DEF Wake, Cancelled, Destroy, CacheExpires, NetworkChanges, vars, taskVars, Aimed
  <2> QED BY <1>5, <1>6, <2>1, <2>2
<1> QED BY <1>1, <1>7, <1>8, <1>9, <1>10, <1>11, <1>12, <1>13, <1>14, <1>15
        DEF Next, TaskStep, RefreshStep, Dispatch, Apply, All

\* A new client has met nobody.
LEMMA DeadInit ==
  ASSUME NEW d, NEW live, NEW worst, Outweighed(d, live, worst), Init
  PROVE  DeadInv(d, live, worst)
<1>1. Len(Seeds) \in Nat /\ book = [i \in 1..Len(Seeds) |-> NewRecord(Seeds[i])]
  BY ListingAssumption DEF Init
<1>2. /\ Len(book) = Len(Seeds)
      /\ \A i \in 1..Len(Seeds) : /\ book[i].key = Seeds[i].key /\ book[i].weight = Seeds[i].weight
                                  /\ book[i].score = One
  BY <1>1 DEF NewRecord
<1>3. live \in KeysOf(book)
  BY <1>2 DEF Outweighed, KeysOf
<1>4. WeightsSeen
  <2>1. \A i \in 1..Len(book) : Seen(book[i].key, book[i].weight)
    BY <1>2 DEF Seen
  <2>2. cache = {} /\ \A t \in All : listing[t] = << >>
    BY DEF Init
  <2>3. \A t \in All : ListingSeen(listing[t])
    BY <2>2 DEF ListingSeen
  <2> QED BY <2>1, <2>2, <2>3 DEF WeightsSeen
<1>5. Scored(d, worst)
  BY <1>2, ScoreAssumption DEF Scored, FirstOf, Init, Outweighed
<1>6. Retrying(d)
  BY DEF Init, Retrying, Aimed
<1> QED BY <1>3, <1>4, <1>5, <1>6 DEF DeadInv

\* With one dead representative and a seed that outweighs it after as many
\* failures as a call may retry, no call gives up, however many tasks share the
\* book, whatever the refresh and the discoveries do to the weights: the decay
\* of the dead one makes dispatch_any pick the live one in time.
THEOREM DeadRepAvoided ==
  ASSUME NEW CONSTANT d, NEW CONSTANT live, NEW CONSTANT worst, Outweighed(d, live, worst)
  PROVE  Spec => []DeadRepSurvived
<1>1. Init => DeadInv(d, live, worst)
  BY DeadInit
<1>2. BookInv /\ BookInv' /\ DeadInv(d, live, worst) /\ [Next]_vars => DeadInv(d, live, worst)'
  BY DeadStep
<1>3. DeadInv(d, live, worst) => DeadRepSurvived
  BY DEF DeadInv, Retrying, DeadRepSurvived, All
<1> QED BY <1>1, <1>2, <1>3, BookInvariant, PTL DEF Spec
=============================================================================
