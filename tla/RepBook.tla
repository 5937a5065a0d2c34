------------------------------ MODULE RepBook ------------------------------
(***************************************************************************)
(* The representative book of keetanetwork-client and the durable dispatch *)
(* over it: reliability scores, selection, retries, the lazily started     *)
(* refresh task, the process-shared cache of listings and the discovery of *)
(* representatives.                                                        *)
(*                                                                         *)
(* The clones of one KeetaClient share its book (RepBook, behind a lock)   *)
(* and its transports (behind another).  Every action is one section under *)
(* one lock, or the arrival of one answer; the tasks, and the refresh task *)
(* among them, interleave between sections.                                *)
(*                                                                         *)
(* Scores are multiples of a unit: One stands for 1.0, a success adds Inc, *)
(* a failure halves, and Floor is the least score.  Left out: the backoff  *)
(* delays, the precision of the weight fraction, and the network and       *)
(* subnet settings.                                                        *)
(***************************************************************************)
EXTENDS Naturals, Sequences, FiniteSets

CONSTANTS
  Tasks,         \* callers sharing the client, each performing one call
  Kind,          \* Kind[t]: "read", or "discover" for discover_representatives
  Refresher,     \* the background task of ensure_refresh
  Keys,          \* representative keys
  Seeds,         \* the book the client is built with: entries [key, weight]
  Listings,      \* the listings of the network, in the order it changes:
                 \* each a sequence of entries [key, weight, api]
  Dead,          \* representatives that always fail (or time out)
  Flaky,         \* representatives that sometimes do
  MaxConflicts,  \* how many ledger conflicts the calls may meet (a bound)
  DiscoverReps,  \* ClientConfig::discover_reps
  MaxRetries,    \* ClientConfig::max_retries
  One, Inc, Floor

ASSUME BookAssumption ==
  /\ Refresher \notin Tasks /\ Keys # {}
  /\ Kind \in [Tasks -> {"read", "discover"}]
  /\ Dead \subseteq Keys /\ Flaky \subseteq Keys
  /\ DiscoverReps \in BOOLEAN /\ MaxConflicts \in Nat
  /\ MaxRetries \in Nat
ASSUME ScoreAssumption ==
  One \in Nat /\ Inc \in Nat /\ Floor \in Nat /\ Floor <= One
ASSUME ListingAssumption ==
  /\ Seeds \in Seq([key : Keys, weight : Nat])
  /\ Listings \in Seq(Seq([key : Keys, weight : Nat, api : BOOLEAN])) \ {<< >>}

VARIABLES
  book,        \* RepState::reps
  transports,  \* keys of Inner::transports
  pc,          \* pc[t]: where task t stands
  target,      \* target[t]: the representative being called
  attempt,     \* attempt[t]: retries so far
  listing,     \* listing[t]: the entries being applied
  at,          \* at[t]: the entry of `listing' being looked at
  started,     \* RefreshState::started
  handle,      \* RefreshState::handle is present
  aborted,     \* the refresh task was told to stop
  sig,         \* signature under which the refresh will store its listing
  cache,       \* the fresh listings of the process-shared cache, by signature
  epoch,       \* which of Listings the network now gives
  conflicts    \* ledger conflicts met so far

bookVars == <<book, transports>>
taskVars == <<pc, target, attempt, listing, at>>
refreshVars == <<started, handle, aborted, sig, cache>>
networkVars == <<epoch, conflicts>>
vars == <<bookVars, taskVars, refreshVars, networkVars>>

All == Tasks \cup {Refresher}
Records == [key : Keys, weight : Nat, score : Nat]
PCs == {"start", "pick", "bind", "call", "apply", "scan", "add", "insert", "sleep",
        "off", "done", "failed", "norep"}

-----------------------------------------------------------------------------
(* RepState.                                                               *)
KeysOf(b) == {b[i].key : i \in 1..Len(b)}
Contains(k) == k \in KeysOf(book)

\* reliability: the score of the first record with the key.
Reliability(b, k) == b[CHOOSE i \in 1..Len(b) :
                         b[i].key = k /\ \A j \in 1..(i - 1) : b[j].key # k].score

\* The weight fraction scaled by the reliability, in units of 1 / total; when
\* the total is zero every representative has the same share.
Share(b, i) == IF \A j \in 1..Len(b) : b[j].weight = 0 THEN 1 ELSE b[i].weight
EffectiveScore(b, i) == Share(b, i) * Reliability(b, b[i].key)

\* pick keeps the earliest of the highest effective scores.
Best(b) ==
  CHOOSE i \in 1..Len(b) :
    /\ \A j \in 1..Len(b) : EffectiveScore(b, j) <= EffectiveScore(b, i)
    /\ \A j \in 1..(i - 1) : EffectiveScore(b, j) < EffectiveScore(b, i)

SetScore(k, score) ==
  [i \in 1..Len(book) |->
     IF book[i].key = k /\ \A j \in 1..(i - 1) : book[j].key # k
       THEN [book[i] EXCEPT !.score = score] ELSE book[i]]

Boosted(score) == IF score + Inc < One THEN score + Inc ELSE One
NeverDecayed(score) == score
Decayed(score) == IF score \div 2 > Floor THEN score \div 2 ELSE Floor

Boost(k) == book' = SetScore(k, Boosted(Reliability(book, k)))
Decay(k) == book' = SetScore(k, Decayed(Reliability(book, k)))

\* update_weights: the fetched weights are indexed by key, the last one wins.
Reweighed(b, entries) ==
  [i \in 1..Len(b) |->
     LET mine == {j \in 1..Len(entries) : entries[j].key = b[i].key}
     IN IF mine = {} THEN b[i]
        ELSE [b[i] EXCEPT !.weight = entries[CHOOSE j \in mine : \A l \in mine : l <= j].weight]]

NewRecord(e) == [key |-> e.key, weight |-> e.weight, score |-> One]

\* sorted_keys: what the cache is keyed by.
Signature == [k \in Keys |-> Cardinality({i \in 1..Len(book) : book[i].key = k})]

-----------------------------------------------------------------------------
\* ensure_refresh, the first thing every call does: under the lock, start the
\* refresh task once.
EnsureRefresh(t) ==
  IF started
    THEN /\ pc' = [pc EXCEPT ![t] = "pick"]
         /\ UNCHANGED <<started, handle>>
    ELSE /\ started' = TRUE /\ handle' = TRUE
         /\ pc' = [pc EXCEPT ![t] = "pick", ![Refresher] = "start"]

Begin(t) ==
  /\ t \in Tasks /\ pc[t] = "start"
  /\ EnsureRefresh(t)
  /\ UNCHANGED <<bookVars, target, attempt, listing, at, aborted, sig, cache, networkVars>>

\* update_reps: a fresh cached listing for the present set of keys is applied,
\* otherwise one is fetched.
Update ==
  /\ pc[Refresher] = "start"
  /\ sig' = Signature
  /\ \/ \E e \in cache :
          /\ e.sig = Signature
          /\ listing' = [listing EXCEPT ![Refresher] = e.listing]
          /\ pc' = [pc EXCEPT ![Refresher] = "apply"]
     \/ /\ \A e \in cache : e.sig # Signature
        /\ pc' = [pc EXCEPT ![Refresher] = "pick"]
        /\ UNCHANGED listing
  /\ attempt' = [attempt EXCEPT ![Refresher] = 0]
  /\ UNCHANGED <<bookVars, target, at, started, handle, aborted, cache, networkVars>>

\* The call of task t is over: a caller returns `how'; the refresh task drops
\* the error and sleeps.
Ends(t, how) == pc' = [pc EXCEPT ![t] = IF t = Refresher THEN "sleep" ELSE how]

\* dispatch_any: pick_target reads the book under its lock ...
Pick(t) ==
  /\ pc[t] = "pick"
  /\ IF book = << >>
       THEN Ends(t, "norep") /\ UNCHANGED target
       ELSE /\ target' = [target EXCEPT ![t] = book[Best(book)].key]
            /\ pc' = [pc EXCEPT ![t] = "bind"]
  /\ UNCHANGED <<bookVars, attempt, listing, at, refreshVars, networkVars>>

\* ... and then the registry of transports under another.
Bind(t) ==
  /\ pc[t] = "bind"
  /\ IF target[t] \in transports
       THEN pc' = [pc EXCEPT ![t] = "call"]
       ELSE Ends(t, "norep")
  /\ UNCHANGED <<bookVars, target, attempt, listing, at, refreshVars, networkVars>>

\* store_representatives replaces the listing of the signature.
Stored(l) == {e \in cache : e.sig # sig} \cup {[sig |-> sig, listing |-> l]}

\* The response is a success: a read is done, a listing is to be applied (and,
\* by the refresh task, stored in the cache under the signature it started with).
Succeeds(t) ==
  /\ pc[t] = "call" /\ target[t] \notin Dead
  /\ Boost(target[t])
  /\ IF t \in Tasks /\ Kind[t] = "read"
       THEN pc' = [pc EXCEPT ![t] = "done"] /\ UNCHANGED <<listing, cache>>
       ELSE /\ listing' = [listing EXCEPT ![t] = Listings[epoch]]
            /\ cache' = IF t = Refresher THEN Stored(Listings[epoch]) ELSE cache
            /\ pc' = [pc EXCEPT ![t] = "apply"]
  /\ UNCHANGED <<transports, target, attempt, at, started, handle, aborted, sig, networkVars>>

\* It is an error, or run_call timed out: decay, back off and retry.
OutOfRetries(t) == attempt[t] >= MaxRetries

FailsUncounted(t) ==
  /\ pc[t] = "call" /\ target[t] \in Dead \cup Flaky
  /\ pc' = [pc EXCEPT ![t] = "pick"]
  /\ UNCHANGED <<bookVars, target, attempt, listing, at, refreshVars, networkVars>>
Fails(t) ==
  /\ pc[t] = "call" /\ target[t] \in Dead \cup Flaky
  /\ Decay(target[t])
  /\ IF OutOfRetries(t)
       THEN Ends(t, "failed") /\ UNCHANGED attempt
       ELSE /\ attempt' = [attempt EXCEPT ![t] = @ + 1]
            /\ pc' = [pc EXCEPT ![t] = "pick"]
  /\ UNCHANGED <<transports, target, listing, at, refreshVars, networkVars>>

\* It is a ledger conflict and try_recover_on_error synced an account: call
\* again at once, without decay and without counting an attempt.
Synced(t) ==
  /\ pc[t] = "call" /\ conflicts < MaxConflicts /\ target[t] \notin Dead
  /\ conflicts' = conflicts + 1
  /\ pc' = [pc EXCEPT ![t] = "pick"]
  /\ UNCHANGED <<bookVars, target, attempt, listing, at, refreshVars, epoch>>

-----------------------------------------------------------------------------
Discovers(t) == IF t = Refresher THEN DiscoverReps ELSE Kind[t] = "discover"

\* apply_reps: refresh the weights ...
ApplyWeights(t) ==
  /\ pc[t] = "apply"
  /\ book' = Reweighed(book, listing[t])
  /\ at' = [at EXCEPT ![t] = 1]
  /\ IF Discovers(t) THEN pc' = [pc EXCEPT ![t] = "scan"] ELSE Ends(t, "done")
  /\ UNCHANGED <<transports, target, attempt, listing, refreshVars, networkVars>>

\* ... then look at the entries one by one: the lookup takes the read lock,
Scan(t) ==
  /\ pc[t] = "scan"
  /\ IF at[t] > Len(listing[t]) THEN Ends(t, "done") /\ UNCHANGED at
     ELSE LET e == listing[t][at[t]]
          IN IF e.api /\ ~Contains(e.key)
               THEN pc' = [pc EXCEPT ![t] = "add"] /\ UNCHANGED at
               ELSE at' = [at EXCEPT ![t] = @ + 1] /\ UNCHANGED pc
  /\ UNCHANGED <<bookVars, target, attempt, listing, refreshVars, networkVars>>

\* the addition the write lock,
Add(t) ==
  /\ pc[t] = "add"
  /\ book' = Append(book, NewRecord(listing[t][at[t]]))
  /\ pc' = [pc EXCEPT ![t] = "insert"]
  /\ UNCHANGED <<transports, target, attempt, listing, at, refreshVars, networkVars>>

\* and the transport the write lock of the other registry.
InsertNothing(t) == UNCHANGED transports
InsertTransport(t) == transports' = transports \cup {listing[t][at[t]].key}

Insert(t) ==
  /\ pc[t] = "insert"
  /\ InsertTransport(t)
  /\ at' = [at EXCEPT ![t] = @ + 1]
  /\ pc' = [pc EXCEPT ![t] = "scan"]
  /\ UNCHANGED <<book, target, attempt, listing, refreshVars, networkVars>>

-----------------------------------------------------------------------------
\* The refresh interval elapses.
Wake ==
  /\ pc[Refresher] = "sleep" /\ ~aborted
  /\ pc' = [pc EXCEPT ![Refresher] = "start"]
  /\ UNCHANGED <<bookVars, target, attempt, listing, at, refreshVars, networkVars>>

\* destroy takes the handle, if the task was started, and aborts the task ...
DestroyDetaching ==
  /\ handle /\ handle' = FALSE
  /\ UNCHANGED <<bookVars, taskVars, started, aborted, sig, cache, networkVars>>
Destroy ==
  /\ handle /\ handle' = FALSE /\ aborted' = TRUE
  /\ UNCHANGED <<bookVars, taskVars, started, sig, cache, networkVars>>

\* ... which stops where it next waits.
Cancelled ==
  /\ aborted /\ pc[Refresher] \in {"start", "pick", "call", "sleep"}
  /\ pc' = [pc EXCEPT ![Refresher] = "off"]
  /\ UNCHANGED <<bookVars, target, attempt, listing, at, refreshVars, networkVars>>

\* A cached listing outlives its time to live.
CacheKept(e) == FALSE
CacheExpires(e) ==
  /\ cache' = cache \ {e}
  /\ UNCHANGED <<bookVars, taskVars, started, handle, aborted, sig, networkVars>>

\* The network elects other representatives or changes their weights.
NetworkChanges ==
  /\ epoch < Len(Listings) /\ epoch' = epoch + 1
  /\ UNCHANGED <<bookVars, taskVars, refreshVars, conflicts>>

Ended(t) == pc[t] \in {"done", "failed", "norep"}

Init ==
  /\ book = [i \in 1..Len(Seeds) |-> NewRecord(Seeds[i])]
  /\ transports = KeysOf(Seeds)
  /\ pc = [t \in All |-> IF t = Refresher THEN "off" ELSE "start"]
  /\ target = [t \in All |-> CHOOSE k \in Keys : TRUE]
  /\ attempt = [t \in All |-> 0]
  /\ listing = [t \in All |-> << >>]
  /\ at = [t \in All |-> 1]
  /\ started = FALSE /\ handle = FALSE /\ aborted = FALSE
  /\ sig = [k \in Keys |-> 0]
  /\ cache = {}
  /\ epoch = 1 /\ conflicts = 0

Dispatch(t) == Pick(t) \/ Bind(t) \/ Succeeds(t) \/ Fails(t) \/ Synced(t)
Apply(t) == ApplyWeights(t) \/ Scan(t) \/ Add(t) \/ Insert(t)
TaskStep(t) == Begin(t) \/ Dispatch(t) \/ Apply(t)
RefreshStep == Update \/ Dispatch(Refresher) \/ Apply(Refresher) \/ Wake

Next ==
  \/ \E t \in Tasks : TaskStep(t)
  \/ RefreshStep \/ Cancelled \/ Destroy
  \/ \E e \in cache : CacheExpires(e)
  \/ NetworkChanges
  \/ (\A t \in Tasks : Ended(t)) /\ UNCHANGED vars

Spec == Init /\ [][Next]_vars

\* Tasks are polled as long as they have something to do, an aborted task is
\* cancelled at its next wait, and time passes: a cached listing expires.
FairSpec ==
  /\ Spec
  /\ \A t \in Tasks : WF_vars(TaskStep(t))
  /\ WF_vars(RefreshStep) /\ WF_vars(Cancelled)
  /\ WF_vars(\E e \in cache : CacheExpires(e))

-----------------------------------------------------------------------------
\* Every variable keeps its shape, and every score stays between the floor and
\* one, the bounds of reliability_after_failure and reliability_after_success.
TypeOK ==
  /\ book \in Seq(Records) /\ transports \subseteq Keys
  /\ \A i \in 1..Len(book) : book[i].score \in Floor..One
  /\ pc \in [All -> PCs] /\ target \in [All -> Keys]
  /\ attempt \in [All -> 0..MaxRetries]
  /\ at \in [All -> Nat \ {0}]
  /\ started \in BOOLEAN /\ handle \in BOOLEAN /\ aborted \in BOOLEAN
  /\ epoch \in 1..Len(Listings) /\ conflicts \in 0..MaxConflicts

\* A representative in the book has a transport, or the task that added it is
\* about to bind one: nothing is left in the book that no call can reach.
TransportComing ==
  \A k \in KeysOf(book) \ transports :
    \E t \in All : pc[t] = "insert" /\ listing[t][at[t]].key = k

\* With a representative that always answers, no read gives up because another
\* one is dead, whatever the concurrent calls do to the scores: the decay of a
\* failing representative makes dispatch_any pick the live one.
DeadRepSurvived == \A t \in Tasks : pc[t] # "failed"

\* The book holds a representative once (client.rs: apply_reps adds those
\* "not yet in the set").
NoDuplicate == \A i, j \in 1..Len(book) : book[i].key = book[j].key => i = j

\* Every call returns.
CallsReturn == \A t \in Tasks : <>Ended(t)

\* The weights of the book follow the network: when the listing changes no more,
\* every representative it names gets its weight for good, although discoveries
\* and the cache of update_reps may first put older weights back -- unless
\* destroy has stopped the refresh task.
WeightsConverge ==
  <>[](\/ aborted
       \/ \A i \in 1..Len(book), j \in 1..Len(Listings[epoch]) :
            Listings[epoch][j].key = book[i].key =>
              book[i].weight = Listings[epoch][j].weight)

\* Once destroy has stopped the refresh task, it stays stopped.
DestroyIsFinal == (started /\ ~handle) ~> [](pc[Refresher] = "off")
=============================================================================
