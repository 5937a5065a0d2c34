-------------------------------- MODULE Reads --------------------------------
(***************************************************************************)
(* The reads of KeetaClient that take several answers: chain_all,          *)
(* history_all and global_history_all follow the node's cursor page by     *)
(* page (drain_cursor_pages), each page being a dispatch of its own that   *)
(* any representative may answer, and vote_staple asks one representative  *)
(* after the other.                                                        *)
(*                                                                         *)
(* The entries of a chain or of a history are numbered in the order they   *)
(* were committed.  Representatives agree on them (module UserWrite) and   *)
(* differ in how many they have so far.  Picking, retrying and scoring a   *)
(* representative is the subject of RepBook: here a failed page either is  *)
(* asked again or ends the read.                                           *)
(***************************************************************************)
EXTENDS Naturals, Sequences, FiniteSets, FiniteSetsExt

CONSTANTS
  Reps,         \* representatives
  Limits,       \* the page limits callers ask for
  MaxHeight     \* bound on the entries committed

VARIABLES
  height,       \* height[r]: how many entries r has
  pc,           \* "idle", "paging", "asking", "done", "absent" or "failed"
  known,        \* height at the time of the call
  limit,        \* limit of the query
  cursor,       \* cursor, 0 for None
  items,        \* items, most recent first
  wanted,       \* blockhash of vote_staple
  picks,        \* representatives vote_staple has not asked
  lastError     \* last_error is Some

callVars == <<pc, known, limit, cursor, items, wanted, picks, lastError>>
vars == <<height, callVars>>

Init ==
  /\ height \in [Reps -> 0..MaxHeight]
  /\ pc = "idle" /\ known = height
  /\ limit = 0 /\ cursor = 0 /\ items = << >>
  /\ wanted = 0 /\ picks = {} /\ lastError = FALSE

\* A representative commits the next entry (external).
Commits(r) ==
  /\ height[r] < MaxHeight
  /\ height' = [height EXCEPT ![r] = @ + 1]
  /\ UNCHANGED callVars

-----------------------------------------------------------------------------
(* drain_cursor_pages.                                                     *)

\* page_limit.max(1)
PageLimitRaw(n) == n
PageLimit(n) == IF n = 0 THEN 1 ELSE n

ReadAll(n) ==
  /\ pc = "idle" /\ pc' = "paging"
  /\ known' = height /\ limit' = PageLimit(n)
  /\ UNCHANGED <<height, cursor, items, wanted, picks, lastError>>

\* The answer of r (external): the entries before the cursor, at most limit of
\* them, and the last of them as the next cursor; at the end of the chain that
\* or none.  An entry r does not have yet is no cursor to r.
Answers(r) == cursor <= height[r]
Page(r) ==
  LET top  == IF cursor = 0 THEN height[r] ELSE cursor - 1
      size == IF top < limit THEN top ELSE limit
  IN  [k \in 1..size |-> top + 1 - k]
NextKeys(page) ==
  IF page = << >> THEN {0}
  ELSE LET last == page[Len(page)] IN IF last = 1 THEN {0, 1} ELSE {last}

Fetch(r) ==
  /\ pc = "paging" /\ Answers(r)
  /\ LET page == Page(r)
     IN  \E key \in NextKeys(page) :
           /\ items' = items \o page
           /\ IF page = << >> \/ key = 0
                THEN pc' = "done" /\ UNCHANGED cursor
                ELSE cursor' = key /\ UNCHANGED pc
  /\ UNCHANGED <<height, known, limit, wanted, picks, lastError>>

\* The page failed at every representative it was dispatched to.
FetchFails ==
  /\ pc = "paging" /\ pc' = "failed"
  /\ UNCHANGED <<height, known, limit, cursor, items, wanted, picks, lastError>>

-----------------------------------------------------------------------------
(* vote_staple.                                                            *)

AskStaple(n) ==
  /\ pc = "idle" /\ pc' = "asking"
  /\ known' = height /\ wanted' = n /\ picks' = Reps
  /\ UNCHANGED <<height, limit, cursor, items, lastError>>

\* compose_staple_on: the votes r holds for the block and the blocks they list,
\* which r has once it has the votes.
Composes(r) ==
  /\ pc = "asking" /\ r \in picks
  /\ IF wanted <= height[r]
       THEN pc' = "done" /\ items' = <<wanted>> /\ UNCHANGED picks
       ELSE picks' = picks \ {r} /\ UNCHANGED <<pc, items>>
  /\ UNCHANGED <<height, known, limit, cursor, wanted, lastError>>

ComposeFails(r) ==
  /\ pc = "asking" /\ r \in picks
  /\ picks' = picks \ {r} /\ lastError' = TRUE
  /\ UNCHANGED <<height, pc, known, limit, cursor, items, wanted>>

\* No representative returned it.
WhenExhausted == IF lastError THEN "failed" ELSE "absent"
Exhausted ==
  /\ pc = "asking" /\ picks = {}
  /\ pc' = WhenExhausted
  /\ UNCHANGED <<height, known, limit, cursor, items, wanted, picks, lastError>>

-----------------------------------------------------------------------------
Next ==
  \/ \E r \in Reps : Commits(r) \/ Fetch(r) \/ Composes(r) \/ ComposeFails(r)
  \/ \E n \in Limits : ReadAll(n)
  \/ \E n \in 1..MaxHeight : AskStaple(n)
  \/ FetchFails \/ Exhausted

Spec == Init /\ [][Next]_vars

-----------------------------------------------------------------------------
\* A read leaves nothing out.  The entries chain_all and history_all return,
\* whichever representatives answered which pages while the chain grew, are
\* the chain without gap or repetition down to the first entry, and all that
\* every representative had when the call began (client.rs: "Every block in
\* account's chain").  And vote_staple says that there is no staple only when
\* no representative had it when the call began.
ReadsComplete ==
  /\ (pc = "done" /\ wanted = 0) =>
       /\ items = [k \in 1..Len(items) |-> Len(items) + 1 - k]
       /\ Len(items) >= Min({known[r] : r \in Reps})
  /\ pc = "absent" => \A r \in Reps : known[r] < wanted
=============================================================================
