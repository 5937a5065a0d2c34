----------------------------- MODULE UserWrite -----------------------------
(***************************************************************************)
(* The signed write of keetanetwork-client: UserClient::build_and_publish  *)
(* renders a transaction into one block per account, originate publishes   *)
(* the blocks one by one through KeetaClient::transmit_with_optional_fee   *)
(* (temporary votes, an optional fee block, permanent votes, a staple),    *)
(* and a successor-vote conflict sends the call through recover_account    *)
(* and back to rendering.                                                  *)
(*                                                                         *)
(* Each client runs one write call.  A fan-out (FuturesUnordered) is a set *)
(* of representatives still to answer; the answers arrive in any order.    *)
(* A request is delivered, or lost after the representative acted on it,   *)
(* or never reaches it: the client sees a transport error in both cases.   *)
(*                                                                         *)
(* Left out: scores (module RepBook), backoff delays, vote validity times  *)
(* (module VoteStaple), quotes, and what operations the blocks carry.      *)
(***************************************************************************)
EXTENDS RepLedger

CONSTANTS
  Clients,       \* writers, each performing one write call
  Plan,          \* the accounts of the blocks one write renders to, in order
  Operating,     \* the operating account (the one recover() recovers)
  Payer,         \* the bound signer, who pays fees
  FeesRequired,  \* whether the votes carry a required fee
  Weight,        \* Weight[r]: the voting weight the client knows for r
  Hung,          \* representatives that accept requests and never answer
  MaxRetries,    \* ClientConfig::max_retries
  MaxRebuilds,   \* UserClient::MAX_REBUILD_RETRIES
  MaxFaults      \* bound on lost requests, expired votes and crashes

ASSUME PlanAssumption ==
  /\ Plan \in Seq(Accounts) /\ Len(Plan) >= 1
  /\ \A i, j \in 1..Len(Plan) : Plan[i] = Plan[j] => i = j
  /\ Operating \in Accounts /\ Payer \in Accounts
  /\ FeesRequired \in BOOLEAN
ASSUME BoundsAssumption ==
  /\ MaxRetries \in Nat /\ MaxRebuilds \in Nat /\ MaxFaults \in Nat
  /\ Weight \in [Reps -> Nat] /\ Hung \subseteq Reps

VARIABLES
  pc,       \* pc[c]: where the call of c stands
  part,     \* part[c]: index in Plan of the block being published
  prevs,    \* prevs[c][i]: the `previous' of the i-th rendered block
  body,     \* body[c]: the blocks of the round under way
  wait,     \* wait[c]: representatives that have not answered the fan-out
  temp,     \* temp[c]: temporary votes collected
  perm,     \* perm[c]: permanent votes collected
  seen,     \* seen[c]: pending blocks reported to recovery, by representative
  missing,  \* missing[c]: representatives that showed recovery no vote
  good,     \* good[c]: whether some answer of the fan-out was a success
  err,      \* err[c]: the error the fan-out would return
  attempt,  \* attempt[c]: transmit retries of the current block
  rebuild,  \* rebuild[c]: how often the operations were re-rendered
  faults    \* faults so far

cliVars == <<pc, part, prevs, body, wait, temp, perm, seen, missing, good,
             err, attempt, rebuild>>
vars == <<repVars, cliVars, faults>>

PCs == {"build", "temp", "perm", "publish", "pending", "gather", "topup",
        "rperm", "rpublish", "done", "failed", "crashed"}
Codes == {"none", "Transport", "LEDGER_NOT_SUCCESSOR",
          "LEDGER_SUCCESSOR_VOTE_EXISTS", "LEDGER_NO_PERM_WITHOUT_SELF_TEMP",
          "LEDGER_INSUFFICIENT_VOTING_WEIGHT"}
NoError == [code |-> "none", weight |-> 0]

-----------------------------------------------------------------------------
\* Block identities: the writer, the rendering, the position in the plan and,
\* for a fee block, a number (0 for a block of the plan).
BlockId(c, n, i, fee) == <<c, n, i, fee>>

ASSUME BlocksAssumption ==
  \A c \in Clients, n \in 0..MaxRebuilds, i \in 0..Len(Plan), f \in 0..(MaxRetries + 1) :
     BlockId(c, n, i, f) \in Blocks

PlanBody(c, n, i, prev) ==
  {[acct |-> Plan[i], prev |-> prev, ids |-> <<BlockId(c, n, i, 0)>>]}

\* The fee block chains after the payer's tip in the staple, when the payer
\* has a block there, and otherwise after the head `head' of its ledger.
WithFee(b, id, head) ==
  IF Payer \in AcctsOf(b)
    THEN {IF p.acct = Payer THEN [p EXCEPT !.ids = Append(@, id)] ELSE p : p \in b}
    ELSE b \cup {[acct |-> Payer, prev |-> head, ids |-> <<id>>]}

\* Only the representatives that issued a temporary vote are asked again.
ContactEveryRep(prior) == Reps
ContactsFor(prior) == IF prior = {} THEN Reps ELSE Issuers(prior)

\* request_votes keeps the error of the heaviest representative.
HeavierError(e, r, code) ==
  IF e.code = "none" \/ Weight[r] > e.weight
    THEN [code |-> code, weight |-> Weight[r]] ELSE e

\* transmit_staple keeps the last error.
LastError(e, r, code) == [code |-> code, weight |-> Weight[r]]

\* The outcome of one request: delivered, answer lost, request lost.
Outcomes == {"delivered", "answer_lost", "request_lost"}
Outcome(d) ==
  /\ faults' = IF d = "delivered" THEN faults ELSE faults + 1
  /\ faults' <= MaxFaults

\* What the client is told, given the verdict of the representative.
Told(d, verdict) == IF d = "delivered" THEN verdict ELSE "Transport"

-----------------------------------------------------------------------------
\* Enter the temporary round for block i of rendering n.
StartRound(c, n, i, prev) ==
  /\ pc'   = [pc EXCEPT ![c] = "temp"]
  /\ part' = [part EXCEPT ![c] = i]
  /\ body' = [body EXCEPT ![c] = PlanBody(c, n, i, prev)]
  /\ wait' = [wait EXCEPT ![c] = ContactsFor({})]
  /\ temp' = [temp EXCEPT ![c] = {}]
  /\ perm' = [perm EXCEPT ![c] = {}]
  /\ err'  = [err EXCEPT ![c] = NoError]
  /\ good' = [good EXCEPT ![c] = FALSE]

\* The call returns (or its process ends) and its locals are gone.
Stop(c, where) ==
  /\ pc'   = [pc EXCEPT ![c] = where]
  /\ body' = [body EXCEPT ![c] = {}]
  /\ wait' = [wait EXCEPT ![c] = {}]
  /\ temp' = [temp EXCEPT ![c] = {}]
  /\ perm' = [perm EXCEPT ![c] = {}]
  /\ seen' = [seen EXCEPT ![c] = {}]
  /\ missing' = [missing EXCEPT ![c] = {}]
  /\ prevs' = [prevs EXCEPT ![c] = [i \in 1..Len(Plan) |-> << >>]]
  /\ good' = [good EXCEPT ![c] = FALSE]
  /\ err'  = [err EXCEPT ![c] = NoError]
  /\ attempt' = [attempt EXCEPT ![c] = 0]
  /\ UNCHANGED <<part, rebuild>>

\* build_and_publish: render every block of the transaction against the head
\* some representative reports for its account; a failed read ends the call.
Build(c) ==
  /\ pc[c] = "build"
  /\ \/ /\ \E src \in [1..Len(Plan) -> Reps] :
             LET heads == [i \in 1..Len(Plan) |-> chain[src[i]][Plan[i]]]
             IN /\ prevs' = [prevs EXCEPT ![c] = heads]
                /\ StartRound(c, rebuild[c], 1, heads[1])
        /\ attempt' = [attempt EXCEPT ![c] = 0]
        /\ UNCHANGED <<seen, missing, rebuild, faults>>
     \/ Outcome("request_lost") /\ Stop(c, "failed")
  /\ UNCHANGED repVars

\* transmit_with_optional_fee retries a round that lacked voting weight;
\* build_and_publish recovers from a successor-vote conflict; every other
\* error ends the call.
UnboundedRetry(c, code) == code = "LEDGER_INSUFFICIENT_VOTING_WEIGHT"
Retryable(c, code) ==
  code = "LEDGER_INSUFFICIENT_VOTING_WEIGHT" /\ attempt[c] < MaxRetries

Recoverable(c, code) ==
  code = "LEDGER_SUCCESSOR_VOTE_EXISTS" /\ rebuild[c] < MaxRebuilds

RoundRestarted(c, code) ==
  \/ /\ code \in {"LEDGER_INSUFFICIENT_VOTING_WEIGHT", "LEDGER_SUCCESSOR_VOTE_EXISTS"}
     /\ StartRound(c, rebuild[c], part[c], prevs[c][part[c]])
     /\ UNCHANGED <<prevs, seen, missing, attempt, rebuild>>
  \/ /\ code \notin {"LEDGER_INSUFFICIENT_VOTING_WEIGHT", "LEDGER_SUCCESSOR_VOTE_EXISTS"}
     /\ Stop(c, "failed")
RoundFailed(c, code) ==
  \/ /\ Retryable(c, code)
     /\ attempt' = [attempt EXCEPT ![c] = @ + 1]
     /\ StartRound(c, rebuild[c], part[c], prevs[c][part[c]])
     /\ UNCHANGED <<prevs, seen, missing, rebuild>>
  \/ /\ ~Retryable(c, code) /\ Recoverable(c, code)
     /\ pc'   = [pc EXCEPT ![c] = "pending"]
     /\ wait' = [wait EXCEPT ![c] = Reps]
     /\ body' = [body EXCEPT ![c] = {}]
     /\ temp' = [temp EXCEPT ![c] = {}]
     /\ perm' = [perm EXCEPT ![c] = {}]
     /\ err'  = [err EXCEPT ![c] = NoError]
     /\ good' = [good EXCEPT ![c] = FALSE]
     /\ UNCHANGED <<part, prevs, seen, missing, attempt, rebuild>>
  \/ /\ ~Retryable(c, code) /\ ~Recoverable(c, code)
     /\ Stop(c, "failed")

-----------------------------------------------------------------------------
\* A representative answers a request for a temporary vote: in the first round
\* of a transmit (request_votes), or topping up a recovery (request_votes_on),
\* where permanent votes already found are attached and a representative
\* without a vote of its own may refuse.
TempAnswer(c, r) ==
  /\ pc[c] \in {"temp", "topup"} /\ r \in wait[c] \ Hung
  /\ \E d \in Outcomes, v \in {TempReply(r, body[c])} \cup
         (IF pc[c] = "topup" /\ perm[c] # {}
            THEN {"LEDGER_NO_PERM_WITHOUT_SELF_TEMP"} ELSE {}) :
       /\ Outcome(d)
       /\ IF v = "ok" /\ d # "request_lost"
            THEN GiveTemp(r, body[c]) ELSE UNCHANGED repVars
       /\ IF Told(d, v) = "ok"
            THEN /\ temp' = [temp EXCEPT ![c] = @ \cup {[by |-> r, body |-> body[c]]}]
                 /\ UNCHANGED err
            ELSE /\ err' = [err EXCEPT ![c] =
                              IF pc[c] = "temp" THEN HeavierError(@, r, Told(d, v)) ELSE @]
                 /\ UNCHANGED temp
  /\ wait' = [wait EXCEPT ![c] = @ \ {r}]
  /\ UNCHANGED <<pc, part, prevs, body, perm, seen, missing, good, attempt, rebuild>>

\* Contact `reps' for permanent votes on `b'.
StartPerm(c, where, b, reps) ==
  /\ pc'   = [pc EXCEPT ![c] = where]
  /\ body' = [body EXCEPT ![c] = b]
  /\ wait' = [wait EXCEPT ![c] = reps]
  /\ err'  = [err EXCEPT ![c] = NoError]
  /\ UNCHANGED <<part, prevs, temp, perm, seen, missing, good, attempt, rebuild>>

\* The temporary round of transmit_round is over.  Rendering the fee block may
\* need the head of the payer, a read that can fail.
TempDone(c) ==
  /\ pc[c] = "temp" /\ wait[c] = {}
  /\ LET id == BlockId(c, rebuild[c], part[c], 1 + attempt[c])
     IN \/ temp[c] = {} /\ RoundFailed(c, err[c].code) /\ UNCHANGED faults
        \/ /\ temp[c] # {} /\ ~FeesRequired
           /\ StartPerm(c, "perm", body[c], ContactsFor(temp[c]))
           /\ UNCHANGED faults
        \/ /\ temp[c] # {} /\ FeesRequired
           /\ \E src \in Reps :
                StartPerm(c, "perm", WithFee(body[c], id, chain[src][Payer]),
                          ContactsFor(temp[c]))
           /\ UNCHANGED faults
        \/ /\ temp[c] # {} /\ FeesRequired /\ Payer \notin AcctsOf(body[c])
           /\ Outcome("request_lost") /\ Stop(c, "failed")
  /\ UNCHANGED repVars

\* A representative answers a request for a permanent vote, which carries
\* every vote collected so far.
PermAnswer(c, r) ==
  /\ pc[c] \in {"perm", "rperm"} /\ r \in wait[c] \ Hung
  /\ \E d \in Outcomes :
       LET v == PermReply(r, body[c], temp[c] \cup perm[c])
       IN /\ Outcome(d)
          /\ IF v = "ok" /\ d # "request_lost"
               THEN GivePerm(r, body[c]) ELSE UNCHANGED repVars
          /\ IF Told(d, v) = "ok"
               THEN /\ perm' = [perm EXCEPT ![c] = @ \cup {[by |-> r, body |-> body[c]]}]
                    /\ UNCHANGED err
               ELSE /\ err' = [err EXCEPT ![c] =
                                 IF pc[c] = "perm" THEN HeavierError(@, r, Told(d, v)) ELSE @]
                    /\ UNCHANGED perm
  /\ wait' = [wait EXCEPT ![c] = @ \ {r}]
  /\ UNCHANGED <<pc, part, prevs, body, temp, seen, missing, good, attempt, rebuild>>

\* VoteStaple::try_new succeeds: every vote covers exactly the blocks.
Assembles(c) == perm[c] # {} /\ \A v \in perm[c] : v.body = body[c]

StartPublish(c, where) ==
  /\ pc'   = [pc EXCEPT ![c] = where]
  /\ wait' = [wait EXCEPT ![c] = Reps]
  /\ temp' = [temp EXCEPT ![c] = {}]
  /\ good' = [good EXCEPT ![c] = FALSE]
  /\ err'  = [err EXCEPT ![c] = NoError]
  /\ UNCHANGED <<part, prevs, body, perm, seen, missing, attempt, rebuild>>

PermDone(c) ==
  /\ pc[c] = "perm" /\ wait[c] = {}
  /\ IF perm[c] = {} THEN RoundFailed(c, err[c].code)
     ELSE IF Assembles(c) THEN StartPublish(c, "publish")
     ELSE Stop(c, "failed")
  /\ UNCHANGED <<repVars, faults>>

\* transmit_staple: any fulfilled response makes the publish a success.
PublishAnswer(c, r) ==
  /\ pc[c] \in {"publish", "rpublish"} /\ r \in wait[c] \ Hung
  /\ \E d \in Outcomes :
       LET v == PublishReply(r, body[c], perm[c])
       IN /\ Outcome(d)
          /\ IF v = "ok" /\ d # "request_lost"
               THEN Commit(r, body[c]) ELSE UNCHANGED repVars
          /\ IF Told(d, v) = "ok"
               THEN good' = [good EXCEPT ![c] = TRUE] /\ UNCHANGED err
               ELSE err' = [err EXCEPT ![c] = LastError(@, r, Told(d, v))] /\ UNCHANGED good
  /\ wait' = [wait EXCEPT ![c] = @ \ {r}]
  /\ UNCHANGED <<pc, part, prevs, body, temp, perm, seen, missing, attempt, rebuild>>

AcceptedUnlessRefused(c) == good[c] \/ err[c].code = "Transport"
Accepted(c) == good[c]

\* originate moves on to the next rendered block; the last one ends the call.
PublishDone(c) ==
  /\ pc[c] = "publish" /\ wait[c] = {}
  /\ IF ~Accepted(c) THEN RoundFailed(c, err[c].code)
     ELSE IF part[c] = Len(Plan) THEN Stop(c, "done")
     ELSE /\ StartRound(c, rebuild[c], part[c] + 1, prevs[c][part[c] + 1])
          /\ attempt' = [attempt EXCEPT ![c] = 0]
          /\ UNCHANGED <<prevs, seen, missing, rebuild>>
  /\ UNCHANGED <<repVars, faults>>

-----------------------------------------------------------------------------
\* recover_account.  pending_block asks every representative for the block
\* pending after the operating account's head; errors count as no answer.
PendingAnswer(c, r) ==
  /\ pc[c] = "pending" /\ r \in wait[c] \ Hung
  /\ \E d \in {"delivered", "request_lost"} :
       /\ Outcome(d)
       /\ seen' = [seen EXCEPT ![c] = @ \cup
            IF d = "delivered"
              THEN {[by |-> r, id |-> p.ids[1]] :
                      p \in {p \in Pending(r, Operating) : p.acct = Operating}}
              ELSE {}]
  /\ wait' = [wait EXCEPT ![c] = @ \ {r}]
  /\ UNCHANGED <<repVars, pc, part, prevs, body, temp, perm, missing, good, err, attempt, rebuild>>

Reporters(c, id) == {o.by : o \in {o \in seen[c] : o.id = id}}

\* most_common_hash; hashes are abstract, so a tie may go either way.
MostCommon(c) ==
  {o.id : o \in {o \in seen[c] : \A q \in seen[c] :
                   Cardinality(Reporters(c, q.id)) <= Cardinality(Reporters(c, o.id))}}

\* Nothing pending (or every read failed) ends the call with its error.
PendingDoneMixed(c) ==
  /\ pc[c] = "pending" /\ wait[c] = {}
  /\ IF seen[c] = {} THEN Stop(c, "failed")
     ELSE /\ pc'   = [pc EXCEPT ![c] = "gather"]
          /\ wait' = [wait EXCEPT ![c] = Reps]
          /\ UNCHANGED <<part, prevs, body, temp, perm, seen, missing, good, err, attempt, rebuild>>
  /\ UNCHANGED <<repVars, faults>>
PendingDone(c) ==
  /\ pc[c] = "pending" /\ wait[c] = {}
  /\ IF seen[c] = {} THEN Stop(c, "failed")
     ELSE \E id \in MostCommon(c) :
            /\ pc'   = [pc EXCEPT ![c] = "gather"]
            /\ wait' = [wait EXCEPT ![c] = Reps]
            /\ seen' = [seen EXCEPT ![c] = {o \in @ : o.id = id}]
            /\ UNCHANGED <<part, prevs, body, temp, perm, missing, good, err, attempt, rebuild>>
  /\ UNCHANGED <<repVars, faults>>

\* collect_recover_votes reads each representative's own vote for the block.
GatherVote(c, r) ==
  /\ pc[c] = "gather" /\ r \in wait[c] \ Hung
  /\ \E d \in {"delivered", "request_lost"}, o \in seen[c] :
       LET own == IF d # "delivered" THEN {}
                  ELSE IF OwnPerm(r, Operating, o.id) # {} THEN OwnPerm(r, Operating, o.id)
                  ELSE OwnTemp(r, Operating, o.id)
       IN /\ Outcome(d)
          /\ perm' = [perm EXCEPT ![c] = IF own = OwnPerm(r, Operating, o.id)
                                           THEN @ \cup own ELSE @]
          /\ temp' = [temp EXCEPT ![c] = IF own # OwnPerm(r, Operating, o.id)
                                           THEN @ \cup own ELSE @]
          /\ missing' = [missing EXCEPT ![c] = IF own = {} THEN @ \cup {r} ELSE @]
  /\ wait' = [wait EXCEPT ![c] = @ \ {r}]
  /\ UNCHANGED <<repVars, pc, part, prevs, body, seen, good, err, attempt, rebuild>>

\* The sample vote (permanent before temporary) names the blocks to recover;
\* with no vote the recovery has nothing to do, and a block that cannot be
\* fetched fails it.
GatherDone(c) ==
  /\ pc[c] = "gather" /\ wait[c] = {}
  /\ \/ /\ perm[c] \cup temp[c] = {} /\ Stop(c, "failed") /\ UNCHANGED faults
     \/ \E sample \in IF perm[c] # {} THEN perm[c] ELSE temp[c] :
          \/ /\ Outcome("request_lost") /\ Stop(c, "failed")
          \/ /\ Outcome("delivered")
             /\ body' = [body EXCEPT ![c] = sample.body]
             /\ pc'   = [pc EXCEPT ![c] = "topup"]
             /\ wait' = [wait EXCEPT ![c] = missing[c]]
             /\ seen' = [seen EXCEPT ![c] = {}]
             /\ missing' = [missing EXCEPT ![c] = {}]
             /\ UNCHANGED <<part, prevs, temp, perm, good, err, attempt, rebuild>>
  /\ UNCHANGED repVars

\* top_up_recover_votes: with no permanent vote yet, a required fee adds a fee
\* block (its staple of temporary votes always assembles: they all cover the
\* blocks of the sample); then the representatives without a permanent vote
\* are asked for one.
TopUpDone(c) ==
  /\ pc[c] = "topup" /\ wait[c] = {}
  /\ LET fee == FeesRequired /\ perm[c] = {} /\ temp[c] # {}
         id  == BlockId(c, rebuild[c], 0, 1)
         lacking == Reps \ Issuers(perm[c])
     IN \/ ~fee /\ StartPerm(c, "rperm", body[c], lacking) /\ UNCHANGED faults
        \/ /\ fee
           /\ \E src \in Reps :
                StartPerm(c, "rperm", WithFee(body[c], id, chain[src][Payer]), lacking)
           /\ UNCHANGED faults
        \/ /\ fee /\ Payer \notin AcctsOf(body[c])
           /\ Outcome("request_lost") /\ Stop(c, "failed")
  /\ UNCHANGED repVars

RecoverAssemble(c) ==
  /\ pc[c] = "rperm" /\ wait[c] = {}
  /\ IF Assembles(c) THEN StartPublish(c, "rpublish") ELSE Stop(c, "failed")
  /\ UNCHANGED <<repVars, faults>>

\* A republished staple sends build_and_publish back to rendering.
RecoverDoneReturns(c) ==
  /\ pc[c] = "rpublish" /\ wait[c] = {}
  /\ Stop(c, IF Accepted(c) THEN "done" ELSE "failed")
  /\ UNCHANGED <<repVars, faults>>
RecoverDone(c) ==
  /\ pc[c] = "rpublish" /\ wait[c] = {}
  /\ IF Accepted(c)
       THEN /\ pc' = [pc EXCEPT ![c] = "build"]
            /\ rebuild' = [rebuild EXCEPT ![c] = @ + 1]
            /\ body' = [body EXCEPT ![c] = {}]
            /\ perm' = [perm EXCEPT ![c] = {}]
            /\ err'  = [err EXCEPT ![c] = NoError]
            /\ good' = [good EXCEPT ![c] = FALSE]
            /\ UNCHANGED <<part, prevs, wait, temp, seen, missing, attempt>>
       ELSE Stop(c, "failed")
  /\ UNCHANGED <<repVars, faults>>

-----------------------------------------------------------------------------
\* The process of a client may end at any point of its call.
Crash(c) ==
  /\ pc[c] \notin {"done", "failed", "crashed"}
  /\ Outcome("request_lost")
  /\ Stop(c, "crashed")
  /\ UNCHANGED repVars

VoteExpires(r, a) ==
  /\ Outcome("request_lost")
  /\ ExpireTemp(r, a)
  /\ UNCHANGED cliVars

Ended(c) == pc[c] \in {"done", "failed", "crashed"}

Init ==
  /\ RepInit
  /\ pc = [c \in Clients |-> "build"]
  /\ part = [c \in Clients |-> 1]
  /\ prevs = [c \in Clients |-> [i \in 1..Len(Plan) |-> << >>]]
  /\ body = [c \in Clients |-> {}]
  /\ wait = [c \in Clients |-> {}]
  /\ temp = [c \in Clients |-> {}]
  /\ perm = [c \in Clients |-> {}]
  /\ seen = [c \in Clients |-> {}]
  /\ missing = [c \in Clients |-> {}]
  /\ good = [c \in Clients |-> FALSE]
  /\ err = [c \in Clients |-> NoError]
  /\ attempt = [c \in Clients |-> 0]
  /\ rebuild = [c \in Clients |-> 0]
  /\ faults = 0

ClientStep(c) ==
  \/ Build(c)
  \/ \E r \in Reps : TempAnswer(c, r) \/ PermAnswer(c, r) \/ PublishAnswer(c, r)
                     \/ PendingAnswer(c, r) \/ GatherVote(c, r)
  \/ TempDone(c) \/ PermDone(c) \/ PublishDone(c)
  \/ PendingDone(c) \/ GatherDone(c) \/ TopUpDone(c)
  \/ RecoverAssemble(c) \/ RecoverDone(c)

Next ==
  \/ \E c \in Clients : ClientStep(c) \/ Crash(c)
  \/ \E r \in Reps, a \in Accounts : VoteExpires(r, a)
  \/ (\A c \in Clients : Ended(c)) /\ UNCHANGED vars

Spec == Init /\ [][Next]_vars

\* The executor keeps polling a call that has something to do.
FairSpec == Spec /\ \A c \in Clients : WF_vars(ClientStep(c))

-----------------------------------------------------------------------------
Errors == [code : Codes, weight : Nat]

\* Every variable of a client keeps its shape.
CliTypeOK ==
  /\ pc \in [Clients -> PCs]
  /\ part \in [Clients -> 1..Len(Plan)]
  /\ prevs \in [Clients -> [1..Len(Plan) -> Chains]]
  /\ body \in [Clients -> Bodies]
  /\ wait \in [Clients -> SUBSET Reps]
  /\ temp \in [Clients -> SUBSET Votes]
  /\ perm \in [Clients -> SUBSET Votes]
  /\ seen \in [Clients -> SUBSET [by : Reps, id : Blocks]]
  /\ missing \in [Clients -> SUBSET Reps]
  /\ good \in [Clients -> BOOLEAN]
  /\ err \in [Clients -> Errors]
  /\ attempt \in [Clients -> 0..MaxRetries]
  /\ rebuild \in [Clients -> 0..MaxRebuilds]

\* Every variable keeps its shape.
TypeOK == RepTypeOK /\ CliTypeOK /\ faults \in 0..MaxFaults

\* Block `id' is on r's main ledger of account a.
OnMain(r, a, id) ==
  \E n \in 1..Len(chain[r][a]) : \E k \in 1..Len(chain[r][a][n]) : chain[r][a][n][k] = id

\* r committed block i of rendering n of the call of c.
Holds(r, c, n, i) == OnMain(r, Plan[i], BlockId(c, n, i, 0))

\* Representatives never commit different blocks at the same height of an
\* account.  This is a rule of the nodes, which no client can break; it is what
\* SyncAccount takes for granted (UserWriteProofs derives it from RepLedger).
Agreement ==
  \A r1, r2 \in Reps, a \in Accounts :
    \A n \in 1..Len(chain[r1][a]) :
       n <= Len(chain[r2][a]) => chain[r1][a][n] = chain[r2][a][n]

\* A write that returned success (originate's conjunction of publishes) has
\* every block of its last rendering on some representative's main ledger.
AcceptedIsCommitted ==
  \A c \in Clients : pc[c] = "done" =>
    \A i \in 1..Len(Plan) : \E r \in Reps :
       Holds(r, c, rebuild[c], i)

\* A write call takes effect at most once: no account's chain holds blocks of
\* two renderings of the same call (user.rs: a conflict means "another block
\* already claimed the head height").
AppliedOnce ==
  \A c \in Clients, r \in Reps, i \in 1..Len(Plan) :
    \A n, m \in 0..MaxRebuilds :
       (Holds(r, c, n, i) /\ Holds(r, c, m, i)) => n = m

\* The permanent round contacts no representative that must refuse for want of
\* a temporary vote of its own (the filter of contacts_for).
SelfTempHeld ==
  \A c \in Clients : pc[c] = "perm" =>
    \A r \in wait[c] :
       PermReply(r, body[c], temp[c] \cup perm[c]) # "LEDGER_NO_PERM_WITHOUT_SELF_TEMP"

\* A recovery works on one pending block: all votes it sends together, its own
\* top-ups included, name the same first successor of the operating account's
\* head, although they were gathered one by one while other writers were voting
\* for blocks of their own (recover_account, collect_recover_votes).
FirstOf(b, id, prev) ==
  \E p \in b : p.acct = Operating /\ p.prev = prev /\ p.ids # << >> /\ p.ids[1] = id
RecoversOneBlock ==
  \A c \in Clients : pc[c] \in {"topup", "rperm", "rpublish"} =>
    \E q \in body[c] :
       /\ q.acct = Operating
       /\ \A v \in temp[c] \cup perm[c] : FirstOf(v.body, q.ids[1], q.prev)

\* A call renders its operations again only when the block that stood in its way
\* is on some representative's main ledger (build_and_publish: "recovering only
\* helps once it reassembles the conflicting staple").
RerendersAfterRecovery ==
  [][\A c \in Clients : rebuild'[c] # rebuild[c] =>
        \E r \in Reps : Committed(r, body[c], Operating)]_vars

\* originate publishes in order: a block of the plan is committed only when
\* the blocks before it in the same rendering are.
PartsInOrder ==
  \A c \in Clients, n \in 0..MaxRebuilds, i, j \in 1..Len(Plan), r \in Reps :
    (j < i /\ Holds(r, c, n, i)) =>
       \E q \in Reps : Holds(q, c, n, j)

\* A call that ended with an error applied all of its blocks or none
\* (user.rs: supply and balance change "in the same transaction").
AllOrNothing ==
  \A c \in Clients : pc[c] \in {"done", "failed"} =>
    \A i, j \in 1..Len(Plan) :
      (\E r \in Reps, n \in 0..MaxRebuilds : Holds(r, c, n, i))
        => (\E r \in Reps, n \in 0..MaxRebuilds : Holds(r, c, n, j))

\* Every write call returns, whatever its fan-outs meet (config.rs: a request
\* has a "per-request timeout").
EveryCallReturns == \A c \in Clients : <>Ended(c)

-----------------------------------------------------------------------------
(***************************************************************************)
(* The inductive invariant of the ledgers and votes (see UserWriteProofs).  *)
(***************************************************************************)
WellFormed(b) ==
  /\ \A p, q \in b : p.acct = q.acct => p = q
  /\ \A p \in b : p.ids # << >>

\* Every set of blocks that is voted on or published has one part per account.
BodiesWellFormed ==
  /\ \A r \in Reps : \A a \in Accounts : WellFormed(tvote[r][a]) /\ WellFormed(pvote[r][a])
  /\ \A r \in Reps : \A b \in cast[r] : WellFormed(b)
  /\ \A c \in Clients : WellFormed(body[c])
  /\ \A c \in Clients : \A v \in temp[c] \cup perm[c] : WellFormed(v.body)

\* A representative casts one permanent vote per height of an account ...
OneVotePerHeight ==
  \A r \in Reps : \A b1, b2 \in cast[r] : \A p \in b1, q \in b2 :
    (p.acct = q.acct /\ Len(p.prev) = Len(q.prev)) => p = q

\* ... at most at its head, where the vote is still on its side ledger.
VotesBelowHead ==
  \A r \in Reps : \A b \in cast[r] : \A p \in b :
    /\ Len(p.prev) <= Len(chain[r][p.acct])
    /\ Len(p.prev) = Len(chain[r][p.acct]) => pvote[r][p.acct] # {}

\* The permanent votes a client holds were cast by their issuers.
HeldVotesCast == \A c \in Clients : \A v \in perm[c] : v.body \in cast[v.by]

\* A quorum cast permanent votes for entry n of r's ledger of a.
Backed(r, a, n) ==
  \E Q \in Quorums : \A v \in Q : \E b \in cast[v] : \E p \in b :
     p.acct = a /\ Len(p.prev) + 1 = n /\ p.ids = chain[r][a][n]
EntriesBacked ==
  \A r \in Reps, a \in Accounts : \A n \in 1..Len(chain[r][a]) : Backed(r, a, n)

\* A recovery runs only when a re-rendering is left for its success.
Recovering == {"pending", "gather", "topup", "rperm", "rpublish"}
RecoverBudget == \A c \in Clients : pc[c] \in Recovering => rebuild[c] < MaxRebuilds

IInv ==
  /\ TypeOK /\ BodiesWellFormed /\ OneVotePerHeight /\ VotesBelowHead
  /\ HeldVotesCast /\ EntriesBacked /\ RecoverBudget

-----------------------------------------------------------------------------
\* What a caller sees of the write path (module WriteCalls).
Status(c) ==
  IF pc[c] = "done" THEN "returned" ELSE IF Ended(c) THEN "gave_up" ELSE "running"
TookEffect ==
  {x \in Clients \X (0..MaxRebuilds) \X (1..Len(Plan)) :
     \E r \in Reps : Holds(r, x[1], x[2], x[3])}
Calls == INSTANCE WriteCalls WITH
  Steps     <- Len(Plan),
  status    <- [c \in Clients |-> Status(c)],
  rendering <- rebuild,
  applied   <- TookEffect

\* The rounds, retries, recoveries and rebuilds of build_and_publish implement
\* what its callers rely on: a call returns success only for the blocks of its
\* last rendering, never for a staple it recovered for somebody else, and its
\* blocks take effect in order whoever publishes them.
ImplementsWriteCalls == Calls!Spec
=============================================================================
