-------------------------------- MODULE Fees --------------------------------
(***************************************************************************)
(* Quotes, fee schedules and the fee block: keetanetwork-vote builds and   *)
(* verifies votes and quotes that carry fee schedules, KeetaClient asks    *)
(* every representative for a quote, passes each its own quote back with   *)
(* the request for a temporary vote, and pays what the votes then require. *)
(*                                                                         *)
(* A certificate is a vote or a quote as the representative signed it: its *)
(* issuer, its schedule (no entries for a vote without fees) and the quote *)
(* flag of the schedule.  Left out: serials, signatures and the DER form,  *)
(* validity windows (module VoteStaple), and the scores of the answers     *)
(* (module RepBook).                                                       *)
(***************************************************************************)
EXTENDS Naturals, Sequences, FiniteSets, FiniteSetsExt, SequencesExt

CONSTANTS
  Reps,        \* the representatives of the book
  Weight,      \* Weight[r]: voting weight
  Quorum,      \* ClientConfig::quorum_threshold, in percent
  Base,        \* the base token of the network
  Schedules,   \* fee schedules, sequences of [amount, payTo, token]
  Priorities,  \* fee_token_priority: sequences of tokens
  Key          \* Key[r]: the book's name for r, its account, or its URL in a
               \* client made for a single URL (KeetaClient::single)

VARIABLES
  phase,       \* "idle", "quoting", "quoted", "voting", "paid", "failed"
  collectAll,  \* quotes rather than request_quote
  waiting,     \* representatives whose answer is outstanding
  quotes,      \* quotes received, in the order of arrival
  accumulated, \* weight of the quoting representatives
  votes,       \* temporary votes received, in the order of arrival
  priority,    \* TransmitOptions::fee_token_priority of the transmit
  sends        \* the operations of the fee block

vars == <<phase, collectAll, waiting, quotes, accumulated, votes, priority, sends>>

NoAccount == "none"
NoFees == << >>

-----------------------------------------------------------------------------
(* Certificates.                                                           *)

\* VoteBuilder::build_signed.  A schedule is given as Single or Multiple
\* (from_entries); only Multiple has more than one entry.
BuildSigned(issuer, quote, fees) == [issuer |-> issuer, quote |-> quote, fees |-> fees]

\* VoteQuoteBuilder: the flag is set whatever the schedule says, and a quote
\* needs a schedule.
BuildQuote(issuer, fees) ==
  IF fees = NoFees THEN {} ELSE {BuildSigned(issuer, TRUE, fees)}

\* assert_quote_flag, Vote::verify, VoteQuote::try_from_vote.
AssertQuoteFlag(c, expected) == c.fees # NoFees => c.quote = expected
IsQuote(c) == c.fees # NoFees /\ c.quote
VerifyVote(c) == AssertQuoteFlag(c, FALSE)
VerifyQuote(c) == AssertQuoteFlag(c, TRUE) /\ IsQuote(c)

-----------------------------------------------------------------------------
(* Fees.                                                                   *)

\* required: no entry lets the payer opt out.
Required(fees) == \A i \in DOMAIN fees : fees[i].amount # 0

\* token_or, pays_base_token.
TokenOr(fee) == IF fee.token = NoAccount THEN Base ELSE fee.token

FirstFor(fees, token) == SelectInSeq(fees, LAMBDA fee : TokenOr(fee) = token)

\* select: the first entry in the token that ranks highest, else in the base
\* token, else the first entry.
SelectBase(fees, ranked) ==
  fees[IF FirstFor(fees, Base) # 0 THEN FirstFor(fees, Base) ELSE 1]
Select(fees, ranked) ==
  LET wanted == SelectInSeq(ranked, LAMBDA token : FirstFor(fees, token) # 0)
  IN  fees[IF wanted # 0 THEN FirstFor(fees, ranked[wanted])
           ELSE IF FirstFor(fees, Base) # 0 THEN FirstFor(fees, Base) ELSE 1]

\* to_send, Vote::fee_send.
ToSend(c, ranked) ==
  LET fee == Select(c.fees, ranked)
  IN  [to |-> IF fee.payTo = NoAccount THEN c.issuer ELSE fee.payTo,
       amount |-> fee.amount, token |-> TokenOr(fee)]

\* fees_required and fee_operations of the client.
Payable(c) == c.fees # NoFees /\ Required(c.fees)
FeesRequired(vs) == \E i \in DOMAIN vs : Payable(vs[i])
FeeOperations(vs, ranked) ==
  FoldLeft(LAMBDA ops, c : IF Payable(c) THEN Append(ops, ToSend(c, ranked)) ELSE ops,
           << >>, vs)

-----------------------------------------------------------------------------
\* meets_quorum; a total of zero never does.
WeightOf(reps) == MapThenSumSet(LAMBDA r : Weight[r], reps)
MeetsQuorum(w) == WeightOf(Reps) # 0 /\ 100 * w >= Quorum * WeightOf(Reps)

\* request_quote, quotes: a request to every representative.
RequestQuotes ==
  /\ phase = "idle" /\ phase' = "quoting"
  /\ collectAll' \in BOOLEAN
  /\ waiting' = Reps
  /\ UNCHANGED <<quotes, accumulated, votes, priority, sends>>

\* A quote arrives; the first ones that reach the quorum are enough, unless all
\* are wanted.
QuoteArrives(r) ==
  /\ phase = "quoting" /\ r \in waiting
  /\ \E fees \in Schedules \cup {NoFees} : \E c \in BuildQuote(r, fees) \cup {BuildSigned(r, FALSE, fees)} :
       IF VerifyQuote(c)
         THEN quotes' = Append(quotes, c) /\ accumulated' = accumulated + Weight[r]
         ELSE UNCHANGED <<quotes, accumulated>>
  /\ waiting' = waiting \ {r}
  /\ phase' = IF \/ waiting' = {}
                 \/ quotes' # quotes /\ ~collectAll /\ MeetsQuorum(accumulated')
               THEN "quoted" ELSE phase
  /\ UNCHANGED <<collectAll, votes, priority, sends>>

\* The representative refuses, or its answer is lost.
QuoteFailsCounted(r) ==
  /\ phase = "quoting" /\ r \in waiting
  /\ accumulated' = accumulated + Weight[r]
  /\ waiting' = waiting \ {r}
  /\ phase' = IF waiting' = {} THEN "quoted" ELSE phase
  /\ UNCHANGED <<collectAll, quotes, votes, priority, sends>>
QuoteFails(r) ==
  /\ phase = "quoting" /\ r \in waiting
  /\ waiting' = waiting \ {r}
  /\ phase' = IF waiting' = {} THEN "quoted" ELSE phase
  /\ UNCHANGED <<collectAll, quotes, accumulated, votes, priority, sends>>

\* The quotes go into TransmitOptions, with the tokens the payer prefers; the
\* temporary round asks every representative.  Without any quote the call is an
\* error; a transmit may also begin without asking for quotes.
RequestVotes ==
  /\ \/ phase = "quoted" /\ quotes # << >>
     \/ phase = "idle"
  /\ phase' = "voting" /\ waiting' = Reps
  /\ priority' \in Priorities
  /\ UNCHANGED <<collectAll, quotes, accumulated, votes, sends>>
NoQuote ==
  /\ phase = "quoted" /\ quotes = << >>
  /\ phase' = "failed"
  /\ UNCHANGED <<collectAll, waiting, quotes, accumulated, votes, priority, sends>>

\* quotes_by_issuer: the quotes under a representative's key, the last of which
\* is attached to the request for it; nothing is attached without one.
QuotesAtHand(r) == DOMAIN quotes
QuotesOf(r) == {i \in DOMAIN quotes : quotes[i].issuer = Key[r]}
Attached(r) == IF QuotesOf(r) # {} THEN {quotes[Max(QuotesOf(r))]} ELSE {}

\* The node: it charges what a quote of its own says that comes with the request,
\* and otherwise what it likes.
Charged(r, attached) ==
  LET own == {c \in attached : c.issuer = r}
  IN  IF own # {} THEN {c.fees : c \in own} ELSE Schedules \cup {NoFees}

\* request_votes: an answer that is a quote is refused by Vote::verify.
VoteArrives(r) ==
  /\ phase = "voting" /\ r \in waiting
  /\ waiting' = waiting \ {r}
  /\ \E fees \in Charged(r, Attached(r)) :
       \E c \in BuildQuote(r, fees) \cup {BuildSigned(r, FALSE, fees)} :
         votes' = IF VerifyVote(c) THEN Append(votes, c) ELSE votes
  /\ UNCHANGED <<phase, collectAll, quotes, accumulated, priority, sends>>
VoteFails(r) ==
  /\ phase = "voting" /\ r \in waiting
  /\ waiting' = waiting \ {r}
  /\ UNCHANGED <<phase, collectAll, quotes, accumulated, votes, priority, sends>>

\* transmit_round goes on with the votes: a fee block if they require one
\* (fee_block_from_options hands the preferences to the factory).
Pay ==
  /\ phase = "voting" /\ waiting = {}
  /\ phase' = IF votes = << >> THEN "failed" ELSE "paid"
  /\ sends' = IF FeesRequired(votes) THEN FeeOperations(votes, priority) ELSE << >>
  /\ UNCHANGED <<collectAll, waiting, quotes, accumulated, votes, priority>>

Init ==
  /\ phase = "idle" /\ collectAll = FALSE /\ waiting = {} /\ quotes = << >>
  /\ accumulated = 0 /\ votes = << >> /\ priority = << >> /\ sends = << >>

Next ==
  \/ RequestQuotes \/ RequestVotes \/ NoQuote \/ Pay
  \/ \E r \in Reps : QuoteArrives(r) \/ QuoteFails(r) \/ VoteArrives(r) \/ VoteFails(r)

Spec == Init /\ [][Next]_vars

-----------------------------------------------------------------------------
\* A send settles vote c for a payer who ranks tokens so: it pays an entry of the
\* vote, and no entry is in a token that ranks before that of the send.
Rank(token, ranked) ==
  IF token \in ToSet(ranked) THEN Min({i \in DOMAIN ranked : ranked[i] = token})
  ELSE IF token = Base THEN Len(ranked) + 1 ELSE Len(ranked) + 2
Settles(send, c, ranked) ==
  \E i \in DOMAIN c.fees :
    /\ send.amount = c.fees[i].amount /\ send.token = TokenOr(c.fees[i])
    /\ send.to = IF c.fees[i].payTo = NoAccount THEN c.issuer ELSE c.fees[i].payTo
    /\ \A j \in DOMAIN c.fees : Rank(send.token, ranked) <= Rank(TokenOr(c.fees[j]), ranked)

\* The fee block settles the round: the representatives that charge are paid
\* once each, in the order of their votes, an amount their own vote declares, in
\* the token that the payer of this transmit ranks first among those the vote
\* accepts; the ones that let the payer opt out are not paid.
FeesSettled ==
  phase = "paid" =>
    LET charging == {v \in DOMAIN votes : /\ votes[v].fees # NoFees
                                          /\ \A i \in DOMAIN votes[v].fees : votes[v].fees[i].amount > 0}
    IN  \E settled \in [DOMAIN sends -> charging] :
          /\ charging = {settled[i] : i \in DOMAIN sends}
          /\ \A i, j \in DOMAIN sends : i < j => settled[i] < settled[j]
          /\ \A i \in DOMAIN sends : Settles(sends[i], votes[settled[i]], priority)

\* Whoever quoted charges what it quoted, whichever order quotes and votes
\* arrived in: a node holds itself only to a quote of its own that comes with the
\* request, so each request must carry the quote of the representative it goes
\* to; and no quote is taken for a vote.  Of a client that knows its
\* representatives by their accounts: a client for a single URL knows its
\* representative by that URL, finds no quote under it, and sends none.
QuotesHonoured ==
  /\ \A i \in DOMAIN votes, j \in DOMAIN quotes :
       votes[i].issuer = quotes[j].issuer => votes[i].fees = quotes[j].fees
  /\ \A i \in DOMAIN votes : ~IsQuote(votes[i])

\* request_quotes stops early only on the weight of representatives that did
\* quote: with fewer answers than representatives, the quotes at hand carry the
\* quorum, and quotes (collect_all) waits for every answer.
QuotesSuffice ==
  phase = "quoted" /\ waiting # {} =>
    LET quoting == {quotes[i].issuer : i \in DOMAIN quotes}
    IN  ~collectAll /\ MeetsQuorum(WeightOf(quoting))
=============================================================================
