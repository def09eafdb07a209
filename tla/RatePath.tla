------------------------------- MODULE RatePath -------------------------------
(***************************************************************************)
(* The way of the rates of one request, from the exchanges' trades and the *)
(* banks' documents to the quote in the reply: call_exchange and its       *)
(* transform (lib.rs), the aggregation of the answers (api.rs), the forex  *)
(* sources, and the arithmetic of RateArithmetic.  On the way the metrics  *)
(* of the exchanges are recorded.                                          *)
(*                                                                         *)
(* A quote is composed of the rates of several assets, its operands. The   *)
(* exchanges or the banks are asked for one of them, the live one; for the *)
(* others there are the rates that were received earlier, from the cache   *)
(* or from the forex store.                                                *)
(***************************************************************************)
EXTENDS Telemetry, ForexSources, FiniteSets

CONSTANTS
    Replicas,       \* the replicas that run the canister
    Quorum,         \* how many of them must have the same answer
    Requests,       \* the requests looked at, see Request
    ReceivedRates,  \* for each request and operand the rates received earlier
    PastTrades,     \* the trades before the request
    LivePrices,     \* for each minute the prices traded from then on
    MaxTrades,      \* a bound on their number
    MaxTime,        \* a bound on the clock
    Worth           \* what currencies are worth on each day

(* Prices are finer than rates. *)
PRICE_UNIT == 10 * RATE_UNIT

Operands(pair) == IF pair = "same" THEN {"base", "quote"} ELSE {"base", "coin1", "coin2", "forex"}

(* `pair' is "same" for two cryptocurrencies or two fiat currencies, "cf"  *)
(* or "fc" for one of each.  `live' is an operand or "none"; `sources' are *)
(* the exchanges or the banks asked for it (in an order that nothing       *)
(* depends on, for what they answer is sorted), `symbol' the stablecoin or *)
(* the currency asked for.                                                 *)
Request ==
    [pair : {"same", "cf", "fc"}, live : {"none", "base", "coin2", "forex"},
     sources : SUBSET (ToSet(EXCHANGES) \cup ToSet(AllForexSources)),
     symbol : STRING, timestamp : Nat, day : Nat]

(* The prices whose rates are positive 64-bit numbers, or 0 for being too  *)
(* small.                                                                  *)
Prices == 1..10 * WORD - 1
IsTrading(f) ==
    IsFiniteSet(DOMAIN f) /\ DOMAIN f \subseteq Nat /\ f \in [DOMAIN f -> Seq(Prices)]

(* Exchanges are asked by the minute.  Prices do not overflow, and every   *)
(* currency, USD among them, is worth something on the days the banks may  *)
(* write about.                                                            *)
ASSUME RatePathAssumption ==
    /\ Quorum \in 1..Cardinality(Replicas) /\ MaxTime \in Nat
    /\ Requests \subseteq Request
    /\ \A past \in PastTrades : IsTrading(past)
    /\ \A req \in Requests :
          /\ ReceivedRates[req] \subseteq
                [Operands(req.pair) \ {req.live} -> Seq(0..WORD - 1)]
          /\ req.live \in Operands(req.pair) \cup {"none"}
          /\ req.sources \subseteq ToSet(IF req.live = "forex" THEN AllForexSources ELSE EXCHANGES)
          /\ req.timestamp > 0 /\ req.timestamp % MINUTE = 0 /\ req.timestamp <= MaxTime
          /\ \A t \in req.timestamp..MaxTime :
                LivePrices[(t \div MINUTE) * MINUTE] \subseteq Prices
          /\ "USD" \in DOMAIN Worth[req.day] /\ "none" \notin DOMAIN Worth[req.day]
          /\ \A day \in req.day - 2..req.day + 1 :
                \A c \in DOMAIN Worth[req.day] \cup {HomeCurrency(name) : name \in req.sources} :
                    Worth[day][c] \in Nat \ {0}

VARIABLES
    now,        \* the time, in seconds
    trades,     \* minute -> the prices traded in it
    request,
    fetched,    \* exchange -> replica -> the transformed response
    outcomes,   \* exchange -> what call_exchange returns
    documents,  \* bank -> which document it answered with, and the rates in it
    received,   \* operand -> the rates received for it
    reply,
    metrics     \* what is recorded of the exchanges

vars == <<now, trades, request, fetched, outcomes, documents, received, reply, metrics>>

(* A response or an outcome: a rate, or a word for why there is none.      *)
Pending == [kind |-> "Pending", rate |-> 0]
Without(kind) == [kind |-> kind, rate |-> 0]
Found(rate) == [kind |-> "Rate", rate |-> rate]

NoRate == Rate(Side("none", 0, 0), Side("none", 0, 0), <<>>, 0, NoTime)
NoReply == [result |-> "None", direct |-> NoRate, quote |-> Reply(NoRate)]

AsksExchanges == request.live \in {"base", "coin2"}
Kind == IF request.live = "coin2" THEN "stablecoin" ELSE "crypto"

-----------------------------------------------------------------------------
(* The exchanges *)

(* The pair by which an exchange is asked for a stablecoin. *)
PairsWith(name, symbol) ==
    {pair \in ToSet(Exchange(name, 0).stablecoinPairs) : symbol \in ToSet(pair)}

IsInverse(name) ==
    request.live = "coin2" /\ \E pair \in PairsWith(name, request.symbol) : pair[1] = "USDT"

(* The exchanges that are called: for a stablecoin those with a pair.      *)
Called ==
    {name \in request.sources :
        \/ request.live = "base"
        \/ request.live = "coin2" /\ PairsWith(name, request.symbol) # {}}

(* What an exchange charges for the base in units of the quote: it shows   *)
(* the trades of the pair it lists.                                        *)
ListedPrice(name, price) == IF IsInverse(name) THEN (PRICE_UNIT * PRICE_UNIT) \div price ELSE price

(* extract_rate and transform_exchange_http_response on the answer of an   *)
(* exchange at this time.                                                  *)
Transformed(name) ==
    LET exchange == Exchange(name, request.timestamp)
        candles == CandlesInAnswer(exchange, trades, now)
        prices == trades[FirstCandle(exchange, candles)]
    IN  IF candles = {} THEN Without("NoData")
        ELSE Found(PriceOf(exchange, [i \in DOMAIN prices |-> ListedPrice(name, prices[i])]) \div 10)

(* One replica's request is answered, or fails: no answer, or one that     *)
(* cannot be parsed.                                                       *)
Fetch(name, replica) ==
    /\ name \in Called /\ fetched[name][replica] = Pending
    /\ \E response \in {Transformed(name), Without("Trap")} :
          fetched' = [fetched EXCEPT ![name][replica] = response]
    /\ UNCHANGED <<now, trades, request, outcomes, documents, received, reply, metrics>>

(* The responses a quorum of replicas has. *)
Agreed(name) ==
    {response \in {fetched[name][r] : r \in Replicas} \ {Pending, Without("Trap")} :
        Cardinality({r \in Replicas : fetched[name][r] = response}) >= Quorum}

(* call_exchange_raw *)
Outcome(name) ==
    IF Agreed(name) = {} THEN Without("Http") ELSE CHOOSE response \in Agreed(name) : TRUE

(* Variant: no pair is turned around. *)
OrientedAsListed(name, outcome) == outcome

(* call_exchange_for_stablecoin: the rate with USDT as the quote asset. *)
Oriented(name, outcome) ==
    IF outcome.kind # "Rate" \/ ~IsInverse(name) THEN outcome
    ELSE IF outcome.rate = 0 THEN Without("NoRatesFound")
    ELSE Found(Invert(outcome.rate, DECIMALS))

Respond(name) ==
    /\ name \in Called /\ outcomes[name] = Pending
    /\ \A r \in Replicas : fetched[name][r] # Pending
    /\ outcomes' = [outcomes EXCEPT ![name] = Oriented(name, Outcome(name))]
    /\ metrics' = RecordExchangeOutcome(metrics, name, Kind, Outcome(name), now)
    /\ UNCHANGED <<now, trades, request, fetched, documents, received, reply>>

IsSettled(name) == outcomes[name] # Pending

(* The received rates, with those of the live operand.                     *)
WithLive(rates) ==
    [o \in DOMAIN received \cup {request.live} |-> IF o = request.live THEN rates ELSE received[o]]

(* All exchanges have answered: the rates of those that did not fail.      *)
CollectRates ==
    /\ AsksExchanges /\ request.live \notin DOMAIN received
    /\ \A name \in Called : IsSettled(name)
    /\ LET successes == {name \in Called : outcomes[name].kind = "Rate"}
           rates == [name \in successes |-> outcomes[name].rate]
       IN  /\ received' = WithLive(rates)
           /\ metrics' = IF Kind = "stablecoin"
                         THEN RecordSymbolRates(metrics, request.symbol, rates) ELSE metrics
    /\ UNCHANGED <<now, trades, request, fetched, outcomes, documents, reply>>

-----------------------------------------------------------------------------
(* The banks *)

(* The currencies every bank writes about.                                 *)
QuotedCurrencies == DOMAIN Worth[request.day] \ {"CAD", "AUD", "CHF", "TRY", "LCU"}

(* The documents a bank may answer with: the one it was asked for, one of  *)
(* another day, one in which USD is worth nothing, and, if its items have  *)
(* dates of their own, one in which the currency was not updated.          *)
PossibleDocuments(name) ==
    LET date == QueryDay(name, request.day)
        right == Published(name, Worth, QuotedCurrencies, date, {})
        old == Published(name, Worth, QuotedCurrencies, date - 1, {})
    IN  {[kind |-> "right", document |-> right], [kind |-> "old", document |-> old],
         [kind |-> "zero", document |-> Published(name, Worth, QuotedCurrencies, date, {"USD"})]}
        \cup {[kind |-> "mixed", document |->
                  [right EXCEPT !.items = {item \in right.items : item.symbol # request.symbol}
                                    \cup {item \in old.items : item.symbol = request.symbol}]] :
                d \in {ForexSource(name).dated} \cap {"items", "all"}}

(* call_forex: the document is transformed for the date asked for.  A      *)
(* transform that fails, or a document that does not arrive, is an error.  *)
RespondBank(name) ==
    /\ request.live = "forex" /\ name \in request.sources
    /\ documents[name].kind = "Pending"
    /\ \E answer \in PossibleDocuments(name) :
          documents' = [documents EXCEPT ![name] =
              [kind |-> answer.kind,
               answer |-> ExtractRates(name, answer.document, QueryDay(name, request.day))]]
    /\ UNCHANGED <<now, trades, request, fetched, outcomes, received, reply, metrics>>

(* The rates of the currency collected for the day. *)
CollectForex ==
    /\ request.live = "forex" /\ "forex" \notin DOMAIN received
    /\ \A name \in request.sources : documents[name].kind # "Pending"
    /\ LET quoting == {name \in request.sources :
                          /\ documents[name].answer.ok
                          /\ request.symbol \in DOMAIN documents[name].answer.rates}
       IN  received' =
               WithLive([name \in quoting |-> documents[name].answer.rates[request.symbol]])
    /\ UNCHANGED <<now, trades, request, fetched, outcomes, documents, reply, metrics>>

-----------------------------------------------------------------------------
(* The quote *)

OperandOf(name) ==
    LET rates == received[name]
        count == Cardinality(DOMAIN rates)
        queried == IF name = request.live THEN Cardinality(request.sources) ELSE count
        day == IF name = "forex" THEN request.day ELSE NoTime
    IN  NewRate(name, IF name = "forex" THEN "USD" ELSE "USDT", rates, queried, count, day)

(* The stablecoins with a rate, those received earlier first. *)
Coins ==
    LET coin(name) == IF received[name] = <<>> THEN <<>> ELSE <<OperandOf(name)>>
    IN  coin("coin1") \o coin("coin2")

(* Why there is nothing to compose a quote from, or "Ok". *)
OperandsResult ==
    IF request.pair = "same"
    THEN IF OperandOf("base").rates = <<>> THEN "CryptoBaseAssetNotFound"
         ELSE IF OperandOf("quote").rates = <<>> THEN "CryptoQuoteAssetNotFound" ELSE "Ok"
    ELSE IF received["forex"] = <<>> THEN "ForexQuoteAssetNotFound"
    ELSE IF OperandOf("base").rates = <<>> THEN "CryptoBaseAssetNotFound"
    ELSE StablecoinResult(Coins)

(* The rate of the pair, cryptocurrency first, before it is validated. *)
Composed ==
    IF request.pair = "same" THEN DividedBy(OperandOf("base"), OperandOf("quote"))
    ELSE DividedBy(Times(OperandOf("base"), StablecoinRate(Coins, "USD")), OperandOf("forex"))

(* The quote of a validated rate; a fiat-crypto pair is turned around only *)
(* then (route_request).                                                   *)
Answered(direct) == Reply(IF request.pair = "fc" THEN Inverted(direct) ELSE direct)

ReplyTo ==
    LET composes == OperandsResult = "Ok"
        direct == IF composes THEN Composed ELSE NoRate
        result == IF composes THEN Validated(direct) ELSE OperandsResult
    IN  [result |-> result, direct |-> direct,
         quote |-> IF result = "Ok" THEN Answered(direct) ELSE Reply(NoRate)]

Compose ==
    /\ reply = NoReply /\ DOMAIN received = Operands(request.pair)
    /\ reply' = ReplyTo
    /\ UNCHANGED <<now, trades, request, fetched, outcomes, documents, received, metrics>>

-----------------------------------------------------------------------------

(* Trades and the clock matter as long as exchanges are asked. *)
IsFetching == AsksExchanges /\ request.live \notin DOMAIN received

LiveTrades == {minute \in DOMAIN trades : minute >= request.timestamp}

Trade ==
    LET minute == (now \div MINUTE) * MINUTE
    IN  /\ IsFetching
        /\ SumFunction([m \in LiveTrades |-> Len(trades[m])]) < MaxTrades
        /\ \E price \in LivePrices[minute] :
              trades' = [trades EXCEPT ![minute] = Append(@, price)]
        /\ UNCHANGED <<now, request, fetched, outcomes, documents, received, reply, metrics>>

Tick ==
    /\ IsFetching /\ now + MINUTE \div 2 <= MaxTime
    /\ now' = now + MINUTE \div 2
    /\ UNCHANGED <<trades, request, fetched, outcomes, documents, received, reply, metrics>>

Init ==
    /\ request \in Requests
    /\ received \in ReceivedRates[request]
    /\ now = request.timestamp
    /\ trades \in IF AsksExchanges THEN PastTrades ELSE {<<>>}
    /\ fetched = [name \in Called |-> [r \in Replicas |-> Pending]]
    /\ outcomes = [name \in Called |-> Pending]
    /\ documents = [name \in IF request.live = "forex" THEN request.sources ELSE {} |->
                       [kind |-> "Pending", answer |-> Fails]]
    /\ reply = NoReply
    /\ metrics = InitialMetrics(0)

Next ==
    \/ \E name \in request.sources, replica \in Replicas : Fetch(name, replica)
    \/ \E name \in request.sources : Respond(name) \/ RespondBank(name)
    \/ CollectRates \/ CollectForex
    \/ Compose
    \/ Trade \/ Tick

Spec == Init /\ [][Next]_vars

=============================================================================
