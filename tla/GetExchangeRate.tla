--------------------------- MODULE GetExchangeRate ---------------------------
(***************************************************************************)
(* The exchange rate canister answering get_exchange_rate calls:           *)
(* src/xrc/src/api.rs with the cache (cache.rs), the in-flight set         *)
(* (inflight.rs), the request counter (rate_limiting.rs) and the fees      *)
(* (environment.rs).                                                       *)
(*                                                                         *)
(* A canister runs one message at a time and a call to it is cut at its    *)
(* awaits, so an action is everything a call does from one await to the    *)
(* next: its arrival, and one action for each kind of response it waits    *)
(* for.  Between two of them any other call may run.  The exchanges are    *)
(* the environment: the set of those whose HTTP outcall fails and the      *)
(* number of usable rates the others return are chosen freely, and so is   *)
(* the subset of exchanges that list the asset.                            *)
(***************************************************************************)
EXTENDS RateCache, FiniteSets

CONSTANTS
    Calls,                   \* slots for calls that are being processed
    OrdinaryCallers,
    PrivilegedCallers,       \* PRIVILEGED_CANISTER_IDS
    Anonymous,               \* the anonymous principal
    Requests,                \* the requests callers send
    CleanSymbol,             \* raw symbol -> uppercase symbol, "" if not alphanumeric
    NoTimestamp,
    CyclesAttached,          \* amounts of cycles callers attach
    PrivilegedCryptoAssets,
    Exchanges,               \* the available exchanges
    StablecoinsServed,       \* exchange -> stablecoins it has a pair for
    RequestCounterLimit,     \* REQUEST_COUNTER_LIMIT
    MinRatesForPrivileged,   \* MIN_NUM_RATES_FOR_PRIVILEGED_CANISTERS
    StartTime,               \* the clock, in seconds, and how it moves
    TimeSteps,
    MaxTime                  \* bound of the model on the clock

Crypto == "Cryptocurrency"
Fiat == "FiatCurrency"

Asset(S) == [class : {Crypto, Fiat}, symbol : S]
Request(S) == [base : Asset(S), quote : Asset(S), timestamp : Nat \cup {NoTimestamp}]

Callers == OrdinaryCallers \cup PrivilegedCallers

(* STABLECOIN_BASES, in the order the code goes through them. *)
USDC == "USDC"
USDS == "USDS"
Stablecoins == {USDC, USDS}

ASSUME CallersAssumption ==
    /\ OrdinaryCallers \cap PrivilegedCallers = {}
    /\ Anonymous \notin Callers
ASSUME RequestsAssumption ==
    /\ CleanSymbol \in [DOMAIN CleanSymbol -> Symbols]
    /\ Requests \subseteq Request(DOMAIN CleanSymbol)
    /\ Stablecoins \cup {""} \subseteq Symbols
    /\ NoTimestamp \notin Nat
ASSUME ExchangesAssumption ==
    /\ IsFiniteSet(Exchanges) /\ Exchanges # {}
    /\ StablecoinsServed \in [Exchanges -> SUBSET Stablecoins]
ASSUME LimitsAssumption ==
    /\ RequestCounterLimit \in Nat /\ MinRatesForPrivileged \in Nat
    /\ CyclesAttached \subseteq Nat
ASSUME ClockAssumption ==
    StartTime \in Nat /\ MaxTime \in Nat /\ TimeSteps \subseteq Nat \ {0}

(* The cycle amounts of lib.rs. *)
XRC_REQUEST_CYCLES_COST == 1000000000
XRC_OUTBOUND_HTTP_CALL_CYCLES_COST == 240000000
XRC_BASE_CYCLES_COST == 20000000
XRC_MINIMUM_FEE_COST == 1000000

MIN_NUM_STABLECOIN_RATES == 2

VARIABLES
    calls,      \* slot -> the call suspended in it
    inflight,   \* INFLIGHT_CRYPTO_USDT_RATE_REQUESTS
    counter,    \* RATE_LIMITING_REQUEST_COUNTER
    cache,      \* EXCHANGE_RATE_CACHE
    now,        \* IC time in seconds
    reply       \* the reply the last step sent, if any, with the fee taken for it

vars == <<calls, inflight, counter, cache, now, reply>>

-----------------------------------------------------------------------------
(* Requests *)

SanitizedAsset(asset) == [asset EXCEPT !.symbol = CleanSymbol[@]]

Sanitized(request) ==
    [base |-> SanitizedAsset(request.base), quote |-> SanitizedAsset(request.quote),
     timestamp |-> request.timestamp]

IsFiatPair(request) == request.base.class = Fiat /\ request.quote.class = Fiat
IsCryptoPair(request) == request.base.class = Crypto /\ request.quote.class = Crypto
IsFiatCryptoPair(request) == request.base.class = Fiat /\ request.quote.class = Crypto

(* The request the handler works on: a fiat-crypto pair is answered as the *)
(* inverse of the crypto-fiat pair.                                        *)
Handled(request) ==
    IF IsFiatCryptoPair(request)
    THEN [request EXCEPT !.base = request.quote, !.quote = request.base]
    ELSE request

(* Variant: the errors of a fiat-crypto pair are passed on as they are. *)
ReportedUninverted(request, result) == result

(* What the caller is told, given the handler's result. *)
Reported(request, result) ==
    IF IsFiatCryptoPair(request)
    THEN CASE result = "CryptoBaseAssetNotFound" -> "CryptoQuoteAssetNotFound"
           [] result = "ForexQuoteAssetNotFound" -> "ForexBaseAssetNotFound"
           [] result = "BaseAssetInvalidSymbol"  -> "QuoteAssetInvalidSymbol"
           [] result = "QuoteAssetInvalidSymbol" -> "BaseAssetInvalidSymbol"
           [] OTHER -> result
    ELSE IF request.quote.class = Fiat /\ request.base.class = Crypto
            /\ result = "ForexBaseAssetNotFound"
         THEN "ForexQuoteAssetNotFound"
         ELSE result

IsPrivilegedPair(request) ==
    \/ IsFiatPair(request)
    \/ /\ {request.base.class, request.quote.class} = {Crypto, Fiat}
       /\ \E asset \in {request.base, request.quote} :
             asset.class = Crypto /\ asset.symbol \in PrivilegedCryptoAssets
    \/ /\ IsCryptoPair(request)
       /\ \/ request.base.symbol = USDT /\ request.quote.symbol \in PrivilegedCryptoAssets
          \/ request.quote.symbol = USDT /\ request.base.symbol \in PrivilegedCryptoAssets

-----------------------------------------------------------------------------
(* Time *)

Minute(t) == (t \div 60) * 60
Minus(a, b) == IF a > b THEN a - b ELSE 0      \* saturating_sub

NormalizedTimestamp(request) ==
    Minute(IF request.timestamp = NoTimestamp THEN Minus(now, 30) ELSE request.timestamp)

IsInflight(symbol, timestamp) == <<symbol, timestamp>> \in inflight

(* A request for the current rate of an asset that is being fetched is     *)
(* moved to the minute before.  Only the symbol is compared.               *)
IsMovedToPast(request) ==
    /\ ~IsFiatPair(request)
    /\ request.timestamp = NoTimestamp
    /\ \E asset \in {request.base, request.quote} :
          IsInflight(asset.symbol, NormalizedTimestamp(request))

RequestedTimestamp(request) ==
    IF IsMovedToPast(request)
    THEN Minus(NormalizedTimestamp(request), 60)
    ELSE NormalizedTimestamp(request)

-----------------------------------------------------------------------------
(* Validation, rate limit and fees *)

(* Variant: what the request itself needs is not counted. *)
IsRateLimitedTooLate(request, need) ==
    /\ counter > RequestCounterLimit
    /\ ~IsPrivilegedPair(request) \/ request.timestamp # NoTimestamp

IsRateLimited(request, need) ==
    /\ Cardinality(Exchanges) * need + counter > RequestCounterLimit
    /\ ~IsPrivilegedPair(request) \/ request.timestamp # NoTimestamp

(* Variants: only the base asset is looked up in the in-flight set; a past *)
(* minute need not be cached.                                              *)
OrdinaryValidationOfBaseOnly(request, timestamp, need) ==
    IF IsRateLimited(request, need) THEN "RateLimited"
    ELSE IF IsInflight(request.base.symbol, timestamp) THEN "Pending"
    ELSE IF IsMovedToPast(request) /\ need > 0 THEN "Pending"
    ELSE "Ok"

OrdinaryValidationIgnoringPast(request, timestamp, need) ==
    IF IsRateLimited(request, need) THEN "RateLimited"
    ELSE IF \E asset \in {request.base, request.quote} :
               asset.class = Crypto /\ IsInflight(asset.symbol, timestamp) THEN "Pending"
    ELSE "Ok"

(* The checks privileged callers are spared: RateLimited, AlreadyInflight  *)
(* and PastTimestampNotCached.                                             *)
OrdinaryValidation(request, timestamp, need) ==
    IF IsRateLimited(request, need) THEN "RateLimited"
    ELSE IF \E asset \in {request.base, request.quote} :
               asset.class = Crypto /\ IsInflight(asset.symbol, timestamp) THEN "Pending"
    ELSE IF IsMovedToPast(request) /\ need > 0 THEN "Pending"
    ELSE "Ok"

(* Variant: a minute that has not come is fetched. *)
ValidationIgnoringFuture(caller, request, timestamp, need) ==
    IF request.base.symbol = "" THEN "BaseAssetInvalidSymbol"
    ELSE IF request.quote.symbol = "" THEN "QuoteAssetInvalidSymbol"
    ELSE IF caller \in PrivilegedCallers THEN "Ok"
    ELSE OrdinaryValidation(request, timestamp, need)

(* validate_request, in the order of its checks. *)
Validation(caller, request, timestamp, need) ==
    IF timestamp > now THEN "FutureTimestamp"
    ELSE IF request.base.symbol = "" THEN "BaseAssetInvalidSymbol"
    ELSE IF request.quote.symbol = "" THEN "QuoteAssetInvalidSymbol"
    ELSE IF caller \in PrivilegedCallers THEN "Ok"
    ELSE OrdinaryValidation(request, timestamp, need)

(* Variant: a refused request costs as much as an answered one. *)
FeeWithoutRefund(caller, isValid, need) ==
    IF caller \in PrivilegedCallers THEN 0
    ELSE XRC_BASE_CYCLES_COST
           + XRC_OUTBOUND_HTTP_CALL_CYCLES_COST * (IF need > 2 THEN 2 ELSE need)

(* charge_cycles: a caller with enough cycles always gets this far. *)
Fee(caller, isValid, need) ==
    IF caller \in PrivilegedCallers THEN 0
    ELSE IF isValid
         THEN XRC_BASE_CYCLES_COST
                + XRC_OUTBOUND_HTTP_CALL_CYCLES_COST * (IF need > 2 THEN 2 ELSE need)
         ELSE XRC_MINIMUM_FEE_COST

HasEnoughCycles(cycles) == cycles >= XRC_REQUEST_CYCLES_COST

(* What the forex store may say of a fiat currency against USD, and of two *)
(* fiat currencies.                                                        *)
ForexResults == {"Ok", "ForexInvalidTimestamp", "ForexBaseAssetNotFound"}
FiatPairForexResults ==
    ForexResults \cup {"ForexQuoteAssetNotFound", "ForexAssetsNotFound"}

(* What the validation of a composed rate may say. *)
ComposedResults == {"Ok", "InvalidRate", "InconsistentRatesReceived"}

Results ==
    FiatPairForexResults \cup ComposedResults \cup
    {"AnonymousPrincipalNotAllowed", "NotEnoughCycles", "FutureTimestamp",
     "BaseAssetInvalidSymbol", "QuoteAssetInvalidSymbol", "RateLimited", "Pending",
     "CryptoBaseAssetNotFound", "CryptoQuoteAssetNotFound",
     "StablecoinRateTooFewRates", "StablecoinRateZeroRate", "Trapped"}

-----------------------------------------------------------------------------
(* Calls *)

(* A call as the handler's locals: the rates found so far (base and quote  *)
(* as numbers of source rates, the stablecoins as the sequence collected), *)
(* the stablecoins to fetch, the exchanges not yet seen to fail, those an  *)
(* outcall is under way to, and the fee already accepted.                  *)
Call ==
    [phase : {"running", "stablecoins", "base", "quote", "returned"},
     caller : Callers, request : Request(Symbols), timestamp : Nat, need : 0..3,
     base : Nat, quote : Nat, stable : Seq(Nat), missed : SUBSET Stablecoins,
     exchanges : SUBSET Exchanges, queried : SUBSET Exchanges, fee : Nat,
     result : Results \cup {"none"}]

Idle == [phase |-> "idle"]

IsActive(c) == calls[c].phase # "idle"

(* get_rate_from_cache *)
RateFromCache(caller, symbol, timestamp) ==
    LET rates == Get(cache, symbol, timestamp) IN
    IF caller \in PrivilegedCallers /\ symbol # USDT /\ rates < MinRatesForPrivileged
    THEN NoRate
    ELSE rates

CachedStablecoin(symbol, timestamp) ==
    LET rates == Get(cache, symbol, timestamp) IN
    IF rates = NoRate THEN <<>> ELSE <<rates>>

CachedStablecoins(timestamp) ==
    CachedStablecoin(USDC, timestamp) \o CachedStablecoin(USDS, timestamp)

(* The lookups of a handler, in their order. *)
CacheAfterLookups(request, timestamp) ==
    LET afterBase == AfterGet(cache, request.base.symbol, timestamp) IN
    IF IsCryptoPair(request)
    THEN AfterGet(afterBase, request.quote.symbol, timestamp)
    ELSE AfterGet(AfterGet(afterBase, USDC, timestamp), USDS, timestamp)

(* The call at the point where its handler has done the lookups. *)
Looked(caller, request) ==
    LET handled == Handled(request)
        timestamp == RequestedTimestamp(handled)
        base == RateFromCache(caller, handled.base.symbol, timestamp)
        quote == IF IsCryptoPair(handled)
                 THEN RateFromCache(caller, handled.quote.symbol, timestamp) ELSE NoRate
        missed == IF IsCryptoPair(handled) THEN {}
                  ELSE {s \in Stablecoins : Get(cache, s, timestamp) = NoRate}
    IN  [phase |-> "running", caller |-> caller, request |-> request,
         timestamp |-> timestamp,
         need |-> (IF base = NoRate THEN 1 ELSE 0)
                  + (IF IsCryptoPair(handled) /\ quote = NoRate THEN 1 ELSE 0)
                  + Cardinality(missed),
         base |-> base, quote |-> quote,
         stable |-> IF IsCryptoPair(handled) THEN <<>> ELSE CachedStablecoins(timestamp),
         missed |-> missed, exchanges |-> Exchanges, queried |-> {},
         fee |-> 0, result |-> "none"]

(* The keys the call's guard adds to the in-flight set, and removes.       *)
(* Stablecoins are not among them.                                         *)
Keys(call) ==
    LET handled == Handled(call.request)
        symbols == {handled.base.symbol}
                     \cup (IF IsCryptoPair(handled) THEN {handled.quote.symbol} ELSE {})
    IN  symbols \X {call.timestamp}

(* Variant: one outcall per exchange, however many rates are needed. *)
ReservedForOneRate(call) == Cardinality(Exchanges)

(* What the call's guard adds to the request counter, and subtracts. *)
Reserved(call) == Cardinality(Exchanges) * call.need

-----------------------------------------------------------------------------
(* How far a handler runs before it next waits: a set of possible calls,   *)
(* each waiting for responses or returned.                                 *)

Returned(call, results) ==
    {[call EXCEPT !.phase = "returned", !.result = Reported(call.request, r)] : r \in results}

(* stablecoin::get_stablecoin_rate: fewer than two rates are refused.  The *)
(* median of two is the one nearest to their mean, so a rate that lost all *)
(* its sources (its median is 0) is the median if it comes first and may   *)
(* be if it comes second.                                                  *)
StablecoinResults(stable) ==
    IF Len(stable) < MIN_NUM_STABLECOIN_RATES THEN {"StablecoinRateTooFewRates"}
    ELSE IF stable[1] = 0 THEN {"StablecoinRateZeroRate"}
    ELSE IF stable[2] = 0 THEN {"StablecoinRateZeroRate"} \cup ComposedResults
    ELSE ComposedResults

Combine(call) ==
    Returned(call, IF IsCryptoPair(call.request) THEN ComposedResults
                   ELSE StablecoinResults(call.stable))

(* get_cryptocurrency_usdt_rate: of the exchanges offered those that list  *)
(* the asset are called; with none there is no outcall to wait for.        *)
CallExchanges(call, phase, notFound) ==
    {[call EXCEPT !.phase = phase, !.queried = listed] :
        listed \in (SUBSET call.exchanges) \ {{}}}
    \cup Returned(call, {notFound})

FetchQuote(call) ==
    IF ~IsCryptoPair(call.request) \/ call.quote # NoRate
    THEN Combine(call)
    ELSE CallExchanges(call, "quote", "CryptoQuoteAssetNotFound")

FetchBase(call) ==
    IF call.base # NoRate
    THEN FetchQuote(call)
    ELSE CallExchanges(call, "base", "CryptoBaseAssetNotFound")

ServedBy(call, symbol) == {e \in call.exchanges : symbol \in StablecoinsServed[e]}

(* get_stablecoin_rates is awaited if it calls any exchange at all. *)
FetchStablecoins(call) ==
    IF \E symbol \in call.missed : ServedBy(call, symbol) # {}
    THEN {[call EXCEPT !.phase = "stablecoins"]}
    ELSE FetchBase(call)

-----------------------------------------------------------------------------
(* What the exchanges may answer: the exchanges whose outcall failed and   *)
(* the number of rates left of what the others returned.                   *)

Answers(queried) ==
    UNION {[failed : {failed}, rates : 0..Cardinality(queried \ failed)] :
              failed \in SUBSET queried}

(* A stablecoin is found when some exchange returned a rate, even if the   *)
(* filter then leaves none.                                                *)
NotFound == [found |-> FALSE, failed |-> {}, rates |-> 0]

StablecoinAnswers(call, symbol) ==
    IF symbol \in call.missed
    THEN {NotFound} \cup
         {[found |-> TRUE, failed |-> a.failed, rates |-> a.rates] :
             a \in {a \in Answers(ServedBy(call, symbol)) : a.failed # ServedBy(call, symbol)}}
    ELSE {NotFound}

RatesFound(answer) == IF answer.found THEN <<answer.rates>> ELSE <<>>

-----------------------------------------------------------------------------
(* The guards *)

NoReply == [result |-> "none"]

Reply(caller, request, need, fee, reported) ==
    [caller |-> caller, request |-> request, need |-> need, fee |-> fee, result |-> reported]

(* Variants: the in-flight guard is dropped as soon as it is made, it is   *)
(* never dropped, and the counter is given back for one rate only.         *)
ProceedUnguarded(c, call, held, reserved) ==
    /\ calls' = [calls EXCEPT ![c] = IF call.phase = "returned" THEN Idle ELSE call]
    /\ inflight' = held \ Keys(call)
    /\ counter' = IF call.phase = "returned" THEN Minus(reserved, Reserved(call)) ELSE reserved
    /\ reply' = NoReply

ProceedLeavingKeys(c, call, held, reserved) ==
    /\ calls' = [calls EXCEPT ![c] = IF call.phase = "returned" THEN Idle ELSE call]
    /\ inflight' = held
    /\ counter' = IF call.phase = "returned" THEN Minus(reserved, Reserved(call)) ELSE reserved
    /\ reply' = NoReply

ProceedReleasingOneRate(c, call, held, reserved) ==
    /\ calls' = [calls EXCEPT ![c] = IF call.phase = "returned" THEN Idle ELSE call]
    /\ inflight' = IF call.phase = "returned" THEN held \ Keys(call) ELSE held
    /\ counter' = IF call.phase = "returned"
                  THEN Minus(reserved, Cardinality(Exchanges)) ELSE reserved
    /\ reply' = NoReply

(* A call that returns drops its guards, one that waits keeps them: held   *)
(* is the in-flight set and reserved the counter with its guards in place. *)
Proceed(c, call, held, reserved) ==
    \/ /\ call.phase # "returned"
       /\ calls' = [calls EXCEPT ![c] = call]
       /\ inflight' = held
       /\ counter' = reserved
       /\ reply' = NoReply
    \/ /\ call.phase = "returned"
       /\ calls' = [calls EXCEPT ![c] = Idle]
       /\ inflight' = held \ Keys(call)
       /\ counter' = Minus(reserved, Reserved(call))
       /\ reply' = Reply(call.caller, call.request, call.need, call.fee, call.result)

Resume(c, call) == Proceed(c, call, inflight, counter)

Answer(caller, request, need, fee, reported) ==
    /\ reply' = Reply(caller, request, need, fee, reported)
    /\ UNCHANGED <<calls, inflight, counter, now>>

-----------------------------------------------------------------------------
(* A call arrives *)

(* Turned away before the handler: nothing is charged. *)
Refuse(caller, request, cycles) ==
    /\ \/ /\ caller = Anonymous
          /\ Answer(caller, request, 0, 0, "AnonymousPrincipalNotAllowed")
       \/ /\ caller \in OrdinaryCallers /\ ~HasEnoughCycles(cycles)
          /\ Answer(caller, request, 0, 0, "NotEnoughCycles")
    /\ UNCHANGED cache

Admitted(caller, cycles) ==
    \/ caller \in PrivilegedCallers
    \/ caller \in OrdinaryCallers /\ HasEnoughCycles(cycles)

(* handle_fiat_pair: answered from the forex store at once.  A request     *)
(* that fails the validation is returned before anything is charged.       *)
AnswerFiatPair(caller, raw, cycles) ==
    LET request == Sanitized(raw)
        validation == Validation(caller, request, RequestedTimestamp(request), 0)
    IN  /\ Admitted(caller, cycles)
        /\ IsFiatPair(request)
        /\ \/ /\ validation # "Ok"
              /\ Answer(caller, request, 0, 0, validation)
           \/ /\ validation = "Ok"
              /\ \E result \in FiatPairForexResults \cup ComposedResults :
                    Answer(caller, request, 0, Fee(caller, result = "Ok", 0), result)
        /\ UNCHANGED cache

(* The forex store is consulted for the fiat side of a crypto-fiat pair.   *)
ForexResultsFor(request) == IF IsCryptoPair(request) THEN {"Ok"} ELSE ForexResults

LookedValidation(call) ==
    Validation(call.caller, Handled(call.request), call.timestamp, call.need)

RejectInvalid(caller, raw, cycles) ==
    LET call == Looked(caller, Sanitized(raw)) IN
    /\ Admitted(caller, cycles)
    /\ ~IsFiatPair(raw)
    /\ \E forex \in ForexResultsFor(raw) :
          LET error == IF LookedValidation(call) # "Ok" THEN LookedValidation(call) ELSE forex
          IN  /\ error # "Ok"
              /\ Answer(caller, call.request, call.need, Fee(caller, FALSE, call.need),
                        Reported(call.request, error))
    /\ cache' = CacheAfterLookups(Handled(call.request), call.timestamp)

AnswerFromCache(caller, raw, cycles) ==
    LET call == Looked(caller, Sanitized(raw)) IN
    /\ Admitted(caller, cycles)
    /\ ~IsFiatPair(raw)
    /\ LookedValidation(call) = "Ok"
    /\ call.need = 0
    /\ \E combined \in Combine(call) :
          Answer(caller, call.request, 0, Fee(caller, TRUE, 0), combined.result)
    /\ cache' = CacheAfterLookups(Handled(call.request), call.timestamp)

StartFetching(c, caller, raw, cycles) ==
    LET looked == Looked(caller, Sanitized(raw))
        call == [looked EXCEPT !.fee = Fee(caller, TRUE, looked.need)]
    IN  /\ ~IsActive(c)
        /\ Admitted(caller, cycles)
        /\ ~IsFiatPair(raw)
        /\ LookedValidation(looked) = "Ok"
        /\ looked.need > 0
        /\ \E next \in FetchStablecoins(call) :
              Proceed(c, next, inflight \cup Keys(call), counter + Reserved(call))
        /\ cache' = CacheAfterLookups(Handled(call.request), call.timestamp)
        /\ UNCHANGED now

-----------------------------------------------------------------------------
(* Responses *)

(* Variant: only goes on when both stablecoins came back. *)
StablecoinResponseOfBoth(c) ==
    LET call == calls[c] IN
    /\ call.phase = "stablecoins"
    /\ \E usdc \in StablecoinAnswers(call, USDC), usds \in StablecoinAnswers(call, USDS) :
          /\ usdc.found /\ usds.found
          /\ \E next \in FetchBase(
                   [call EXCEPT !.stable = <<usdc.rates, usds.rates>>,
                                !.exchanges = @ \ (usdc.failed \cup usds.failed)]) :
                Resume(c, next)
          /\ cache' = Insert(Insert(cache, USDC, call.timestamp, usdc.rates),
                             USDS, call.timestamp, usds.rates)
    /\ UNCHANGED now

StablecoinResponse(c) ==
    LET call == calls[c] IN
    /\ call.phase = "stablecoins"
    /\ \E usdc \in StablecoinAnswers(call, USDC), usds \in StablecoinAnswers(call, USDS) :
          /\ \E next \in FetchBase(
                   [call EXCEPT !.stable = @ \o RatesFound(usdc) \o RatesFound(usds),
                                !.exchanges = @ \ (usdc.failed \cup usds.failed)]) :
                Resume(c, next)
          /\ cache' = Insert(Insert(cache, USDC, call.timestamp, usdc.rates),
                             USDS, call.timestamp, usds.rates)
    /\ UNCHANGED now

BaseResponse(c) ==
    LET call == calls[c] IN
    /\ call.phase = "base"
    /\ \E answer \in Answers(call.queried) :
          /\ \E next \in
                 IF answer.rates = 0 THEN Returned(call, {"CryptoBaseAssetNotFound"})
                 ELSE FetchQuote([call EXCEPT !.base = answer.rates,
                                              !.exchanges = @ \ answer.failed,
                                              !.queried = {}]) :
                Resume(c, next)
          /\ cache' = Insert(cache, Handled(call.request).base.symbol,
                             call.timestamp, answer.rates)
    /\ UNCHANGED now

QuoteResponse(c) ==
    LET call == calls[c] IN
    /\ call.phase = "quote"
    /\ \E answer \in Answers(call.queried) :
          /\ \E next \in IF answer.rates = 0
                         THEN Returned(call, {"CryptoQuoteAssetNotFound"})
                         ELSE Combine([call EXCEPT !.quote = answer.rates]) :
                Resume(c, next)
          /\ cache' = Insert(cache, Handled(call.request).quote.symbol,
                             call.timestamp, answer.rates)
    /\ UNCHANGED now

(* Variant: a trap leaves the keys in flight. *)
TrapLeakingKeys(c) ==
    /\ IsActive(c)
    /\ calls' = [calls EXCEPT ![c] = Idle]
    /\ counter' = Minus(counter, Reserved(calls[c]))
    /\ reply' = NoReply
    /\ UNCHANGED <<inflight, cache, now>>

(* The code after an await traps: its changes are undone, the guards are   *)
(* dropped, the cycles accepted before the await stay accepted.            *)
Trap(c) ==
    /\ IsActive(c)
    /\ \E next \in Returned(calls[c], {"Trapped"}) : Resume(c, next)
    /\ UNCHANGED <<cache, now>>

-----------------------------------------------------------------------------
(* The canister is upgraded once its calls have returned: none of this     *)
(* state is carried over.                                                  *)
Upgrade ==
    /\ \A c \in Calls : ~IsActive(c)
    /\ inflight' = {} /\ counter' = 0 /\ cache' = <<>>
    /\ reply' = NoReply
    /\ UNCHANGED <<calls, now>>

Tick ==
    /\ \E step \in TimeSteps : now + step <= MaxTime /\ now' = now + step
    /\ reply' = NoReply
    /\ UNCHANGED <<calls, inflight, counter, cache>>

Init ==
    /\ calls = [c \in Calls |-> Idle]
    /\ inflight = {} /\ counter = 0 /\ cache = <<>>
    /\ now = StartTime
    /\ reply = NoReply

Arrival ==
    \E caller \in Callers \cup {Anonymous}, raw \in Requests, cycles \in CyclesAttached :
        \/ Refuse(caller, raw, cycles)
        \/ AnswerFiatPair(caller, raw, cycles)
        \/ RejectInvalid(caller, raw, cycles)
        \/ AnswerFromCache(caller, raw, cycles)
        \/ \E c \in Calls : StartFetching(c, caller, raw, cycles)

Response(c) == StablecoinResponse(c) \/ BaseResponse(c) \/ QuoteResponse(c)

Next ==
    \/ Arrival
    \/ \E c \in Calls : Response(c) \/ Trap(c)
    \/ Upgrade
    \/ Tick

Spec == Init /\ [][Next]_vars

(* Every HTTP outcall is answered by the management canister, with an      *)
(* error if need be, so every response comes.                              *)
Fairness == \A c \in Calls : WF_vars(Response(c))

FairSpec == Spec /\ Fairness

=============================================================================
