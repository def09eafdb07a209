------------------------ MODULE GetExchangeRateProofs ------------------------
(***************************************************************************)
(* Proofs about GetExchangeRate for every number of calls, exchanges and   *)
(* assets.  The first part says what a handler may do to its own call, the *)
(* second what one step of the canister is, the third proves the theorems. *)
(***************************************************************************)
EXTENDS GetExchangeRateProperties, RateCacheProofs, FiniteSetTheorems

-----------------------------------------------------------------------------
(* Where a handler may go from a call: whatever it finds, the call keeps   *)
(* its caller, request, minute, number of rates needed and fee, among them *)
(* the fields its guards were made from, and it fetches a quote asset for  *)
(* crypto pairs only.                                                      *)
FetchesQuote(call) == call.phase = "quote" \/ IsCryptoPair(call.request)

(* What a handler that fetches may end with. *)
FetchResults(call) ==
    ComposedResults
        \cup {"CryptoBaseAssetNotFound", "StablecoinRateTooFewRates", "StablecoinRateZeroRate",
              "Trapped"}
        \cup (IF FetchesQuote(call) THEN {"CryptoQuoteAssetNotFound"} ELSE {})

SameWork(call, next) ==
    /\ next.caller = call.caller /\ next.request = call.request
    /\ next.timestamp = call.timestamp /\ next.need = call.need
    /\ next.missed = call.missed /\ next.fee = call.fee

Continuations(call) ==
    {next \in Call :
        /\ SameWork(call, next)
        /\ next.phase # "running"
        /\ next.phase = "quote" => FetchesQuote(call)
        /\ next.phase = "returned" =>
              next.result \in {Reported(call.request, r) : r \in FetchResults(call)}}

LEMMA ContinuationsOfUpdate ==
    ASSUME NEW call \in Call, NEW update \in Call,
           SameWork(call, update), update.phase = call.phase
    PROVE  Continuations(update) = Continuations(call)
  BY DEF Continuations, SameWork, FetchResults, FetchesQuote

(* The guards are the same for a call and for what it becomes. *)
LEMMA GuardsKept ==
    ASSUME NEW call, NEW next \in Continuations(call)
    PROVE  Keys(next) = Keys(call) /\ Reserved(next) = Reserved(call)
  BY DEF Continuations, SameWork, Keys, Reserved

LEMMA ReportedType ==
    ASSUME NEW request, NEW result \in Results
    PROVE  Reported(request, result) \in Results
<1>1. {"CryptoQuoteAssetNotFound", "ForexBaseAssetNotFound", "ForexQuoteAssetNotFound",
       "QuoteAssetInvalidSymbol", "BaseAssetInvalidSymbol"} \subseteq Results
  BY DEF Results, FiatPairForexResults, ForexResults
<1>2. QED
  BY <1>1 DEF Reported

LEMMA FetchResultsType ==
    ASSUME NEW call
    PROVE  FetchResults(call) \in SUBSET Results
  BY DEF FetchResults, Results

(* A call that is done has a result. *)
LEMMA ResultType ==
    ASSUME NEW call, NEW next \in Continuations(call), next.phase = "returned"
    PROVE  next.result \in Results
  BY ReportedType, FetchResultsType DEF Continuations

LEMMA ReturnedContinues ==
    ASSUME NEW call \in Call, NEW results \in SUBSET FetchResults(call)
    PROVE  Returned(call, results) \subseteq Continuations(call)
<1> SUFFICES ASSUME NEW r \in results
             PROVE  [call EXCEPT !.phase = "returned", !.result = Reported(call.request, r)]
                        \in Continuations(call)
  BY DEF Returned
<1>1. Reported(call.request, r) \in Results
  BY ReportedType, FetchResultsType
<1>2. QED
  BY <1>1 DEF Continuations, SameWork, Call

LEMMA CombineContinues ==
    ASSUME NEW call \in Call
    PROVE  Combine(call) \subseteq Continuations(call)
<1>1. ComposedResults \subseteq FetchResults(call)
  BY DEF FetchResults
<1>2. StablecoinResults(call.stable) \subseteq FetchResults(call)
  BY DEF StablecoinResults, FetchResults
<1>3. QED
  BY <1>1, <1>2, ReturnedContinues DEF Combine

LEMMA CombineReturns ==
    ASSUME NEW call \in Call, NEW next \in Combine(call)
    PROVE  next.result \in Results
<1>1. \A r : [call EXCEPT !.phase = "returned", !.result = r].phase = "returned"
  BY DEF Call
<1>2. next.phase = "returned"
  BY <1>1 DEF Combine, Returned
<1>3. QED
  BY <1>2, CombineContinues, ResultType

LEMMA CallExchangesContinues ==
    ASSUME NEW call \in Call, NEW phase \in {"base", "quote"},
           NEW notFound \in FetchResults(call), phase = "quote" => FetchesQuote(call)
    PROVE  CallExchanges(call, phase, notFound) \subseteq Continuations(call)
<1>1. ASSUME NEW listed \in SUBSET call.exchanges
      PROVE  [call EXCEPT !.phase = phase, !.queried = listed] \in Continuations(call)
  BY <1>1 DEF Continuations, SameWork, Call
<1>2. Returned(call, {notFound}) \subseteq Continuations(call)
  BY ReturnedContinues
<1>3. QED
  BY <1>1, <1>2 DEF CallExchanges

LEMMA FetchQuoteContinues ==
    ASSUME NEW call \in Call
    PROVE  FetchQuote(call) \subseteq Continuations(call)
<1>1. FetchesQuote(call) => "CryptoQuoteAssetNotFound" \in FetchResults(call)
  BY DEF FetchResults
<1>2. IsCryptoPair(call.request) => FetchesQuote(call)
  BY DEF FetchesQuote
<1>3. QED
  BY <1>1, <1>2, CombineContinues, CallExchangesContinues DEF FetchQuote

LEMMA FetchBaseContinues ==
    ASSUME NEW call \in Call
    PROVE  FetchBase(call) \subseteq Continuations(call)
<1>1. "CryptoBaseAssetNotFound" \in FetchResults(call)
  BY DEF FetchResults
<1>2. QED
  BY <1>1, FetchQuoteContinues, CallExchangesContinues DEF FetchBase

LEMMA FetchStablecoinsContinues ==
    ASSUME NEW call \in Call
    PROVE  FetchStablecoins(call) \subseteq Continuations(call)
<1>1. [call EXCEPT !.phase = "stablecoins"] \in Continuations(call)
  BY DEF Continuations, SameWork, Call
<1>2. QED
  BY <1>1, FetchBaseContinues DEF FetchStablecoins

-----------------------------------------------------------------------------
(* A call as it arrives. *)

LEMMA SanitizedType ==
    ASSUME NEW raw \in Requests
    PROVE  /\ Sanitized(raw) \in Request(Symbols)
           /\ IsFiatPair(Sanitized(raw)) <=> IsFiatPair(raw)
<1>1. raw \in Request(DOMAIN CleanSymbol)
  BY RequestsAssumption
<1>2. ASSUME NEW asset \in Asset(DOMAIN CleanSymbol)
      PROVE  SanitizedAsset(asset) \in Asset(Symbols) /\ SanitizedAsset(asset).class = asset.class
  <2>1. CleanSymbol[asset.symbol] \in Symbols
    BY RequestsAssumption DEF Asset
  <2>2. QED
    BY <2>1 DEF SanitizedAsset, Asset
<1>3. QED
  BY <1>1, <1>2 DEF Sanitized, Request, IsFiatPair

LEMMA HandledType ==
    ASSUME NEW S, NEW request \in Request(S)
    PROVE  Handled(request) \in Request(S)
  BY DEF Handled, Request, IsFiatCryptoPair

LEMMA TimeType ==
    /\ \A a, b \in Nat : Minus(a, b) \in Nat /\ Minus(a, b) <= a
    /\ \A t \in Nat : Minute(t) \in Nat
<1>1. \A t \in Nat : t \div 60 \in Nat
  OBVIOUS
<1>2. QED
  BY <1>1 DEF Minus, Minute

LEMMA RequestedTimestampType ==
    ASSUME NEW S, NEW request \in Request(S), now \in Nat
    PROVE  RequestedTimestamp(request) \in Nat
<1>1. request.timestamp = NoTimestamp \/ request.timestamp \in Nat
  BY DEF Request
<1>2. NormalizedTimestamp(request) \in Nat
  BY <1>1, TimeType DEF NormalizedTimestamp
<1>3. QED
  BY <1>2, TimeType DEF RequestedTimestamp

LEMMA StablecoinsCount ==
    ASSUME NEW missed \in SUBSET Stablecoins
    PROVE  Cardinality(missed) \in 0..2
<1>1. IsFiniteSet({USDS}) /\ Cardinality({USDS}) = 1
  BY FS_Singleton
<1>2. IsFiniteSet(Stablecoins) /\ Cardinality(Stablecoins) = 2
  <2>1. USDC \notin {USDS} /\ Stablecoins = {USDS} \cup {USDC}
    BY DEF USDC, USDS, Stablecoins
  <2>2. QED
    BY <1>1, <2>1, FS_AddElement
<1>3. IsFiniteSet(missed) /\ Cardinality(missed) <= 2
  BY <1>2, FS_Subset
<1>4. QED
  BY <1>3, FS_CardinalityType

LEMMA RateFromCacheType ==
    ASSUME cache \in Seq(CacheEntry), NEW caller, NEW symbol, NEW timestamp
    PROVE  /\ Get(cache, symbol, timestamp) \in Nat
           /\ RateFromCache(caller, symbol, timestamp) \in Nat
<1>1. \A e \in CacheEntry : e.rates \in Nat
  BY DEF CacheEntry
<1>2. Get(cache, symbol, timestamp) \in Nat
  BY <1>1, GetFinds
<1>3. QED
  BY <1>2 DEF RateFromCache, NoRate

(* The call a request becomes is well typed, whatever is cached. *)
LEMMA LookedType ==
    ASSUME cache \in Seq(CacheEntry), now \in Nat,
           NEW caller \in Callers, NEW request \in Request(Symbols)
    PROVE  Looked(caller, request) \in Call
<1> DEFINE call == Looked(caller, request)
           handled == Handled(request)
           timestamp == RequestedTimestamp(handled)
           missed == IF IsCryptoPair(handled) THEN {}
                     ELSE {s \in Stablecoins : Get(cache, s, timestamp) = NoRate}
<1>1. handled \in Request(Symbols)
  BY HandledType
<1>2. timestamp \in Nat
  BY <1>1, RequestedTimestampType
<1>3. Cardinality(missed) \in 0..2 /\ missed \subseteq Stablecoins
      /\ (IsCryptoPair(handled) => Cardinality(missed) = 0)
  BY StablecoinsCount, FS_EmptySet
<1>4. call.base \in Nat /\ call.quote \in Nat
  BY RateFromCacheType DEF Looked, NoRate
<1>5. call.need \in 0..3
  <2> HIDE DEF missed
  <2>1. call.need = (IF call.base = NoRate THEN 1 ELSE 0)
                    + (IF IsCryptoPair(handled) /\ call.quote = NoRate THEN 1 ELSE 0)
                    + Cardinality(missed)
    BY DEF Looked, missed
  <2>2. QED
    BY <1>3, <2>1
<1>6. CachedStablecoins(timestamp) \in Seq(Nat)
  <2>1. ASSUME NEW s PROVE CachedStablecoin(s, timestamp) \in Seq(Nat)
    BY RateFromCacheType DEF CachedStablecoin
  <2>2. QED
    BY <2>1 DEF CachedStablecoins
<1>7. call.stable \in Seq(Nat)
  BY <1>6 DEF Looked
<1>8. QED
  <2> DEFINE nd == call.need  bs == call.base  qt == call.quote  st == call.stable
  <2>1. call = [phase |-> "running", caller |-> caller, request |-> request,
                timestamp |-> timestamp, need |-> nd, base |-> bs, quote |-> qt,
                stable |-> st, missed |-> missed, exchanges |-> Exchanges,
                queried |-> {}, fee |-> 0, result |-> "none"]
    BY DEF Looked
  <2> HIDE DEF call, timestamp, missed, nd, bs, qt, st
  <2>2. nd \in 0..3 /\ bs \in Nat /\ qt \in Nat /\ st \in Seq(Nat)
    BY <1>4, <1>5, <1>7 DEF nd, bs, qt, st
  <2>3. call \in Call
    BY <1>2, <1>3, <2>1, <2>2 DEF Call
  <2>4. QED
    BY <2>3 DEF call

LEMMA FeeType ==
    ASSUME NEW caller, NEW isValid \in BOOLEAN, NEW need \in 0..3
    PROVE  Fee(caller, isValid, need) \in Nat
  BY DEF Fee, XRC_BASE_CYCLES_COST, XRC_OUTBOUND_HTTP_CALL_CYCLES_COST, XRC_MINIMUM_FEE_COST

LEMMA LookupsKeepEntries ==
    ASSUME NEW E, cache \in Seq(E), NEW request, NEW timestamp
    PROVE  /\ CacheAfterLookups(request, timestamp) \in Seq(E)
           /\ Len(CacheAfterLookups(request, timestamp)) = Len(cache)
  BY AfterGetKeepsEntries DEF CacheAfterLookups

LEMMA LookupsKeepKeys ==
    ASSUME cache \in Seq(CacheEntry), OneEntryPerKey(cache), NEW request, NEW timestamp
    PROVE  OneEntryPerKey(CacheAfterLookups(request, timestamp))
<1>1. ASSUME NEW entries \in Seq(CacheEntry), OneEntryPerKey(entries), NEW symbol
      PROVE  /\ AfterGet(entries, symbol, timestamp) \in Seq(CacheEntry)
             /\ OneEntryPerKey(AfterGet(entries, symbol, timestamp))
  BY <1>1, AfterGetKeepsEntries, AfterGetKeepsKeys
<1>2. QED
  BY <1>1 DEF CacheAfterLookups

-----------------------------------------------------------------------------
(* What one step does to the calls and their guards, and to the cache. *)

LEMMA KeysType ==
    ASSUME NEW call \in Call
    PROVE  Keys(call) \in SUBSET (Symbols \X Nat)
<1>1. Handled(call.request) \in Request(Symbols) /\ call.timestamp \in Nat
  BY HandledType DEF Call
<1>2. QED
  BY <1>1 DEF Keys, Request, Asset

LEMMA ReservedType ==
    ASSUME NEW call \in Call
    PROVE  Reserved(call) \in Nat
<1>1. Cardinality(Exchanges) \in Nat
  BY ExchangesAssumption, FS_CardinalityType
<1>2. call.need \in Nat
  BY DEF Call
<1>3. QED
  BY <1>1, <1>2 DEF Reserved

LEMMA ActiveCall ==
    ASSUME TypeOK, NEW c \in Calls, IsActive(c)
    PROVE  calls[c] \in Call
  BY DEF TypeOK, IsActive, Idle

(* A call resumes: it was active and continues within its guards. *)
Resumes(c) ==
    /\ IsActive(c)
    /\ \E next \in Continuations(calls[c]) : Resume(c, next)

(* A call starts in a free slot, having passed the validation. *)
Starts(c) ==
    /\ ~IsActive(c)
    /\ \E call \in Call :
          /\ LookedValidation(call) = "Ok"
          /\ ~IsFiatPair(call.request)
          /\ call.phase = "running"
          /\ call.timestamp = RequestedTimestamp(Handled(call.request))
          /\ call.need > 0 /\ Cardinality(call.missed) <= call.need
          /\ call.fee = Fee(call.caller, TRUE, call.need)
          /\ \E next \in Continuations(call) :
                Proceed(c, next, inflight \cup Keys(call), counter + Reserved(call))

AnswerCounts(queried) ==
    \A answer \in Answers(queried) : answer.rates \in Nat

LEMMA AnswersType ==
    ASSUME NEW queried \in SUBSET Exchanges
    PROVE  AnswerCounts(queried)
<1> SUFFICES ASSUME NEW failed \in SUBSET queried,
                    NEW answer \in [failed : {failed}, rates : 0..Cardinality(queried \ failed)]
             PROVE  answer.rates \in Nat
  BY DEF AnswerCounts, Answers
<1>1. Cardinality(queried \ failed) \in Nat
  <2>1. queried \ failed \subseteq Exchanges
    OBVIOUS
  <2>2. QED
    BY <2>1, ExchangesAssumption, FS_Subset, FS_CardinalityType
<1>2. QED
  BY <1>1

LEMMA StablecoinAnswersType ==
    ASSUME NEW call \in Call, NEW symbol, NEW answer \in StablecoinAnswers(call, symbol)
    PROVE  answer.rates \in Nat /\ RatesFound(answer) \in Seq(Nat)
<1>1. ServedBy(call, symbol) \in SUBSET Exchanges
  BY DEF ServedBy, Call
<1>2. answer.rates \in Nat
  BY <1>1, AnswersType DEF StablecoinAnswers, AnswerCounts, NotFound
<1>3. QED
  BY <1>2 DEF RatesFound

(* The keys whose rates the response that a call waits for may bring. *)
Arriving(call) ==
    (CASE call.phase = "stablecoins" -> Stablecoins
       [] call.phase = "base" -> {Handled(call.request).base.symbol}
       [] call.phase = "quote" -> {Handled(call.request).quote.symbol}
       [] OTHER -> {})
      \X {call.timestamp}

(* E stands for the entries the cache may hold: it allows for those a      *)
(* response may add.                                                       *)
Cacheable(E, keys) ==
    \A key \in keys, rates \in Nat :
        rates > 0 /\ key[1] # USDT =>
            [symbol |-> key[1], timestamp |-> key[2], rates |-> rates] \in E

Bounded(entries, E) == entries \in Seq(E) /\ Len(entries) <= Capacity

LEMMA ArrivingType ==
    ASSUME NEW call \in Call
    PROVE  \A key \in Arriving(call) :
               key[1] \in Symbols /\ key[2] = call.timestamp /\ key[2] \in Nat
<1>1. Handled(call.request) \in Request(Symbols) /\ call.timestamp \in Nat
  BY HandledType DEF Call
<1>2. Stablecoins \subseteq Symbols
  BY RequestsAssumption
<1>3. QED
  BY <1>1, <1>2 DEF Arriving, Request, Asset

LEMMA EntriesCacheable ==
    ASSUME NEW call \in Call
    PROVE  Cacheable(CacheEntry, Arriving(call))
  BY ArrivingType DEF Cacheable, CacheEntry

LEMMA StablecoinResponseStep ==
    ASSUME TypeOK, NEW c \in Calls, StablecoinResponse(c)
    PROVE  /\ Resumes(c) /\ now' = now
           /\ \A E : Bounded(cache, E) /\ Cacheable(E, Arriving(calls[c])) => Bounded(cache', E)
           /\ OneEntryPerKey(cache) => OneEntryPerKey(cache')
<1> DEFINE call == calls[c]
<1>1. IsActive(c) /\ call \in Call
  BY ActiveCall DEF StablecoinResponse, IsActive
<1>2. PICK usdc \in StablecoinAnswers(call, USDC), usds \in StablecoinAnswers(call, USDS) :
         /\ \E next \in FetchBase(
                  [call EXCEPT !.stable = @ \o RatesFound(usdc) \o RatesFound(usds),
                               !.exchanges = @ \ (usdc.failed \cup usds.failed)]) :
               Resume(c, next)
         /\ cache' = Insert(Insert(cache, USDC, call.timestamp, usdc.rates),
                            USDS, call.timestamp, usds.rates)
  BY DEF StablecoinResponse
<1>3. /\ usdc.rates \in Nat /\ RatesFound(usdc) \in Seq(Nat)
      /\ usds.rates \in Nat /\ RatesFound(usds) \in Seq(Nat)
  BY <1>1, StablecoinAnswersType
<1>4. Resumes(c)
  <2> DEFINE update == [call EXCEPT !.stable = @ \o RatesFound(usdc) \o RatesFound(usds),
                                    !.exchanges = @ \ (usdc.failed \cup usds.failed)]
  <2>1. call.stable \o RatesFound(usdc) \o RatesFound(usds) \in Seq(Nat)
    BY <1>1, <1>3 DEF Call
  <2>2. update \in Call /\ SameWork(call, update) /\ update.phase = call.phase
    BY <1>1, <2>1 DEF Call, SameWork
  <2> HIDE DEF update
  <2>3. FetchBase(update) \subseteq Continuations(call)
    BY <1>1, <2>2, FetchBaseContinues, ContinuationsOfUpdate
  <2>4. QED
    BY <1>1, <1>2, <2>3 DEF Resumes, update
<1>5. ASSUME NEW E, Bounded(cache, E), Cacheable(E, Arriving(call))
      PROVE  Bounded(cache', E)
  <2> DEFINE first == Insert(cache, USDC, call.timestamp, usdc.rates)
  <2>1. <<USDC, call.timestamp>> \in Arriving(call) /\ <<USDS, call.timestamp>> \in Arriving(call)
    BY DEF StablecoinResponse, Arriving, Stablecoins
  <2>2. first \in Seq(E) /\ Len(first) <= Capacity
    BY <1>3, <1>5, <2>1, InsertBounded DEF Bounded, Cacheable
  <2> HIDE DEF first
  <2>3. Insert(first, USDS, call.timestamp, usds.rates) \in Seq(E)
        /\ Len(Insert(first, USDS, call.timestamp, usds.rates)) <= Capacity
    BY <1>3, <1>5, <2>1, <2>2, InsertBounded DEF Cacheable
  <2>4. QED
    BY <1>2, <2>3 DEF Bounded, first
<1>6. ASSUME OneEntryPerKey(cache)
      PROVE  OneEntryPerKey(cache')
  <2> DEFINE first == Insert(cache, USDC, call.timestamp, usdc.rates)
  <2>1. <<USDC, call.timestamp>> \in Arriving(call) /\ <<USDS, call.timestamp>> \in Arriving(call)
    BY DEF StablecoinResponse, Arriving, Stablecoins
  <2>2. Cacheable(CacheEntry, Arriving(call))
    BY <1>1, EntriesCacheable
  <2>3. /\ first \in Seq(CacheEntry) /\ Len(first) <= Capacity
        /\ OneEntryPerKey(first)
    BY <1>3, <1>6, <2>1, <2>2, InsertBounded, InsertKeepsKeys DEF TypeOK, Cacheable
  <2> HIDE DEF first
  <2>4. OneEntryPerKey(Insert(first, USDS, call.timestamp, usds.rates))
    BY <1>3, <2>1, <2>2, <2>3, InsertKeepsKeys DEF Cacheable
  <2>5. QED
    BY <1>2, <2>4 DEF first
<1>7. QED
  BY <1>4, <1>5, <1>6 DEF StablecoinResponse

LEMMA BaseResponseStep ==
    ASSUME TypeOK, NEW c \in Calls, BaseResponse(c)
    PROVE  /\ Resumes(c) /\ now' = now
           /\ \A E : Bounded(cache, E) /\ Cacheable(E, Arriving(calls[c])) => Bounded(cache', E)
           /\ OneEntryPerKey(cache) => OneEntryPerKey(cache')
<1> DEFINE call == calls[c]
<1>1. IsActive(c) /\ call \in Call
  BY ActiveCall DEF BaseResponse, IsActive
<1>2. PICK answer \in Answers(call.queried) :
         /\ \E next \in
                IF answer.rates = 0 THEN Returned(call, {"CryptoBaseAssetNotFound"})
                ELSE FetchQuote([call EXCEPT !.base = answer.rates,
                                             !.exchanges = @ \ answer.failed,
                                             !.queried = {}]) :
               Resume(c, next)
         /\ cache' = Insert(cache, Handled(call.request).base.symbol,
                            call.timestamp, answer.rates)
  BY DEF BaseResponse
<1>3. answer.rates \in Nat
  <2>1. call.queried \in SUBSET Exchanges
    BY <1>1 DEF Call
  <2>2. QED
    BY <2>1, AnswersType DEF AnswerCounts
<1>4. Resumes(c)
  <2> DEFINE update == [call EXCEPT !.base = answer.rates,
                                    !.exchanges = @ \ answer.failed,
                                    !.queried = {}]
  <2>1. update \in Call /\ SameWork(call, update) /\ update.phase = call.phase
    BY <1>1, <1>3 DEF Call, SameWork
  <2> HIDE DEF update
  <2>2. FetchQuote(update) \subseteq Continuations(call)
    BY <1>1, <2>1, FetchQuoteContinues, ContinuationsOfUpdate
  <2>3. Returned(call, {"CryptoBaseAssetNotFound"}) \subseteq Continuations(call)
    BY <1>1, ReturnedContinues DEF FetchResults
  <2>4. QED
    BY <1>1, <1>2, <2>2, <2>3 DEF Resumes, update
<1>5. ASSUME NEW E, Bounded(cache, E), Cacheable(E, Arriving(call))
      PROVE  Bounded(cache', E)
  <2>1. <<Handled(call.request).base.symbol, call.timestamp>> \in Arriving(call)
    BY DEF BaseResponse, Arriving
  <2>2. QED
    BY <1>2, <1>3, <1>5, <2>1, InsertBounded DEF Bounded, Cacheable
<1>6. ASSUME OneEntryPerKey(cache)
      PROVE  OneEntryPerKey(cache')
  <2>1. <<Handled(call.request).base.symbol, call.timestamp>> \in Arriving(call)
    BY DEF BaseResponse, Arriving
  <2>2. Cacheable(CacheEntry, Arriving(call))
    BY <1>1, EntriesCacheable
  <2>3. QED
    BY <1>2, <1>3, <1>6, <2>1, <2>2, InsertKeepsKeys DEF TypeOK, Cacheable
<1>7. QED
  BY <1>4, <1>5, <1>6 DEF BaseResponse

LEMMA QuoteResponseStep ==
    ASSUME TypeOK, NEW c \in Calls, QuoteResponse(c)
    PROVE  /\ Resumes(c) /\ now' = now
           /\ \A E : Bounded(cache, E) /\ Cacheable(E, Arriving(calls[c])) => Bounded(cache', E)
           /\ OneEntryPerKey(cache) => OneEntryPerKey(cache')
<1> DEFINE call == calls[c]
<1>1. IsActive(c) /\ call \in Call
  BY ActiveCall DEF QuoteResponse, IsActive
<1>2. PICK answer \in Answers(call.queried) :
         /\ \E next \in IF answer.rates = 0
                        THEN Returned(call, {"CryptoQuoteAssetNotFound"})
                        ELSE Combine([call EXCEPT !.quote = answer.rates]) :
               Resume(c, next)
         /\ cache' = Insert(cache, Handled(call.request).quote.symbol,
                            call.timestamp, answer.rates)
  BY DEF QuoteResponse
<1>3. answer.rates \in Nat
  <2>1. call.queried \in SUBSET Exchanges
    BY <1>1 DEF Call
  <2>2. QED
    BY <2>1, AnswersType DEF AnswerCounts
<1>4. Resumes(c)
  <2> DEFINE update == [call EXCEPT !.quote = answer.rates]
  <2>1. update \in Call /\ SameWork(call, update) /\ update.phase = call.phase
    BY <1>1, <1>3 DEF Call, SameWork
  <2> HIDE DEF update
  <2>2. Combine(update) \subseteq Continuations(call)
    BY <1>1, <2>1, CombineContinues, ContinuationsOfUpdate
  <2>3. Returned(call, {"CryptoQuoteAssetNotFound"}) \subseteq Continuations(call)
    BY <1>1, ReturnedContinues DEF FetchResults, FetchesQuote, QuoteResponse
  <2>4. QED
    BY <1>1, <1>2, <2>2, <2>3 DEF Resumes, update
<1>5. ASSUME NEW E, Bounded(cache, E), Cacheable(E, Arriving(call))
      PROVE  Bounded(cache', E)
  <2>1. <<Handled(call.request).quote.symbol, call.timestamp>> \in Arriving(call)
    BY DEF QuoteResponse, Arriving
  <2>2. QED
    BY <1>2, <1>3, <1>5, <2>1, InsertBounded DEF Bounded, Cacheable
<1>6. ASSUME OneEntryPerKey(cache)
      PROVE  OneEntryPerKey(cache')
  <2>1. <<Handled(call.request).quote.symbol, call.timestamp>> \in Arriving(call)
    BY DEF QuoteResponse, Arriving
  <2>2. Cacheable(CacheEntry, Arriving(call))
    BY <1>1, EntriesCacheable
  <2>3. QED
    BY <1>2, <1>3, <1>6, <2>1, <2>2, InsertKeepsKeys DEF TypeOK, Cacheable
<1>7. QED
  BY <1>4, <1>5, <1>6 DEF QuoteResponse

LEMMA TrapStep ==
    ASSUME TypeOK, NEW c \in Calls, Trap(c)
    PROVE  Resumes(c) /\ UNCHANGED <<cache, now>>
<1>1. calls[c] \in Call
  BY ActiveCall DEF Trap
<1>2. Returned(calls[c], {"Trapped"}) \subseteq Continuations(calls[c])
  BY <1>1, ReturnedContinues DEF FetchResults
<1>3. QED
  BY <1>2 DEF Trap, Resumes

(* An arrival that does not start a call answers and changes nothing but   *)
(* the order of the cache.                                                 *)
AnswersAtOnce ==
    /\ UNCHANGED <<calls, inflight, counter, now>>
    /\ reply' \in ReplyType
    /\ \A E : Bounded(cache, E) => Bounded(cache', E)
    /\ OneEntryPerKey(cache) => OneEntryPerKey(cache')

LEMMA AdmittedCallers ==
    ASSUME NEW caller, NEW cycles, Admitted(caller, cycles)
    PROVE  caller \in Callers
  BY DEF Admitted, Callers

LEMMA ReplyTyped ==
    ASSUME NEW caller \in Callers \cup {Anonymous},
           NEW request \in Request(DOMAIN CleanSymbol) \cup Request(Symbols),
           NEW need \in 0..3, NEW fee \in Nat, NEW result \in Results
    PROVE  Reply(caller, request, need, fee, result) \in ReplyType
<1>1. request \in Request(DOMAIN CleanSymbol \cup Symbols)
  BY DEF Request, Asset
<1>2. QED
  BY <1>1 DEF Reply, ReplyType

LEMMA ValidationType ==
    ASSUME NEW caller, NEW request, NEW timestamp, NEW need
    PROVE  Validation(caller, request, timestamp, need) \in Results
  BY DEF Validation, OrdinaryValidation, Results, FiatPairForexResults, ForexResults

LEMMA RefuseStep ==
    ASSUME NEW caller \in Callers \cup {Anonymous}, NEW raw \in Requests, NEW cycles,
           Refuse(caller, raw, cycles)
    PROVE  AnswersAtOnce
<1>1. raw \in Request(DOMAIN CleanSymbol)
  BY RequestsAssumption
<1>2. ASSUME NEW result \in {"AnonymousPrincipalNotAllowed", "NotEnoughCycles"}
      PROVE  Reply(caller, raw, 0, 0, result) \in ReplyType
  BY <1>1, ReplyTyped DEF Results
<1>3. QED
  BY <1>2 DEF Refuse, Answer, AnswersAtOnce, Bounded

LEMMA AnswerFiatPairStep ==
    ASSUME NEW caller \in Callers \cup {Anonymous}, NEW raw \in Requests, NEW cycles,
           AnswerFiatPair(caller, raw, cycles)
    PROVE  AnswersAtOnce
<1>1. Sanitized(raw) \in Request(Symbols)
  BY SanitizedType
<1>2. ASSUME NEW fee \in Nat, NEW result \in Results
      PROVE  Reply(caller, Sanitized(raw), 0, fee, result) \in ReplyType
  BY <1>1, ReplyTyped
<1>3. \A t : Validation(caller, Sanitized(raw), t, 0) \in Results
  BY ValidationType
<1>4. \A result : Fee(caller, result = "Ok", 0) \in Nat
  BY DEF Fee, XRC_BASE_CYCLES_COST, XRC_OUTBOUND_HTTP_CALL_CYCLES_COST, XRC_MINIMUM_FEE_COST
<1>5. FiatPairForexResults \cup ComposedResults \subseteq Results
  BY DEF Results
<1>6. reply' \in ReplyType
  BY <1>2, <1>3, <1>4, <1>5 DEF AnswerFiatPair, Answer
<1>7. QED
  BY <1>6 DEF AnswerFiatPair, Answer, AnswersAtOnce, Bounded

LEMMA LookedFields ==
    ASSUME NEW caller, NEW request
    PROVE  /\ Looked(caller, request).caller = caller
           /\ Looked(caller, request).request = request
           /\ Looked(caller, request).timestamp = RequestedTimestamp(Handled(request))
           /\ Looked(caller, request).phase = "running"
  BY DEF Looked

(* The stablecoins to fetch are among the rates that are needed. *)
LEMMA LookedNeeds ==
    ASSUME NEW caller, NEW request
    PROVE  Cardinality(Looked(caller, request).missed) <= Looked(caller, request).need
<1> DEFINE call == Looked(caller, request)
<1>1. call.missed \in SUBSET Stablecoins
  BY DEF Looked
<1>2. call.need = (IF call.base = NoRate THEN 1 ELSE 0)
                  + (IF IsCryptoPair(Handled(request)) /\ call.quote = NoRate THEN 1 ELSE 0)
                  + Cardinality(call.missed)
  BY DEF Looked
<1> HIDE DEF call
<1>3. Cardinality(call.missed) \in 0..2
  BY <1>1, StablecoinsCount
<1> QED
  BY <1>2, <1>3 DEF call

LEMMA RejectInvalidStep ==
    ASSUME TypeOK, NEW caller \in Callers \cup {Anonymous}, NEW raw \in Requests, NEW cycles,
           RejectInvalid(caller, raw, cycles)
    PROVE  AnswersAtOnce
<1> DEFINE call == Looked(caller, Sanitized(raw))
<1>1. caller \in Callers
  BY AdmittedCallers DEF RejectInvalid
<1>2. call \in Call
  BY <1>1, SanitizedType, LookedType DEF TypeOK
<1> HIDE DEF call
<1>3. call.request \in Request(Symbols) /\ call.need \in 0..3
  BY <1>2 DEF Call
<1>4. LookedValidation(call) \in Results
  BY ValidationType DEF LookedValidation
<1>5. ForexResultsFor(raw) \subseteq Results
  BY DEF ForexResultsFor, ForexResults, Results, FiatPairForexResults
<1>6. \A error \in Results : Reported(call.request, error) \in Results
  BY ReportedType
<1>7. Fee(caller, FALSE, call.need) \in Nat
  BY <1>3, FeeType
<1>8. reply' \in ReplyType
  <2>1. PICK forex \in ForexResultsFor(raw) :
           reply' = Reply(caller, call.request, call.need, Fee(caller, FALSE, call.need),
                          Reported(call.request,
                                   IF LookedValidation(call) # "Ok"
                                   THEN LookedValidation(call) ELSE forex))
    BY DEF RejectInvalid, Answer, call
  <2>2. QED
    BY <1>3, <1>4, <1>5, <1>6, <1>7, <2>1, ReplyTyped
<1>9. cache' = CacheAfterLookups(Handled(call.request), call.timestamp)
  BY DEF RejectInvalid, call
<1>10. \A E : Bounded(cache, E) => Bounded(cache', E)
  BY <1>9, LookupsKeepEntries DEF Bounded
<1>11. OneEntryPerKey(cache) => OneEntryPerKey(cache')
  BY <1>9, LookupsKeepKeys DEF TypeOK
<1>12. QED
  BY <1>8, <1>10, <1>11 DEF RejectInvalid, Answer, AnswersAtOnce

LEMMA AnswerFromCacheStep ==
    ASSUME TypeOK, NEW caller \in Callers \cup {Anonymous}, NEW raw \in Requests, NEW cycles,
           AnswerFromCache(caller, raw, cycles)
    PROVE  AnswersAtOnce
<1> DEFINE call == Looked(caller, Sanitized(raw))
<1>1. caller \in Callers
  BY AdmittedCallers DEF AnswerFromCache
<1>2. call \in Call
  BY <1>1, SanitizedType, LookedType DEF TypeOK
<1> HIDE DEF call
<1>3. call.request \in Request(Symbols)
  BY <1>2 DEF Call
<1>4. Fee(caller, TRUE, 0) \in Nat
  BY DEF Fee, XRC_BASE_CYCLES_COST, XRC_OUTBOUND_HTTP_CALL_CYCLES_COST, XRC_MINIMUM_FEE_COST
<1>5. PICK combined \in Combine(call) :
         reply' = Reply(caller, call.request, 0, Fee(caller, TRUE, 0), combined.result)
  BY DEF AnswerFromCache, Answer, call
<1>6. combined.result \in Results
  BY <1>2, <1>5, CombineReturns
<1>7. reply' \in ReplyType
  <2>1. 0 \in 0..3
    OBVIOUS
  <2>2. QED
    BY <1>3, <1>4, <1>5, <1>6, <2>1, ReplyTyped
<1>8. cache' = CacheAfterLookups(Handled(call.request), call.timestamp)
  BY DEF AnswerFromCache, call
<1>9. \A E : Bounded(cache, E) => Bounded(cache', E)
  BY <1>8, LookupsKeepEntries DEF Bounded
<1>10. OneEntryPerKey(cache) => OneEntryPerKey(cache')
  BY <1>8, LookupsKeepKeys DEF TypeOK
<1>11. QED
  BY <1>7, <1>9, <1>10 DEF AnswerFromCache, Answer, AnswersAtOnce

LEMMA StartFetchingStep ==
    ASSUME TypeOK, NEW c \in Calls, NEW caller \in Callers \cup {Anonymous},
           NEW raw \in Requests, NEW cycles,
           StartFetching(c, caller, raw, cycles)
    PROVE  /\ Starts(c) /\ now' = now
           /\ \A E : Bounded(cache, E) => Bounded(cache', E)
           /\ OneEntryPerKey(cache) => OneEntryPerKey(cache')
<1> DEFINE looked == Looked(caller, Sanitized(raw))
           call == [looked EXCEPT !.fee = Fee(caller, TRUE, looked.need)]
<1>1. caller \in Callers
  BY AdmittedCallers DEF StartFetching
<1>2. /\ looked \in Call /\ looked.request = Sanitized(raw) /\ looked.caller = caller
      /\ looked.phase = "running"
      /\ looked.timestamp = RequestedTimestamp(Handled(looked.request))
  BY <1>1, SanitizedType, LookedType, LookedFields DEF TypeOK
<1>3. ~IsFiatPair(looked.request)
  BY <1>2, SanitizedType DEF StartFetching
<1>4. /\ ~IsActive(c)
      /\ LookedValidation(looked) = "Ok" /\ looked.need > 0
      /\ \E next \in FetchStablecoins(call) :
            Proceed(c, next, inflight \cup Keys(call), counter + Reserved(call))
      /\ cache' = CacheAfterLookups(Handled(call.request), call.timestamp)
  BY DEF StartFetching
<1>4a. Cardinality(looked.missed) <= looked.need
  BY LookedNeeds
<1> HIDE DEF looked
<1>5. Fee(caller, TRUE, looked.need) \in Nat
  BY <1>2, FeeType DEF Call
<1>6. /\ call \in Call
      /\ call.caller = looked.caller /\ call.request = looked.request
      /\ call.timestamp = looked.timestamp /\ call.need = looked.need
      /\ call.missed = looked.missed /\ call.phase = looked.phase
      /\ call.fee = Fee(call.caller, TRUE, call.need)
  BY <1>2, <1>5 DEF Call
<1> HIDE DEF call
<1>7. LookedValidation(call) = "Ok"
  BY <1>4, <1>6 DEF LookedValidation
<1>8. Starts(c)
  BY <1>2, <1>3, <1>4, <1>6, <1>7, <1>4a, FetchStablecoinsContinues DEF Starts
<1>9. \A E : Bounded(cache, E) => Bounded(cache', E)
  BY <1>4, LookupsKeepEntries DEF Bounded
<1>10. OneEntryPerKey(cache) => OneEntryPerKey(cache')
  BY <1>4, LookupsKeepKeys DEF TypeOK
<1>11. QED
  BY <1>8, <1>9, <1>10 DEF StartFetching

-----------------------------------------------------------------------------
(* The kinds of step, as far as the theorems need to tell them apart. *)

LEMMA StepKinds ==
    ASSUME TypeOK, [Next]_vars
    PROVE  /\ \/ AnswersAtOnce
              \/ /\ \E c \in Calls : Starts(c)
                 /\ now' = now
                 /\ \A E : Bounded(cache, E) => Bounded(cache', E)
              \/ \E c \in Calls :
                    /\ Resumes(c)
                    /\ now' = now
                    /\ \A E : Bounded(cache, E) /\ Cacheable(E, Arriving(calls[c]))
                                  => Bounded(cache', E)
              \/ Upgrade
              \/ Tick
              \/ UNCHANGED vars
           /\ OneEntryPerKey(cache) => OneEntryPerKey(cache')
<1>1. CASE Arrival
  <2>1. PICK caller \in Callers \cup {Anonymous}, raw \in Requests, cycles \in CyclesAttached :
           \/ Refuse(caller, raw, cycles)
           \/ AnswerFiatPair(caller, raw, cycles)
           \/ RejectInvalid(caller, raw, cycles)
           \/ AnswerFromCache(caller, raw, cycles)
           \/ \E c \in Calls : StartFetching(c, caller, raw, cycles)
    BY <1>1 DEF Arrival
  <2>2. CASE \E c \in Calls : StartFetching(c, caller, raw, cycles)
    BY <2>2, StartFetchingStep
  <2>3. QED
    BY <2>1, <2>2, RefuseStep, AnswerFiatPairStep, RejectInvalidStep, AnswerFromCacheStep
       DEF AnswersAtOnce
<1>2. ASSUME NEW c \in Calls, Response(c)
      PROVE  /\ Resumes(c)
             /\ now' = now
             /\ \A E : Bounded(cache, E) /\ Cacheable(E, Arriving(calls[c]))
                           => Bounded(cache', E)
             /\ OneEntryPerKey(cache) => OneEntryPerKey(cache')
  BY <1>2, StablecoinResponseStep, BaseResponseStep, QuoteResponseStep DEF Response
<1>3. ASSUME NEW c \in Calls, Trap(c)
      PROVE  /\ Resumes(c)
             /\ now' = now
             /\ \A E : Bounded(cache, E) => Bounded(cache', E)
             /\ OneEntryPerKey(cache) => OneEntryPerKey(cache')
  BY <1>3, TrapStep DEF Bounded
<1>4. CASE Upgrade
  BY <1>4 DEF Upgrade, OneEntryPerKey
<1>5. CASE Tick
  BY <1>5 DEF Tick
<1>6. CASE UNCHANGED vars
  BY <1>6 DEF vars
<1>7. QED
  BY <1>1, <1>2, <1>3, <1>4, <1>5, <1>6 DEF Next

(* What a step of a call leaves of its slot and its guards. *)
LEMMA ProceedStep ==
    ASSUME TypeOK, NEW c \in Calls, NEW call \in Call, NEW next \in Continuations(call),
           NEW held, NEW reserved, Proceed(c, next, held, reserved)
    PROVE  \/ /\ calls' = [calls EXCEPT ![c] = next]
              /\ next \in Call /\ next.phase \in {"stablecoins", "base", "quote"}
              /\ inflight' = held /\ counter' = reserved /\ reply' = NoReply
           \/ /\ calls' = [calls EXCEPT ![c] = Idle]
              /\ inflight' = held \ Keys(call)
              /\ counter' = Minus(reserved, Reserved(call))
              /\ reply' \in ReplyType
<1>1. next \in Call /\ Keys(next) = Keys(call) /\ Reserved(next) = Reserved(call)
  BY GuardsKept DEF Continuations
<1>2. CASE next.phase # "returned"
  <2>1. next.phase \in {"stablecoins", "base", "quote"}
    BY <1>2 DEF Continuations, Call
  <2>2. QED
    BY <1>1, <1>2, <2>1 DEF Proceed
<1>3. CASE next.phase = "returned"
  <2>1. /\ next.caller \in Callers \cup {Anonymous} /\ next.request \in Request(Symbols)
        /\ next.need \in 0..3 /\ next.fee \in Nat /\ next.result \in Results
    BY <1>3, ResultType DEF Continuations, Call
  <2>2. Reply(next.caller, next.request, next.need, next.fee, next.result) \in ReplyType
    BY <2>1, ReplyTyped
  <2>3. QED
    BY <1>1, <1>3, <2>2 DEF Proceed
<1>4. QED
  BY <1>2, <1>3

LEMMA ProceedTyped ==
    ASSUME TypeOK, NEW c \in Calls, NEW call \in Call, NEW next \in Continuations(call),
           NEW held \in SUBSET (Symbols \X Nat), NEW reserved \in Nat,
           Proceed(c, next, held, reserved)
    PROVE  /\ calls' \in [Calls -> Call \cup {Idle}]
           /\ \A d \in Calls : calls'[d].phase \in {"idle", "stablecoins", "base", "quote"}
           /\ inflight' \subseteq Symbols \X Nat
           /\ counter' \in Nat
           /\ reply' \in ReplyType \cup {NoReply}
<1>1. \A new \in Call \cup {Idle} :
          new.phase \in {"idle", "stablecoins", "base", "quote"} =>
              /\ [calls EXCEPT ![c] = new] \in [Calls -> Call \cup {Idle}]
              /\ \A d \in Calls :
                    [calls EXCEPT ![c] = new][d].phase \in {"idle", "stablecoins", "base", "quote"}
  BY DEF TypeOK
<1>2. Idle.phase = "idle"
  BY DEF Idle
<1>3. Minus(reserved, Reserved(call)) \in Nat
  BY ReservedType, TimeType
<1>4. QED
  BY <1>1, <1>2, <1>3, ProceedStep

-----------------------------------------------------------------------------
(* The theorems. *)

LEMMA TypeInit == Init => TypeOK
<1> SUFFICES ASSUME Init PROVE TypeOK
  OBVIOUS
<1>1. cache \in Seq(CacheEntry) /\ Len(cache) <= Capacity
  BY CapacityAssumption DEF Init
<1>2. QED
  BY <1>1, ClockAssumption DEF Init, TypeOK, Idle

LEMMA TypeStep == TypeOK /\ [Next]_vars => TypeOK'
<1> SUFFICES ASSUME TypeOK, [Next]_vars PROVE TypeOK'
  OBVIOUS
<1>1. Bounded(cache, CacheEntry)
  BY DEF TypeOK, Bounded
<1>2. CASE AnswersAtOnce
  <2>1. Bounded(cache', CacheEntry)
    BY <1>1, <1>2 DEF AnswersAtOnce
  <2>2. QED
    BY <1>2, <2>1 DEF AnswersAtOnce, TypeOK, Bounded
<1>3. ASSUME NEW c \in Calls, Starts(c), now' = now, Bounded(cache', CacheEntry)
      PROVE  TypeOK'
  <2>1. PICK call \in Call : \E next \in Continuations(call) :
           Proceed(c, next, inflight \cup Keys(call), counter + Reserved(call))
    BY <1>3 DEF Starts
  <2>2. inflight \cup Keys(call) \in SUBSET (Symbols \X Nat) /\ counter + Reserved(call) \in Nat
    BY KeysType, ReservedType DEF TypeOK
  <2>3. QED
    BY <1>3, <2>1, <2>2, ProceedTyped DEF TypeOK, Bounded
<1>4. ASSUME NEW c \in Calls, Resumes(c), now' = now,
             Cacheable(CacheEntry, Arriving(calls[c])) => Bounded(cache', CacheEntry)
      PROVE  TypeOK'
  <2>1. calls[c] \in Call
    BY <1>4, ActiveCall DEF Resumes
  <2>2. Cacheable(CacheEntry, Arriving(calls[c]))
    BY <2>1, EntriesCacheable
  <2>3. inflight \in SUBSET (Symbols \X Nat) /\ counter \in Nat
    BY DEF TypeOK
  <2>4. QED
    BY <1>4, <2>1, <2>2, <2>3, ProceedTyped DEF Resumes, Resume, TypeOK, Bounded
<1>5. CASE Upgrade
  BY <1>5, CapacityAssumption DEF Upgrade, TypeOK
<1>6. CASE Tick
  BY <1>6, ClockAssumption DEF Tick, TypeOK
<1>7. CASE UNCHANGED vars
  BY <1>7 DEF vars, TypeOK
<1>8. QED
  BY <1>1, <1>2, <1>3, <1>4, <1>5, <1>6, <1>7, StepKinds

(* Every state the canister can reach is well typed: the cache in          *)
(* particular never outgrows MAX_CACHE_SIZE, whatever is fetched.          *)
THEOREM TypeCorrect == Spec => []TypeOK
<1>1. Init => TypeOK
  BY TypeInit
<1>2. TypeOK /\ [Next]_vars => TypeOK'
  BY TypeStep
<1>3. QED
  BY <1>1, <1>2, PTL DEF Spec

LEMMA HeldStep == TypeOK /\ InflightHeld /\ [Next]_vars => InflightHeld'
<1> SUFFICES ASSUME TypeOK, InflightHeld, [Next]_vars,
                    NEW key \in inflight'
             PROVE  \E d \in Calls : IsActive(d)' /\ key \in Keys(calls'[d])
  BY DEF InflightHeld, Active
<1>1. key \in inflight => \E d \in Calls : IsActive(d) /\ key \in Keys(calls[d])
  BY DEF InflightHeld, Active
<1>2. CASE UNCHANGED <<calls, inflight>>
  BY <1>1, <1>2 DEF IsActive
<1>3. ASSUME NEW c \in Calls, NEW call \in Call, NEW next \in Continuations(call),
             NEW held, NEW reserved, Proceed(c, next, held, reserved),
             held \subseteq inflight \cup Keys(call),
             IsActive(c) => calls[c] = call
      PROVE  \E d \in Calls : IsActive(d)' /\ key \in Keys(calls'[d])
  <2>1. CASE key \in Keys(call)
    <3>1. calls' = [calls EXCEPT ![c] = next] /\ next.phase # "idle"
      BY <1>3, <2>1, ProceedStep
    <3>2. calls'[c] = next
      BY <3>1 DEF TypeOK
    <3>3. Keys(next) = Keys(call)
      BY <1>3, GuardsKept
    <3>4. QED
      BY <2>1, <3>1, <3>2, <3>3 DEF IsActive
  <2>2. CASE key \notin Keys(call)
    <3>1. key \in inflight
      BY <1>3, <2>2, ProceedStep
    <3>2. PICK d \in Calls : IsActive(d) /\ key \in Keys(calls[d])
      BY <1>1, <3>1
    <3>3. d # c
      BY <1>3, <2>2, <3>2
    <3>4. calls'[d] = calls[d]
      BY <1>3, <3>3, ProceedStep DEF TypeOK
    <3>5. QED
      BY <3>2, <3>4 DEF IsActive
  <2>3. QED
    BY <2>1, <2>2
<1>4. ASSUME NEW c \in Calls, Starts(c)
      PROVE  \E d \in Calls : IsActive(d)' /\ key \in Keys(calls'[d])
  BY <1>3, <1>4 DEF Starts
<1>5. ASSUME NEW c \in Calls, Resumes(c)
      PROVE  \E d \in Calls : IsActive(d)' /\ key \in Keys(calls'[d])
  BY <1>3, <1>5, ActiveCall DEF Resumes, Resume
<1>6. CASE Upgrade
  BY <1>6 DEF Upgrade
<1>7. QED
  BY <1>2, <1>4, <1>5, <1>6, StepKinds DEF AnswersAtOnce, Tick, vars

(* No key is leaked, however many calls overlap, privileged or not. *)
THEOREM NoKeyLeaks == Spec => []InflightHeld
<1>1. Init => InflightHeld
  BY DEF Init, InflightHeld
<1>2. TypeOK /\ InflightHeld /\ [Next]_vars => InflightHeld'
  BY HeldStep
<1>3. QED
  BY <1>1, <1>2, TypeCorrect, PTL DEF Spec

(* A call admitted for an ordinary caller has none of its keys in flight.  *)
LEMMA AdmittedKeysFree ==
    ASSUME NEW call \in Call, LookedValidation(call) = "Ok",
           ~IsFiatPair(call.request), PrivilegedCallers = {}
    PROVE  Keys(call) \cap inflight = {}
<1> DEFINE handled == Handled(call.request)
<1>1. call.request \in Request(Symbols) /\ handled \in Request(Symbols)
  BY HandledType DEF Call
<1>2. handled.base.class = Crypto /\ (IsCryptoPair(handled) => handled.quote.class = Crypto)
  BY <1>1 DEF Handled, IsFiatPair, IsFiatCryptoPair, IsCryptoPair, Request, Asset
<1>3. OrdinaryValidation(handled, call.timestamp, call.need) = "Ok"
  BY DEF LookedValidation, Validation
<1> HIDE DEF handled
<1>4. \A asset \in {handled.base, handled.quote} :
         ~(asset.class = Crypto /\ IsInflight(asset.symbol, call.timestamp))
  BY <1>3 DEF OrdinaryValidation
<1>5. /\ ~IsInflight(handled.base.symbol, call.timestamp)
      /\ IsCryptoPair(handled) => ~IsInflight(handled.quote.symbol, call.timestamp)
  BY <1>2, <1>4
<1>6. QED
  BY <1>5 DEF Keys, IsInflight, handled

(* The in-flight set names everything a waiting call tracks, from its      *)
(* first await to its last.                                                *)
InflightComplete ==
    PrivilegedCallers = {} => \A c \in Active : Keys(calls[c]) \subseteq inflight

(* No two waiting calls track the same key. *)
KeysDisjoint ==
    PrivilegedCallers = {} =>
        \A c, d \in Active : c # d => Keys(calls[c]) \cap Keys(calls[d]) = {}

(* Neither of the two is inductive alone: completeness is what keeps a     *)
(* second call for a key out, and disjointness is what keeps a call that   *)
(* returns from taking a key of another out of the set.                    *)
Disjointness == InflightComplete /\ KeysDisjoint

LEMMA DisjointnessStep == TypeOK /\ Disjointness /\ [Next]_vars => Disjointness'
<1> SUFFICES ASSUME TypeOK, Disjointness, [Next]_vars, PrivilegedCallers = {}
             PROVE  /\ \A d \in Calls : IsActive(d)' => Keys(calls'[d]) \subseteq inflight'
                    /\ \A d, e \in Calls : IsActive(d)' /\ IsActive(e)' /\ d # e =>
                           Keys(calls'[d]) \cap Keys(calls'[e]) = {}
  BY DEF Disjointness, InflightComplete, KeysDisjoint, Active
<1> DEFINE Goal == /\ \A d \in Calls : IsActive(d)' => Keys(calls'[d]) \subseteq inflight'
                   /\ \A d, e \in Calls : IsActive(d)' /\ IsActive(e)' /\ d # e =>
                          Keys(calls'[d]) \cap Keys(calls'[e]) = {}
<1>1. /\ \A d \in Calls : IsActive(d) => Keys(calls[d]) \subseteq inflight
      /\ \A d, e \in Calls : IsActive(d) /\ IsActive(e) /\ d # e =>
             Keys(calls[d]) \cap Keys(calls[e]) = {}
  BY DEF Disjointness, InflightComplete, KeysDisjoint, Active
<1>2. CASE UNCHANGED <<calls, inflight>>
  BY <1>1, <1>2 DEF IsActive
<1>3. ASSUME NEW c \in Calls, NEW call \in Call, NEW next \in Continuations(call),
             NEW reserved, Proceed(c, next, inflight \cup Keys(call), reserved),
             \A d \in Calls : IsActive(d) /\ d # c => Keys(calls[d]) \cap Keys(call) = {}
      PROVE  Goal
  <2>1. Keys(next) = Keys(call)
    BY <1>3, GuardsKept
  <2>2. \A d \in Calls : d # c => calls'[d] = calls[d]
    BY <1>3, ProceedStep DEF TypeOK
  <2>3. CASE calls' = [calls EXCEPT ![c] = next] /\ inflight' = inflight \cup Keys(call)
    <3>1. calls'[c] = next
      BY <2>3 DEF TypeOK
    <3>2. QED
      BY <1>1, <1>3, <2>1, <2>2, <2>3, <3>1 DEF IsActive
  <2>4. CASE calls' = [calls EXCEPT ![c] = Idle]
             /\ inflight' = (inflight \cup Keys(call)) \ Keys(call)
    <3>1. ~IsActive(c)'
      BY <2>4 DEF TypeOK, IsActive, Idle
    <3>2. QED
      BY <1>1, <1>3, <2>2, <2>4, <3>1 DEF IsActive
  <2>5. QED
    BY <1>3, <2>3, <2>4, ProceedStep
<1>4. ASSUME NEW c \in Calls, Starts(c)
      PROVE  Goal
  <2>1. PICK call \in Call :
           /\ LookedValidation(call) = "Ok" /\ ~IsFiatPair(call.request)
           /\ \E next \in Continuations(call) :
                 Proceed(c, next, inflight \cup Keys(call), counter + Reserved(call))
    BY <1>4 DEF Starts
  <2>2. Keys(call) \cap inflight = {}
    BY <2>1, AdmittedKeysFree
  <2>3. \A d \in Calls : IsActive(d) /\ d # c => Keys(calls[d]) \cap Keys(call) = {}
    BY <1>1, <2>2
  <2> HIDE DEF Goal
  <2>4. QED
    BY <1>3, <2>1, <2>3
<1>5. ASSUME NEW c \in Calls, Resumes(c)
      PROVE  Goal
  <2>1. IsActive(c) /\ calls[c] \in Call
    BY <1>5, ActiveCall DEF Resumes
  <2>2. inflight \cup Keys(calls[c]) = inflight
    BY <1>1, <2>1
  <2>3. \A d \in Calls : IsActive(d) /\ d # c => Keys(calls[d]) \cap Keys(calls[c]) = {}
    BY <1>1, <2>1
  <2>4. \E next \in Continuations(calls[c]) : Proceed(c, next, inflight \cup Keys(calls[c]), counter)
    BY <1>5, <2>2 DEF Resumes, Resume
  <2> HIDE DEF Goal
  <2>5. QED
    BY <1>3, <2>1, <2>3, <2>4
<1>6. CASE Upgrade
  BY <1>6 DEF Upgrade, IsActive
<1>7. QED
  BY <1>2, <1>4, <1>5, <1>6, StepKinds DEF AnswersAtOnce, Tick, vars

LEMMA DisjointnessInvariant == Spec => []Disjointness
<1>1. Init => Disjointness
  BY DEF Init, Disjointness, InflightComplete, KeysDisjoint, Active, IsActive, Idle
<1>2. TypeOK /\ Disjointness /\ [Next]_vars => Disjointness'
  BY DisjointnessStep
<1>3. QED
  BY <1>1, <1>2, TypeCorrect, PTL DEF Spec

(* What a step of a call is to the locks: it takes its keys, gives them    *)
(* back, or, when it starts and returns at once, touches none.             *)
LEMMA KeysHeldStep ==
    ASSUME TypeOK, NEW c \in Calls, NEW next,
           calls' = [calls EXCEPT ![c] = next]
    PROVE  /\ KeysHeld' = [KeysHeld EXCEPT ![c] = HeldBy(next)]
           /\ KeysHeld[c] = HeldBy(calls[c]) /\ KeysHeld'[c] = HeldBy(next)
<1>1. \A d \in Calls : calls'[d] = IF d = c THEN next ELSE calls[d]
  BY DEF TypeOK
<1>2. KeysHeld' = [d \in Calls |-> HeldBy(calls'[d])]
  BY DEF KeysHeld
<1>3. KeysHeld' = [d \in Calls |-> IF d = c THEN HeldBy(next) ELSE HeldBy(calls[d])]
  BY <1>1, <1>2
<1>4. QED
  BY <1>3 DEF KeysHeld

LEMMA KeysNonempty ==
    ASSUME NEW call \in Call
    PROVE  Keys(call) # {}
<1>1. <<Handled(call.request).base.symbol, call.timestamp>> \in Keys(call)
  BY DEF Keys
<1>2. QED
  BY <1>1

LEMMA StartLocks ==
    ASSUME TypeOK, PrivilegedCallers = {}, NEW c \in Calls, Starts(c)
    PROVE  Locks!Acquire(c) \/ UNCHANGED Locks!vars
<1>1. PICK call \in Call :
         /\ LookedValidation(call) = "Ok" /\ ~IsFiatPair(call.request)
         /\ \E next \in Continuations(call) :
               Proceed(c, next, inflight \cup Keys(call), counter + Reserved(call))
  BY DEF Starts
<1>2. PICK next \in Continuations(call) :
         Proceed(c, next, inflight \cup Keys(call), counter + Reserved(call))
  BY <1>1
<1>3. Keys(call) \cap inflight = {}
  BY <1>1, AdmittedKeysFree
<1>4. ~IsActive(c)
  BY DEF Starts
<1>5. CASE /\ calls' = [calls EXCEPT ![c] = next] /\ next \in Call
           /\ next.phase \in {"stablecoins", "base", "quote"}
           /\ inflight' = inflight \cup Keys(call)
  <2>1. Keys(next) = Keys(call)
    BY GuardsKept
  <2>2. Keys(next) # {} /\ Keys(next) \in SUBSET (Symbols \X Nat)
    BY <1>5, KeysNonempty, KeysType
  <2>3. /\ KeysHeld[c] = {} /\ KeysHeld'[c] = Keys(next)
        /\ KeysHeld' = [KeysHeld EXCEPT ![c] = Keys(next)]
    <3>1. HeldBy(calls[c]) = {} /\ HeldBy(next) = Keys(next)
      BY <1>4, <1>5 DEF HeldBy, IsActive
    <3>2. QED
      BY <1>5, <3>1, KeysHeldStep
  <2>4. Locks!Acquire(c)
    BY <1>3, <1>5, <2>1, <2>2, <2>3 DEF Locks!Acquire
  <2>5. QED
    BY <2>4
<1>6. CASE /\ calls' = [calls EXCEPT ![c] = Idle]
           /\ inflight' = (inflight \cup Keys(call)) \ Keys(call)
  <2>1. inflight' = inflight
    BY <1>3, <1>6
  <2>2. calls' = calls
    BY <1>4, <1>6 DEF TypeOK, IsActive, Idle, Call
  <2>3. QED
    BY <2>1, <2>2 DEF Locks!vars, KeysHeld, HeldBy, IsActive
<1>7. QED
  BY <1>2, <1>5, <1>6, ProceedStep

LEMMA ResumeLocks ==
    ASSUME TypeOK, Disjointness, PrivilegedCallers = {}, NEW c \in Calls, Resumes(c)
    PROVE  Locks!Release(c) \/ UNCHANGED Locks!vars
<1>1. IsActive(c) /\ calls[c] \in Call
  BY ActiveCall DEF Resumes
<1>2. PICK next \in Continuations(calls[c]) : Proceed(c, next, inflight, counter)
  BY DEF Resumes, Resume
<1>3. CASE /\ calls' = [calls EXCEPT ![c] = next] /\ next \in Call
           /\ next.phase \in {"stablecoins", "base", "quote"} /\ inflight' = inflight
  <2>1. Keys(next) = Keys(calls[c]) /\ next.phase # "idle"
    BY <1>3, GuardsKept
  <2>2. HeldBy(next) = HeldBy(calls[c])
    BY <1>1, <2>1 DEF HeldBy, IsActive
  <2>3. KeysHeld' = [KeysHeld EXCEPT ![c] = HeldBy(next)]
    BY <1>3, KeysHeldStep
  <2>4. KeysHeld' = KeysHeld
    BY <2>2, <2>3 DEF KeysHeld
  <2>5. QED
    BY <1>3, <2>4 DEF Locks!vars
<1>4. CASE calls' = [calls EXCEPT ![c] = Idle] /\ inflight' = inflight \ Keys(calls[c])
  <2>1. KeysHeld[c] = Keys(calls[c]) /\ KeysHeld' = [KeysHeld EXCEPT ![c] = {}]
    <3>1. HeldBy(calls[c]) = Keys(calls[c]) /\ HeldBy(Idle) = {}
      BY <1>1 DEF HeldBy, IsActive, Idle
    <3>2. QED
      BY <1>4, <3>1, KeysHeldStep
  <2>2. KeysHeld[c] # {}
    BY <1>1, <2>1, KeysNonempty
  <2>3. QED
    BY <1>4, <2>1, <2>2 DEF Locks!Release
<1>5. QED
  BY <1>1, <1>2, <1>3, <1>4, ProceedStep

(* The canister is upgraded only once its calls have returned, and then no *)
(* key is left to give back.                                               *)
LEMMA UpgradeLocks ==
    ASSUME InflightHeld, Upgrade
    PROVE  UNCHANGED Locks!vars
<1>1. \A c \in Calls : ~IsActive(c)
  BY DEF Upgrade
<1>2. inflight = {}
  BY <1>1 DEF InflightHeld, Active
<1>3. QED
  BY <1>1, <1>2 DEF Upgrade, Locks!vars, KeysHeld, IsActive

LEMMA LocksStep ==
    ASSUME TypeOK, Disjointness, InflightHeld, [Next]_vars, PrivilegedCallers = {}
    PROVE  [Locks!Next]_(Locks!vars)
<1>1. CASE UNCHANGED <<calls, inflight>>
  BY <1>1 DEF Locks!vars, KeysHeld, HeldBy, IsActive
<1>2. CASE \E c \in Calls : Starts(c)
  BY <1>2, StartLocks DEF Locks!Next
<1>3. CASE \E c \in Calls : Resumes(c)
  BY <1>3, ResumeLocks DEF Locks!Next
<1>4. CASE Upgrade
  BY <1>4, UpgradeLocks
<1>5. QED
  BY <1>1, <1>2, <1>3, <1>4, StepKinds DEF AnswersAtOnce, Tick, vars

(* Without privileged callers in-flight tracking implements one lock per   *)
(* asset and minute, for every number of calls and every request.          *)
THEOREM TrackingImplementsKeyLocks ==
    ASSUME PrivilegedCallers = {}
    PROVE  Spec => ImplementsKeyLocks
<1>1. Init => Locks!Init
  BY DEF Init, Locks!Init, KeysHeld, HeldBy, Idle
<1>2. TypeOK /\ Disjointness /\ InflightHeld /\ [Next]_vars => [Locks!Next]_(Locks!vars)
  BY LocksStep
<1>3. QED
  BY <1>1, <1>2, TypeCorrect, DisjointnessInvariant, NoKeyLeaks, PTL
     DEF Spec, ImplementsKeyLocks, Locks!Spec

(* The minute a waiting call fetches has come: it is what makes the cached *)
(* rates those of minutes that have come.                                  *)
MinutesCome == \A c \in Calls : IsActive(c) => calls[c].timestamp <= now

SoundEntries(time) ==
    {e \in CacheEntry : e.timestamp <= time /\ e.rates > 0 /\ e.symbol # USDT}

CacheInv == MinutesCome /\ Bounded(cache, SoundEntries(now)) /\ OneEntryPerKey(cache)

LEMMA MinutesComeStep == TypeOK /\ MinutesCome /\ [Next]_vars => MinutesCome'
<1> SUFFICES ASSUME TypeOK, MinutesCome, [Next]_vars PROVE MinutesCome'
  OBVIOUS
<1>1. \A d \in Calls : IsActive(d) => calls[d].timestamp <= now
  BY DEF MinutesCome
<1>2. CASE UNCHANGED <<calls, now>>
  BY <1>1, <1>2 DEF IsActive, MinutesCome
<1>3. ASSUME NEW c \in Calls, NEW call \in Call, NEW next \in Continuations(call),
             NEW held, NEW reserved, Proceed(c, next, held, reserved),
             now' = now, call.timestamp <= now
      PROVE  MinutesCome'
  <2>1. next.timestamp = call.timestamp
    BY DEF Continuations, SameWork
  <2>2. \A d \in Calls : d # c => calls'[d] = calls[d]
    BY <1>3, ProceedStep DEF TypeOK
  <2>3. calls'[c] = next \/ ~IsActive(c)'
    BY <1>3, ProceedStep DEF TypeOK, IsActive, Idle
  <2>4. QED
    BY <1>1, <1>3, <2>1, <2>2, <2>3 DEF MinutesCome, IsActive
<1>4. ASSUME NEW c \in Calls, Starts(c), now' = now
      PROVE  MinutesCome'
  <2>1. PICK call \in Call :
           /\ LookedValidation(call) = "Ok"
           /\ \E next \in Continuations(call) :
                 Proceed(c, next, inflight \cup Keys(call), counter + Reserved(call))
    BY <1>4 DEF Starts
  <2>2. ~(call.timestamp > now)
    BY <2>1 DEF LookedValidation, Validation
  <2>3. call.timestamp <= now
    BY <2>1, <2>2 DEF Call, TypeOK
  <2>4. QED
    BY <1>3, <1>4, <2>1, <2>3
<1>5. ASSUME NEW c \in Calls, Resumes(c), now' = now
      PROVE  MinutesCome'
  BY <1>1, <1>3, <1>5, ActiveCall DEF Resumes, Resume
<1>6. CASE Upgrade
  BY <1>6 DEF Upgrade, MinutesCome, IsActive
<1>7. CASE Tick
  <2>1. now <= now' /\ now' \in Nat /\ calls' = calls
    BY <1>7, ClockAssumption DEF Tick, TypeOK
  <2>2. \A d \in Calls : IsActive(d) => calls[d].timestamp \in Nat
    BY ActiveCall DEF Call
  <2>3. QED
    BY <1>1, <2>1, <2>2 DEF MinutesCome, IsActive, TypeOK
<1>8. QED
  BY <1>2, <1>4, <1>5, <1>6, <1>7, StepKinds DEF AnswersAtOnce, vars

LEMMA CacheStep == TypeOK /\ CacheInv /\ [Next]_vars => CacheInv'
<1> SUFFICES ASSUME TypeOK, CacheInv, [Next]_vars PROVE CacheInv'
  OBVIOUS
<1>1. MinutesCome'
  BY MinutesComeStep DEF CacheInv
<1>2. OneEntryPerKey(cache')
  BY StepKinds DEF CacheInv
<1>3. Bounded(cache, SoundEntries(now))
  BY DEF CacheInv
<1>4. Bounded(cache', SoundEntries(now'))
  <2>1. CASE AnswersAtOnce
    BY <1>3, <2>1 DEF AnswersAtOnce
  <2>2. CASE now' = now /\ \A E : Bounded(cache, E) => Bounded(cache', E)
    BY <1>3, <2>2
  <2>3. ASSUME NEW c \in Calls, Resumes(c), now' = now,
               \A E : Bounded(cache, E) /\ Cacheable(E, Arriving(calls[c])) => Bounded(cache', E)
        PROVE  Bounded(cache', SoundEntries(now'))
    <3>1. calls[c] \in Call /\ calls[c].timestamp <= now
      BY <2>3, ActiveCall DEF Resumes, CacheInv, MinutesCome
    <3>2. Cacheable(SoundEntries(now), Arriving(calls[c]))
      BY <3>1, ArrivingType DEF Cacheable, SoundEntries, CacheEntry
    <3>3. QED
      BY <1>3, <2>3, <3>2
  <2>4. CASE Upgrade
    BY <2>4, CapacityAssumption DEF Upgrade, Bounded
  <2>5. CASE Tick
    <3>1. now <= now' /\ now' \in Nat /\ cache' = cache
      BY <2>5, ClockAssumption DEF Tick, TypeOK
    <3>2. SoundEntries(now) \subseteq SoundEntries(now')
      BY <3>1 DEF SoundEntries, CacheEntry, TypeOK
    <3>3. cache \in Seq(SoundEntries(now'))
      BY <1>3, <3>2 DEF Bounded
    <3>4. QED
      BY <1>3, <3>1, <3>3 DEF Bounded
  <2>6. CASE UNCHANGED vars
    BY <1>3, <2>6 DEF vars
  <2>7. QED
    BY <2>1, <2>2, <2>3, <2>4, <2>5, <2>6, StepKinds
<1>5. QED
  BY <1>1, <1>2, <1>4 DEF CacheInv

LEMMA CacheInvariant == Spec => []CacheInv
<1>1. Init => CacheInv
  BY CapacityAssumption
     DEF Init, CacheInv, MinutesCome, Bounded, OneEntryPerKey, IsActive, Idle
<1>2. QED
  BY <1>1, CacheStep, TypeCorrect, PTL DEF Spec

(* A cached rate is for a minute that has come, has sources, is not one of *)
(* USDT, and is the only one of its key, whatever interleaving filled it.  *)
THEOREM CacheIsSound == Spec => []CacheSound
<1>1. CacheInv => CacheSound
  <2> SUFFICES ASSUME CacheInv PROVE CacheSound
    OBVIOUS
  <2>1. \A i \in 1..Len(cache) : cache[i] \in SoundEntries(now)
    BY ElementOfSeq DEF CacheInv, Bounded
  <2>2. QED
    BY <2>1 DEF CacheInv, CacheSound, SoundEntries
<1>2. QED
  BY <1>1, CacheInvariant, PTL

-----------------------------------------------------------------------------
(* What is fetched *)

(* A call has not found a rate of the asset, and will fetch it. *)
Lacks(call, symbol) ==
    \/ symbol = Handled(call.request).base.symbol /\ call.base = NoRate
    \/ /\ IsCryptoPair(call.request)
       /\ symbol = Handled(call.request).quote.symbol /\ call.quote = NoRate

FetchesWhatItLacks(call) ==
    /\ call.phase = "base" => call.base = NoRate
    /\ call.phase = "quote" => IsCryptoPair(call.request) /\ call.quote = NoRate

Without(symbol, timestamp) == {e \in CacheEntry : ~Matches(e, symbol, timestamp)}

Uncached(entries, symbol, timestamp) ==
    symbol # USDT /\ Bounded(entries, Without(symbol, timestamp))

(* What a call looked up in vain when it arrived is still not cached when  *)
(* it comes to fetch it.                                                   *)
LackedIsUncached ==
    PrivilegedCallers = {} =>
        \A c \in Active :
            /\ FetchesWhatItLacks(calls[c])
            /\ calls[c].request.base # calls[c].request.quote =>
                  \A symbol \in Symbols \ Stablecoins :
                      Lacks(calls[c], symbol) => Uncached(cache, symbol, calls[c].timestamp)

LEMMA CryptoPairHandled ==
    ASSUME NEW request, IsCryptoPair(request)
    PROVE  Handled(request) = request
  BY DEF IsCryptoPair, Handled, IsFiatCryptoPair, Crypto, Fiat

LEMMA LackedIsTracked ==
    ASSUME NEW call, NEW symbol, Lacks(call, symbol)
    PROVE  <<symbol, call.timestamp>> \in Keys(call)
  BY CryptoPairHandled DEF Lacks, Keys

(* Uncached says what a lookup finds. *)
LEMMA UncachedMisses ==
    ASSUME NEW symbol, NEW timestamp, Uncached(cache, symbol, timestamp)
    PROVE  Get(cache, symbol, timestamp) = NoRate
<1>1. \A i \in 1..Len(cache) : cache[i] \in Without(symbol, timestamp)
  BY ElementOfSeq DEF Uncached, Bounded
<1>2. ~Has(cache, symbol, timestamp)
  BY <1>1 DEF Has, Without
<1>3. QED
  BY <1>2 DEF Get, Uncached

LEMMA MissedIsUncached ==
    ASSUME Bounded(cache, SoundEntries(now)), NEW symbol, NEW timestamp,
           Get(cache, symbol, timestamp) = NoRate
    PROVE  Uncached(cache, symbol, timestamp)
<1>1. symbol # USDT
  BY DEF Get, NoRate
<1>2. \A i \in 1..Len(cache) : cache[i] \in SoundEntries(now)
  BY ElementOfSeq DEF Bounded
<1>3. ~Has(cache, symbol, timestamp)
  <2>1. SUFFICES ASSUME Has(cache, symbol, timestamp) PROVE FALSE
    OBVIOUS
  <2>2. Position(cache, symbol, timestamp) \in 1..Len(cache)
    BY <2>1, PositionFinds
  <2>3. cache[Position(cache, symbol, timestamp)].rates > 0
    BY <1>2, <2>2 DEF SoundEntries
  <2>4. QED
    BY <1>1, <2>1, <2>3 DEF Get, NoRate
<1>4. \A i \in 1..Len(cache) : cache[i] \in Without(symbol, timestamp)
  BY <1>2, <1>3 DEF Has, Without, SoundEntries
<1>5. cache \in Seq(Without(symbol, timestamp))
  BY <1>4 DEF Bounded
<1>6. QED
  BY <1>1, <1>5 DEF Uncached, Bounded

-----------------------------------------------------------------------------
(* The call a handler goes on with fetches what it lacks. *)
Advances(call, next) ==
    next.phase # "returned" =>
        /\ next.request = call.request /\ next.timestamp = call.timestamp
        /\ next.base = call.base /\ next.quote = call.quote
        /\ FetchesWhatItLacks(next)

LEMMA ReturnedAdvances ==
    ASSUME NEW call \in Call, NEW results, NEW next \in Returned(call, results)
    PROVE  next.phase = "returned"
  BY DEF Returned, Call

LEMMA FetchQuoteAdvances ==
    ASSUME NEW call \in Call, NEW next \in FetchQuote(call)
    PROVE  Advances(call, next)
<1>1. CASE ~IsCryptoPair(call.request) \/ call.quote # NoRate
  BY <1>1, ReturnedAdvances DEF FetchQuote, Combine, Advances
<1>2. CASE IsCryptoPair(call.request) /\ call.quote = NoRate
  <2>1. CASE next \in Returned(call, {"CryptoQuoteAssetNotFound"})
    BY <2>1, ReturnedAdvances DEF Advances
  <2>2. ASSUME NEW listed, next = [call EXCEPT !.phase = "quote", !.queried = listed]
        PROVE  Advances(call, next)
    BY <1>2, <2>2 DEF Advances, FetchesWhatItLacks, Call
  <2>3. QED
    BY <1>2, <2>1, <2>2 DEF FetchQuote, CallExchanges
<1>3. QED
  BY <1>1, <1>2

LEMMA FetchBaseAdvances ==
    ASSUME NEW call \in Call, NEW next \in FetchBase(call)
    PROVE  Advances(call, next)
<1>1. CASE call.base # NoRate
  BY <1>1, FetchQuoteAdvances DEF FetchBase
<1>2. CASE call.base = NoRate
  <2>1. CASE next \in Returned(call, {"CryptoBaseAssetNotFound"})
    BY <2>1, ReturnedAdvances DEF Advances
  <2>2. ASSUME NEW listed, next = [call EXCEPT !.phase = "base", !.queried = listed]
        PROVE  Advances(call, next)
    BY <1>2, <2>2 DEF Advances, FetchesWhatItLacks, Call
  <2>3. QED
    BY <1>2, <2>1, <2>2 DEF FetchBase, CallExchanges
<1>3. QED
  BY <1>1, <1>2

LEMMA FetchStablecoinsAdvances ==
    ASSUME NEW call \in Call, NEW next \in FetchStablecoins(call)
    PROVE  Advances(call, next)
<1>1. Advances(call, [call EXCEPT !.phase = "stablecoins"])
  BY DEF Advances, FetchesWhatItLacks, Call
<1>2. QED
  BY <1>1, FetchBaseAdvances DEF FetchStablecoins

(* What a step of a call leaves in the slots. *)
LEMMA SlotStep ==
    ASSUME TypeOK, NEW c \in Calls, NEW next, NEW held, NEW reserved,
           Proceed(c, next, held, reserved)
    PROVE  /\ \A d \in Calls : d # c => calls'[d] = calls[d]
           /\ IsActive(c)' => calls'[c] = next /\ next.phase # "returned"
  BY DEF TypeOK, Proceed, IsActive, Idle

(* A call of an ordinary caller lacks what is not cached as it arrives. *)
LEMMA StartingLacks ==
    ASSUME TypeOK, CacheInv, PrivilegedCallers = {},
           NEW c \in Calls, NEW caller \in Callers \cup {Anonymous},
           NEW raw \in Requests, NEW cycles, StartFetching(c, caller, raw, cycles)
    PROVE  /\ \A d \in Calls : d # c => calls'[d] = calls[d]
           /\ IsActive(c)' =>
                 /\ FetchesWhatItLacks(calls'[c])
                 /\ \A symbol : Lacks(calls'[c], symbol) =>
                        Uncached(cache, symbol, calls'[c].timestamp)
<1> DEFINE request == Sanitized(raw)
           looked == Looked(caller, request)
           call == [looked EXCEPT !.fee = Fee(caller, TRUE, looked.need)]
<1>1. caller \in Callers
  BY AdmittedCallers DEF StartFetching
<1>2. looked \in Call
  BY <1>1, SanitizedType, LookedType DEF TypeOK
<1>3. PICK next \in FetchStablecoins(call) :
         Proceed(c, next, inflight \cup Keys(call), counter + Reserved(call))
  BY DEF StartFetching
<1>4. \A symbol : Lacks(looked, symbol) => Uncached(cache, symbol, looked.timestamp)
  <2> SUFFICES ASSUME NEW symbol, Lacks(looked, symbol)
               PROVE  Get(cache, symbol, looked.timestamp) = NoRate
    BY MissedIsUncached DEF CacheInv
  <2>1. \A s, t : RateFromCache(caller, s, t) = Get(cache, s, t)
    BY DEF RateFromCache
  <2>2. /\ looked.request = request
        /\ looked.base = RateFromCache(caller, Handled(request).base.symbol, looked.timestamp)
        /\ IsCryptoPair(Handled(request)) =>
              looked.quote =
                  RateFromCache(caller, Handled(request).quote.symbol, looked.timestamp)
    BY DEF Looked
  <2> HIDE DEF looked, request
  <2>3. QED
    BY <2>1, <2>2, CryptoPairHandled DEF Lacks
<1> HIDE DEF looked
<1>5. Fee(caller, TRUE, looked.need) \in Nat
  BY <1>2, FeeType DEF Call
<1>6. /\ call \in Call
      /\ call.request = looked.request /\ call.timestamp = looked.timestamp
      /\ call.base = looked.base /\ call.quote = looked.quote
  BY <1>2, <1>5 DEF Call
<1> HIDE DEF call
<1>7. Advances(call, next)
  BY <1>6, FetchStablecoinsAdvances
<1>8. /\ \A d \in Calls : d # c => calls'[d] = calls[d]
      /\ IsActive(c)' => calls'[c] = next /\ next.phase # "returned"
  BY <1>3, SlotStep
<1>9. IsActive(c)' => \A symbol : Lacks(next, symbol) => Lacks(looked, symbol)
  BY <1>6, <1>7, <1>8 DEF Advances, Lacks
<1>10. QED
  BY <1>4, <1>6, <1>7, <1>8, <1>9 DEF Advances

(* A response leaves a call with less that it lacks: it brought none of    *)
(* what the call still lacks, unless this is a stablecoin or both assets   *)
(* are the same.                                                           *)
ResponseLeaves(c) ==
    /\ \A d \in Calls : d # c => calls'[d] = calls[d]
    /\ IsActive(c)' =>
          /\ FetchesWhatItLacks(calls'[c])
          /\ calls'[c].request = calls[c].request /\ calls'[c].timestamp = calls[c].timestamp
          /\ \A symbol : Lacks(calls'[c], symbol) => Lacks(calls[c], symbol)
          /\ calls[c].request.base # calls[c].request.quote =>
                \A symbol : Lacks(calls'[c], symbol) /\ symbol \notin Stablecoins =>
                    <<symbol, calls[c].timestamp>> \notin Arriving(calls[c])

LEMMA StablecoinResponseLeaves ==
    ASSUME TypeOK, NEW c \in Calls, StablecoinResponse(c)
    PROVE  ResponseLeaves(c)
<1> DEFINE call == calls[c]
<1>1. call \in Call /\ call.phase = "stablecoins"
  BY ActiveCall DEF StablecoinResponse, IsActive
<1>2. PICK usdc \in StablecoinAnswers(call, USDC), usds \in StablecoinAnswers(call, USDS) :
         \E next \in FetchBase(
                [call EXCEPT !.stable = @ \o RatesFound(usdc) \o RatesFound(usds),
                             !.exchanges = @ \ (usdc.failed \cup usds.failed)]) :
             Resume(c, next)
  BY DEF StablecoinResponse
<1> DEFINE update == [call EXCEPT !.stable = @ \o RatesFound(usdc) \o RatesFound(usds),
                                  !.exchanges = @ \ (usdc.failed \cup usds.failed)]
<1>3. /\ update \in Call
      /\ update.request = call.request /\ update.timestamp = call.timestamp
      /\ update.base = call.base /\ update.quote = call.quote
  <2>1. RatesFound(usdc) \in Seq(Nat) /\ RatesFound(usds) \in Seq(Nat)
    BY <1>1, StablecoinAnswersType
  <2>2. call.stable \o RatesFound(usdc) \o RatesFound(usds) \in Seq(Nat)
    BY <1>1, <2>1 DEF Call
  <2>3. QED
    BY <1>1, <2>2 DEF Call
<1>4. PICK next \in FetchBase(update) : Proceed(c, next, inflight, counter)
  BY <1>2 DEF Resume
<1> HIDE DEF update
<1>5. Advances(update, next)
  BY <1>3, <1>4, FetchBaseAdvances
<1>6. \A key \in Arriving(call) : key[1] \in Stablecoins
  BY <1>1 DEF Arriving
<1>7. /\ \A d \in Calls : d # c => calls'[d] = calls[d]
      /\ IsActive(c)' => calls'[c] = next /\ next.phase # "returned"
  BY <1>4, SlotStep
<1>8. QED
  BY <1>3, <1>5, <1>6, <1>7 DEF ResponseLeaves, Advances, Lacks

LEMMA BaseResponseLeaves ==
    ASSUME TypeOK, NEW c \in Calls, BaseResponse(c)
    PROVE  ResponseLeaves(c)
<1> DEFINE call == calls[c]
<1>1. call \in Call /\ call.phase = "base"
  BY ActiveCall DEF BaseResponse, IsActive
<1>2. PICK answer \in Answers(call.queried) :
         \E next \in
             IF answer.rates = 0 THEN Returned(call, {"CryptoBaseAssetNotFound"})
             ELSE FetchQuote([call EXCEPT !.base = answer.rates,
                                          !.exchanges = @ \ answer.failed,
                                          !.queried = {}]) :
             Resume(c, next)
  BY DEF BaseResponse
<1> DEFINE update == [call EXCEPT !.base = answer.rates,
                                  !.exchanges = @ \ answer.failed,
                                  !.queried = {}]
<1>3. PICK next \in IF answer.rates = 0 THEN Returned(call, {"CryptoBaseAssetNotFound"})
                    ELSE FetchQuote(update) :
         Proceed(c, next, inflight, counter)
  BY <1>2 DEF Resume
<1>4. answer.rates \in Nat
  <2>1. call.queried \in SUBSET Exchanges
    BY <1>1 DEF Call
  <2>2. QED
    BY <2>1, AnswersType DEF AnswerCounts
<1>5. /\ update \in Call
      /\ update.request = call.request /\ update.timestamp = call.timestamp
      /\ update.base = answer.rates /\ update.quote = call.quote
  BY <1>1, <1>4 DEF Call
<1> HIDE DEF update
<1>6. /\ \A d \in Calls : d # c => calls'[d] = calls[d]
      /\ IsActive(c)' => calls'[c] = next /\ next.phase # "returned"
  BY <1>3, SlotStep
<1>7. SUFFICES ASSUME IsActive(c)' PROVE ResponseLeaves(c)
  BY <1>6 DEF ResponseLeaves
<1>8. answer.rates # 0 /\ next \in FetchQuote(update)
  BY <1>1, <1>3, <1>6, <1>7, ReturnedAdvances
<1>9. /\ next.request = call.request /\ next.timestamp = call.timestamp
      /\ next.base # NoRate /\ next.quote = call.quote /\ FetchesWhatItLacks(next)
  BY <1>5, <1>6, <1>7, <1>8, FetchQuoteAdvances DEF Advances, NoRate
<1>10. \A symbol : Lacks(next, symbol) =>
           /\ IsCryptoPair(call.request) /\ symbol = Handled(call.request).quote.symbol
           /\ Lacks(call, symbol)
  BY <1>9 DEF Lacks
<1>11. ASSUME call.request.base # call.request.quote, NEW symbol, Lacks(next, symbol)
       PROVE  <<symbol, call.timestamp>> \notin Arriving(call)
  <2>1. Handled(call.request) = call.request
    BY <1>10, <1>11, CryptoPairHandled
  <2>2. call.request.base.symbol # call.request.quote.symbol
    BY <1>1, <1>10, <1>11 DEF IsCryptoPair, Call, Request, Asset
  <2>3. QED
    BY <1>1, <1>10, <1>11, <2>1, <2>2 DEF Arriving
<1>12. QED
  BY <1>6, <1>7, <1>9, <1>10, <1>11 DEF ResponseLeaves

LEMMA LastResponseLeaves ==
    ASSUME TypeOK, NEW c \in Calls, QuoteResponse(c) \/ Trap(c)
    PROVE  ResponseLeaves(c)
<1>1. calls[c] \in Call
  BY ActiveCall DEF QuoteResponse, Trap, IsActive
<1>2. PICK next : Proceed(c, next, inflight, counter) /\ next.phase = "returned"
  <2>1. CASE Trap(c)
    BY <1>1, <2>1, ReturnedAdvances DEF Trap, Resume
  <2>2. CASE QuoteResponse(c)
    <3>1. PICK answer \in Answers(calls[c].queried) :
             \E next \in IF answer.rates = 0
                         THEN Returned(calls[c], {"CryptoQuoteAssetNotFound"})
                         ELSE Combine([calls[c] EXCEPT !.quote = answer.rates]) :
                 Resume(c, next)
      BY <2>2 DEF QuoteResponse
    <3>2. calls[c].queried \in SUBSET Exchanges
      BY <1>1 DEF Call
    <3>3. [calls[c] EXCEPT !.quote = answer.rates] \in Call
      BY <1>1, <3>2, AnswersType DEF AnswerCounts, Call
    <3>4. QED
      BY <1>1, <3>1, <3>3, ReturnedAdvances DEF Combine, Resume
  <2>3. QED
    BY <2>1, <2>2
<1>3. QED
  BY <1>2, SlotStep DEF ResponseLeaves

LEMMA ResponsesLeave ==
    ASSUME TypeOK, NEW c \in Calls, Response(c) \/ Trap(c)
    PROVE  /\ IsActive(c) /\ ResponseLeaves(c)
           /\ \A E : Bounded(cache, E) /\ Cacheable(E, Arriving(calls[c])) => Bounded(cache', E)
<1>1. CASE Response(c)
  BY <1>1, StablecoinResponseStep, BaseResponseStep, QuoteResponseStep,
     StablecoinResponseLeaves, BaseResponseLeaves, LastResponseLeaves DEF Response, Resumes
<1>2. CASE Trap(c)
  BY <1>2, TrapStep, LastResponseLeaves DEF Resumes, Bounded
<1>3. QED
  BY <1>1, <1>2

(* What a response does not bring stays uncached. *)
LEMMA StaysUncached ==
    ASSUME NEW symbol, NEW timestamp, Uncached(cache, symbol, timestamp),
           NEW call \in Call, <<symbol, timestamp>> \notin Arriving(call),
           \A E : Bounded(cache, E) /\ Cacheable(E, Arriving(call)) => Bounded(cache', E)
    PROVE  Uncached(cache', symbol, timestamp)
<1>1. \A key \in Arriving(call) :
         /\ key[1] \in Symbols /\ key[2] \in Nat
         /\ key[1] # symbol \/ key[2] # timestamp
  <2>1. \A key \in Arriving(call) : key = <<key[1], key[2]>>
    BY DEF Arriving
  <2>2. QED
    BY <2>1, ArrivingType
<1>2. Cacheable(Without(symbol, timestamp), Arriving(call))
  BY <1>1 DEF Cacheable, Without, CacheEntry, Matches
<1>3. QED
  BY <1>2 DEF Uncached

(* What another call is about to fetch is not what a response brings. *)
LEMMA OthersDoNotArrive ==
    ASSUME TypeOK, Disjointness, LackedIsUncached, PrivilegedCallers = {},
           NEW c \in Calls, IsActive(c), NEW d \in Calls \ {c}, IsActive(d),
           NEW symbol, symbol \notin Stablecoins, Lacks(calls[d], symbol)
    PROVE  <<symbol, calls[d].timestamp>> \notin Arriving(calls[c])
<1> DEFINE key == <<symbol, calls[d].timestamp>>
<1>1. key \in Keys(calls[d])
  BY LackedIsTracked
<1>2. key \notin Keys(calls[c])
  BY <1>1 DEF Disjointness, KeysDisjoint, Active
<1>3. calls[c].phase = "quote" => IsCryptoPair(calls[c].request)
  BY DEF LackedIsUncached, FetchesWhatItLacks, Active
<1>4. ASSUME key \in Arriving(calls[c]) PROVE key \in Keys(calls[c])
  <2>1. calls[c].phase \in {"stablecoins", "base", "quote"}
    BY DEF TypeOK, IsActive
  <2>2. CASE calls[c].phase = "stablecoins"
    BY <1>4, <2>2 DEF Arriving
  <2>3. CASE calls[c].phase = "base"
    BY <1>4, <2>3 DEF Arriving, Keys
  <2>4. CASE calls[c].phase = "quote"
    BY <1>3, <1>4, <2>4, CryptoPairHandled DEF Arriving, Keys
  <2>5. QED
    BY <2>1, <2>2, <2>3, <2>4
<1>5. QED
  BY <1>2, <1>4

LEMMA LackedStep ==
    TypeOK /\ CacheInv /\ Disjointness /\ LackedIsUncached /\ [Next]_vars => LackedIsUncached'
<1> SUFFICES ASSUME TypeOK, CacheInv, Disjointness, LackedIsUncached, [Next]_vars,
                    PrivilegedCallers = {}, NEW d \in Calls, IsActive(d)'
             PROVE  /\ FetchesWhatItLacks(calls'[d])
                    /\ calls'[d].request.base # calls'[d].request.quote =>
                          \A symbol \in Symbols \ Stablecoins :
                              Lacks(calls'[d], symbol) =>
                                  Uncached(cache', symbol, calls'[d].timestamp)
  BY DEF LackedIsUncached, Active
<1> DEFINE Goal == /\ FetchesWhatItLacks(calls'[d])
                   /\ calls'[d].request.base # calls'[d].request.quote =>
                         \A symbol \in Symbols \ Stablecoins :
                             Lacks(calls'[d], symbol) =>
                                 Uncached(cache', symbol, calls'[d].timestamp)
<1>1. IsActive(d) =>
        /\ FetchesWhatItLacks(calls[d])
        /\ calls[d].request.base # calls[d].request.quote =>
              \A symbol \in Symbols \ Stablecoins :
                  Lacks(calls[d], symbol) => Uncached(cache, symbol, calls[d].timestamp)
  BY DEF LackedIsUncached, Active
<1>2. ASSUME \A E : Bounded(cache, E) => Bounded(cache', E)
      PROVE  \A s, t : Uncached(cache, s, t) => Uncached(cache', s, t)
  BY <1>2 DEF Uncached
<1>3. CASE calls' = calls /\ \A E : Bounded(cache, E) => Bounded(cache', E)
  BY <1>1, <1>2, <1>3 DEF IsActive
<1>4. ASSUME NEW c \in Calls, NEW caller \in Callers \cup {Anonymous},
             NEW raw \in Requests, NEW cycles, StartFetching(c, caller, raw, cycles)
      PROVE  Goal
  <2>1. \A s, t : Uncached(cache, s, t) => Uncached(cache', s, t)
    BY <1>2, <1>4, StartFetchingStep
  <2>2. CASE d = c
    BY <1>4, <2>1, <2>2, StartingLacks
  <2>3. CASE d # c
    <3>1. calls'[d] = calls[d]
      BY <1>4, <2>3, StartingLacks
    <3>2. QED
      BY <1>1, <2>1, <3>1 DEF IsActive
  <2>4. QED
    BY <2>2, <2>3
<1>5. ASSUME NEW c \in Calls, Response(c) \/ Trap(c)
      PROVE  Goal
  <2>1. /\ IsActive(c) /\ ResponseLeaves(c)
        /\ \A E : Bounded(cache, E) /\ Cacheable(E, Arriving(calls[c])) => Bounded(cache', E)
    BY <1>5, ResponsesLeave
  <2>2. calls[c] \in Call
    BY <2>1, ActiveCall
  <2>3. \A s, t : Uncached(cache, s, t) /\ <<s, t>> \notin Arriving(calls[c]) => Uncached(cache', s, t)
    BY <2>1, <2>2, StaysUncached
  <2>4. CASE d = c
    BY <1>1, <2>1, <2>3, <2>4 DEF ResponseLeaves
  <2>5. CASE d # c
    <3>1. calls'[d] = calls[d] /\ IsActive(d)
      BY <2>1, <2>5 DEF ResponseLeaves, IsActive
    <3>2. \A symbol \in Symbols \ Stablecoins : Lacks(calls[d], symbol) =>
              <<symbol, calls[d].timestamp>> \notin Arriving(calls[c])
      BY <2>1, <2>5, <3>1, OthersDoNotArrive
    <3>3. QED
      BY <1>1, <2>3, <3>1, <3>2
  <2>6. QED
    BY <2>4, <2>5
<1>6. CASE Upgrade
  BY <1>6 DEF Upgrade, IsActive
<1>7. CASE Tick \/ UNCHANGED vars
  BY <1>3, <1>7 DEF Tick, vars
<1>8. CASE Arrival
  <2>1. PICK caller \in Callers \cup {Anonymous}, raw \in Requests, cycles \in CyclesAttached :
           \/ Refuse(caller, raw, cycles)
           \/ AnswerFiatPair(caller, raw, cycles)
           \/ RejectInvalid(caller, raw, cycles)
           \/ AnswerFromCache(caller, raw, cycles)
           \/ \E c \in Calls : StartFetching(c, caller, raw, cycles)
    BY <1>8 DEF Arrival
  <2>2. CASE \E c \in Calls : StartFetching(c, caller, raw, cycles)
    BY <1>4, <2>2
  <2>3. CASE AnswersAtOnce
    BY <1>3, <2>3 DEF AnswersAtOnce
  <2>4. QED
    BY <2>1, <2>2, <2>3, RefuseStep, AnswerFiatPairStep, RejectInvalidStep, AnswerFromCacheStep
<1>9. QED
  BY <1>5, <1>6, <1>7, <1>8 DEF Next

LEMMA RequestedIsLacked ==
    ASSUME NEW call \in Call, call.phase \in {"stablecoins", "base", "quote"},
           FetchesWhatItLacks(call), NEW key \in Requested(call), key[1] \notin Stablecoins
    PROVE  /\ key = <<key[1], call.timestamp>> /\ key[1] \in Symbols
           /\ Lacks(call, key[1])
<1>1. call.missed \subseteq Stablecoins
  BY DEF Call
<1>2. key = <<key[1], call.timestamp>>
  BY DEF Requested
<1>3. Handled(call.request) \in Request(Symbols)
  BY HandledType DEF Call
<1>4. call.phase # "stablecoins"
  BY <1>1 DEF Requested
<1>5. CASE call.phase = "base"
  <2>1. key[1] = Handled(call.request).base.symbol
    BY <1>5 DEF Requested
  <2>2. QED
    BY <1>2, <1>3, <1>5, <2>1 DEF FetchesWhatItLacks, Lacks, Request, Asset
<1>6. CASE call.phase = "quote"
  <2>1. key[1] = call.request.quote.symbol
    BY <1>6 DEF Requested
  <2>2. IsCryptoPair(call.request) /\ Handled(call.request) = call.request
    BY <1>6, CryptoPairHandled DEF FetchesWhatItLacks
  <2>3. QED
    BY <1>2, <1>3, <1>6, <2>1, <2>2 DEF FetchesWhatItLacks, Lacks, Request, Asset
<1>7. QED
  BY <1>4, <1>5, <1>6

(* Without privileged callers no asset but a stablecoin is requested from  *)
(* the exchanges by two calls at a time for the same minute, nor by a call *)
(* whose answer is cached by now: for any number of calls, assets and      *)
(* exchanges, any size of the cache and any interleaving.                  *)
THEOREM NoDoubleFetch == Spec => []AssetsFetchedOnce
<1>1. Init => LackedIsUncached
  BY DEF Init, LackedIsUncached, Active, IsActive, Idle
<1>2. TypeOK /\ Disjointness /\ LackedIsUncached => AssetsFetchedOnce
  <2> SUFFICES ASSUME TypeOK, Disjointness, LackedIsUncached, PrivilegedCallers = {},
                      NEW c \in Active, NEW key \in Requested(calls[c]),
                      key[1] \notin Stablecoins
               PROVE  /\ \A d \in Active \ {c} : key \notin Requested(calls[d])
                      /\ calls[c].request.base # calls[c].request.quote =>
                            Get(cache, key[1], key[2]) = NoRate
    BY DEF AssetsFetchedOnce
  <2>1. \A d \in Active :
           /\ calls[d] \in Call /\ calls[d].phase \in {"stablecoins", "base", "quote"}
           /\ FetchesWhatItLacks(calls[d])
    BY ActiveCall DEF TypeOK, Active, IsActive, LackedIsUncached
  <2>2. \A d \in Active : key \in Requested(calls[d]) =>
           /\ key = <<key[1], calls[d].timestamp>> /\ key[1] \in Symbols
           /\ Lacks(calls[d], key[1])
    BY <2>1, RequestedIsLacked
  <2>3. \A d \in Active : key \in Requested(calls[d]) => key \in Keys(calls[d])
    BY <2>2, LackedIsTracked
  <2>4. \A d \in Active \ {c} : key \notin Requested(calls[d])
    BY <2>3 DEF Disjointness, KeysDisjoint
  <2>5. ASSUME calls[c].request.base # calls[c].request.quote
        PROVE  Get(cache, key[1], key[2]) = NoRate
    <3>1. key[1] \in Symbols \ Stablecoins /\ Lacks(calls[c], key[1])
          /\ key[2] = calls[c].timestamp
      BY <2>2
    <3>2. Uncached(cache, key[1], key[2])
      BY <2>5, <3>1 DEF LackedIsUncached
    <3>3. QED
      BY <3>2, UncachedMisses
  <2>6. QED
    BY <2>4, <2>5
<1>3. QED
  BY <1>1, <1>2, LackedStep, TypeCorrect, CacheInvariant, DisjointnessInvariant, PTL DEF Spec

=============================================================================
