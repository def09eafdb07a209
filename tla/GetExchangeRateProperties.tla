---------------------- MODULE GetExchangeRateProperties ----------------------
(***************************************************************************)
(* What the canister promises while calls interleave at their awaits.      *)
(***************************************************************************)
EXTENDS GetExchangeRate

ReplyType ==
    [caller : Callers \cup {Anonymous}, request : Request(DOMAIN CleanSymbol \cup Symbols),
     need : 0..3, fee : Nat, result : Results]

(* Every variable stays in its type: a suspended call is at one of its     *)
(* three awaits, and the cache holds at most MAX_CACHE_SIZE entries.       *)
TypeOK ==
    /\ calls \in [Calls -> Call \cup {Idle}]
    /\ \A c \in Calls : calls[c].phase \in {"idle", "stablecoins", "base", "quote"}
    /\ inflight \subseteq Symbols \X Nat
    /\ counter \in Nat
    /\ cache \in Seq(CacheEntry) /\ Len(cache) <= Capacity
    /\ now \in Nat
    /\ reply \in ReplyType \cup {NoReply}

Active == {c \in Calls : IsActive(c)}
Ordinary == {c \in Active : calls[c].caller \in OrdinaryCallers}

(* No key is left behind in the in-flight set: every one belongs to a call *)
(* still waiting.  A leaked key would answer Pending for that asset and    *)
(* minute until the next upgrade (inflight.rs, the guard's Drop).          *)
InflightHeld ==
    inflight \subseteq UNION {Keys(calls[c]) : c \in Active}

(* What some calls reserve between them. *)
ReservedBy(S) == SumFunction([c \in S |-> Reserved(calls[c])])

(* The request counter is exactly what the waiting calls reserved, however *)
(* they overlap and whichever of them failed or trapped (rate_limiting.rs, *)
(* the guard): a lost release would rate limit everybody for good.         *)
CounterIsReserved == counter = ReservedBy(Active)

(* HTTP outcalls a waiting call has under way. *)
Outcalls(call) ==
    IF call.phase = "stablecoins"
    THEN SumFunction([s \in call.missed |-> Cardinality(ServedBy(call, s))])
    ELSE Cardinality(call.queried)

(* The outcalls under way never exceed what the counter says, although the *)
(* counter is set once, before the listings and failures that decide which *)
(* exchanges are called (api.rs, with_request_counter around the fetches). *)
OutcallsWithinCounter ==
    SumFunction([c \in Active |-> Outcalls(calls[c])]) <= counter

(* The calls subject to the rate limit. *)
Limited == {c \in Ordinary : \/ ~IsPrivilegedPair(calls[c].request)
                             \/ calls[c].request.timestamp # NoTimestamp}

(* Whatever privileged callers and pairs add on top, the calls subject to  *)
(* the rate limit never reserve more than REQUEST_COUNTER_LIMIT between    *)
(* them (rate_limiting.rs, is_rate_limited).                               *)
LimitedLoadBounded == ReservedBy(Limited) <= RequestCounterLimit

(* The keys of the assets a waiting call has HTTP outcalls under way for.  *)
Requested(call) ==
    LET symbols ==
          CASE call.phase = "stablecoins" -> {s \in call.missed : ServedBy(call, s) # {}}
            [] call.phase = "base"  -> {Handled(call.request).base.symbol}
            [] call.phase = "quote" -> {call.request.quote.symbol}
    IN  symbols \X {call.timestamp}

(* As long as no privileged caller takes part, the outcalls of a call for  *)
(* an asset that is not a stablecoin are the only ones for that asset and  *)
(* minute, and they are not for a rate that is in the cache by now:        *)
(* although a call looks its assets up in the cache and in the in-flight   *)
(* set when it arrives and fetches the second of them only after one or    *)
(* two awaits, what it found then still holds (inflight.rs:40, api.rs:523).*)
(* Stablecoins fetched for a crypto-fiat pair are not tracked (api.rs:734):*)
(* the last part of this module has what follows from it.  A crypto pair   *)
(* of an asset with itself fetches the asset once for each side.           *)
AssetsFetchedOnce ==
    PrivilegedCallers = {} =>
        \A c \in Active : \A key \in Requested(calls[c]) :
            key[1] \notin Stablecoins =>
                /\ \A d \in Active \ {c} : key \notin Requested(calls[d])
                /\ calls[c].request.base # calls[c].request.quote =>
                      Get(cache, key[1], key[2]) = NoRate

HeldBy(call) == IF call.phase = "idle" THEN {} ELSE Keys(call)
KeysHeld == [c \in Calls |-> HeldBy(calls[c])]

Locks == INSTANCE KeyLocks
           WITH Holders <- Calls, Lockable <- Symbols \X Nat,
                held <- KeysHeld, locked <- inflight

(* Without privileged callers tracking is what KeyLocks says: a call takes *)
(* all its keys in one step while they are free, is alone with them over   *)
(* all its awaits, and gives back those and no others, however it ends     *)
(* (inflight.rs, with_inflight_tracking).                                  *)
ImplementsKeyLocks == Locks!Spec

(* A cached rate is for a minute that has come, has sources, and is the    *)
(* only one of its key: a rate fetched for the future would later be       *)
(* served as if it had been observed (cache.rs, validate_request).         *)
CacheSound ==
    /\ \A i \in 1..Len(cache) :
          cache[i].timestamp <= now /\ cache[i].rates > 0 /\ cache[i].symbol # USDT
    /\ OneEntryPerKey(cache)

(* The errors a caller gets are about its own request, not about the       *)
(* inverted pair the handler worked on (api.rs, route_request).            *)
ErrorsNameTheRightSide ==
    reply # NoReply =>
        /\ reply.result = "CryptoBaseAssetNotFound" => reply.request.base.class = Crypto
        /\ reply.result = "CryptoQuoteAssetNotFound" => reply.request.quote.class = Crypto
        /\ reply.result = "ForexBaseAssetNotFound" => reply.request.base.class = Fiat
        /\ reply.result = "ForexQuoteAssetNotFound" => reply.request.quote.class = Fiat
        /\ reply.result = "BaseAssetInvalidSymbol" => reply.request.base.symbol = ""
        /\ reply.result = "QuoteAssetInvalidSymbol" => reply.request.quote.symbol = ""

(* A rate, and any error found only after outcalls were made, is paid in   *)
(* full by an ordinary caller, and no fee exceeds what the caller was      *)
(* required to attach.  A refusal costs the minimum fee, neither more nor  *)
(* less, except that a fiat pair that fails the validation costs nothing:  *)
(* handle_fiat_pair returns before it charges, although charge_cycles      *)
(* says that an invalid request is charged the minimum fee (api.rs:537,    *)
(* api.rs:821, environment.rs).                                            *)
InvalidRequest == {"FutureTimestamp", "BaseAssetInvalidSymbol", "QuoteAssetInvalidSymbol",
                   "RateLimited", "Pending"}
NotInForexStore == {"ForexInvalidTimestamp", "ForexBaseAssetNotFound",
                    "ForexQuoteAssetNotFound", "ForexAssetsNotFound"}
Refusals == InvalidRequest \cup NotInForexStore

FeeMatchesWork ==
    reply # NoReply /\ reply.caller \in OrdinaryCallers =>
        /\ reply.fee <= XRC_REQUEST_CYCLES_COST
        /\ reply.result \in Refusals =>
              reply.fee = IF IsFiatPair(reply.request) /\ reply.result \in InvalidRequest
                          THEN 0 ELSE XRC_MINIMUM_FEE_COST
        /\ reply.result \notin Refusals \cup {"NotEnoughCycles"} /\ reply.need > 0 =>
              reply.fee >= XRC_BASE_CYCLES_COST + XRC_OUTBOUND_HTTP_CALL_CYCLES_COST

(* An ordinary call for the current rate only ever fetches the minute it   *)
(* arrived in: when that minute is being fetched by another call it may    *)
(* use what is cached of the minute before, but never fetch it             *)
(* (api.rs, get_normalized_timestamp and PastTimestampNotCached).          *)
OnlyCurrentMinuteFetched ==
    [][\A c \in Calls :
          ~IsActive(c) /\ IsActive(c)' /\ calls'[c].caller \in OrdinaryCallers
            /\ calls'[c].request.timestamp = NoTimestamp
          => calls'[c].timestamp = Minute(Minus(now, 30))]_vars

(* A call that waits on exchanges returns. *)
CallsReturn == \A c \in Calls : IsActive(c) ~> ~IsActive(c)

(* No asset and minute stays in flight for ever, even if calls for it keep *)
(* coming: Pending is a temporary answer.                                  *)
NothingStaysInflight ==
    \A key \in Symbols \X {Minute(MaxTime)} : []<>(key \notin inflight)

-----------------------------------------------------------------------------
(* What comments of the code say that the code does not keep. *)

(* inflight.rs:12, the set "contains the symbol-timestamp pairs that are   *)
(* currently being requested using HTTP outcalls".  The calls of           *)
(* privileged callers are not turned away, and the first of two that       *)
(* returns takes the keys of both out of the set while the other still     *)
(* fetches.  Stablecoins fetched for a crypto-fiat pair are never in it.   *)
FetchedAssetsTracked ==
    \A c \in Active : Requested(calls[c]) \subseteq inflight

(* inflight.rs:40, "so that the canister can avoid sending similar         *)
(* requests to crypto exchanges".  Two ordinary calls for different        *)
(* crypto-fiat pairs both fetch the stablecoins of the minute.             *)
SimilarRequestsAvoided ==
    \A c, d \in Ordinary : c # d => Requested(calls[c]) \cap Requested(calls[d]) = {}

(* api.rs:33, "A cached rate is only used for privileged canisters if      *)
(* there are at least this many source rates".  The stablecoin rates of a  *)
(* crypto-fiat pair come from the cache whatever their number of sources.  *)
PrivilegedUseWellSourcedRates ==
    \A c \in Active :
        calls[c].caller \in PrivilegedCallers /\ calls[c].missed = {} =>
            \A i \in 1..Len(calls[c].stable) : calls[c].stable[i] >= MinRatesForPrivileged

==============================================================================
