------------------------------ MODULE Telemetry ------------------------------
(***************************************************************************)
(* What the exchange rate canister tells its operators: the counters of    *)
(* requests and errors, the two request logs, and for each exchange how    *)
(* often its answers came out how and when one was last of use.  (The      *)
(* metrics of src/xrc/src/lib.rs, the log of request_log.rs, recorded in   *)
(* api.rs.)  All of it is lost in an upgrade.                              *)
(***************************************************************************)
EXTENDS Exchanges

(* A counter per key, 0 for a key it does not have. *)
Count(counter, key) == IF key \in DOMAIN counter THEN counter[key] ELSE 0
Add(counter, key, n) ==
    [k \in DOMAIN counter \cup {key} |-> Count(counter, k) + IF k = key THEN n ELSE 0]

-----------------------------------------------------------------------------
(* The exchanges *)

CallKinds == {"crypto", "stablecoin"}

IsFed(name, kind) == kind = "crypto" \/ Exchange(name, 0).stablecoinPairs # <<>>

(* init_at: an exchange that is never asked for stablecoins has no time of *)
(* its last success in that.                                               *)
InitialMetrics(now) ==
    [fetched |-> <<>>, symbolRates |-> <<>>,
     lastSuccess |-> [series \in {s \in ToSet(EXCHANGES) \X CallKinds : IsFed(s[1], s[2])} |-> now]]

(* Variant: a rate of 0 counts as a success. *)
OutcomeOfAnyRate(response) == IF response.kind = "Rate" THEN "success" ELSE "failure"

OutcomeOf(response) ==
    IF response.kind # "Rate" THEN response.kind
    ELSE IF response.rate = 0 THEN "extracted_zero" ELSE "success"

(* record_exchange_outcome *)
RecordExchangeOutcome(metrics, name, kind, response, now) ==
    LET outcome == OutcomeOf(response)
    IN  [metrics EXCEPT
            !.fetched = Add(@, <<name, kind, outcome>>, 1),
            !.lastSuccess =
                IF outcome # "success" THEN @
                ELSE [s \in DOMAIN @ \cup {<<name, kind>>} |->
                         IF s = <<name, kind>> THEN now ELSE @[s]]]

(* record_stablecoin_symbol_rates_received *)
RecordSymbolRates(metrics, symbol, rates) ==
    [metrics EXCEPT !.symbolRates =
        Add(@, symbol, Cardinality({i \in DOMAIN rates : rates[i] > 0}))]

-----------------------------------------------------------------------------
(* Requests *)

(* The counter of an error besides errors_returned, if it has one. *)
ErrorClass(error) ==
    CASE error = "Pending" -> {"pending_errors"}
      [] error \in {"CryptoBaseAssetNotFound", "CryptoQuoteAssetNotFound"} ->
            {"crypto_asset_related_errors"}
      [] error \in {"StablecoinRateNotFound", "StablecoinRateTooFewRates",
                    "StablecoinRateZeroRate"} -> {"stablecoin_errors"}
      [] error \in {"ForexInvalidTimestamp", "ForexBaseAssetNotFound",
                    "ForexQuoteAssetNotFound", "ForexAssetsNotFound"} ->
            {"forex_asset_related_errors"}
      [] error = "RateLimited" -> {"rate_limiting_errors"}
      [] error = "NotEnoughCycles" -> {"cycles_related_errors"}
      [] error = "InconsistentRatesReceived" -> {"inconsistent_rates_errors"}
      [] OTHER -> {}

AddEach(counter, keys) ==
    [key \in DOMAIN counter \cup keys |->
        Count(counter, key) + IF key \in keys THEN 1 ELSE 0]

(* get_exchange_rate before the request is handled ... *)
CountRequest(counters, isPrivileged) ==
    AddEach(counters, {"requests"} \cup IF isPrivileged THEN {"cmc_requests"} ELSE {})

(* ... and after. *)
CountReply(counters, isPrivileged, result) ==
    IF result = "Rate" THEN counters
    ELSE AddEach(counters,
            {"errors_returned"} \cup (IF isPrivileged THEN {"cmc_errors_returned"} ELSE {})
                \cup ErrorClass(result))

(* Variant: the log is cut before it has grown. *)
LoggedLate(log, entry, size) ==
    <<entry>> \o IF Len(log) > size THEN Front(log) ELSE log

(* RequestLog::log: the newest entry first, the oldest is dropped. *)
Logged(log, entry, size) ==
    LET all == <<entry>> \o log
    IN  IF Len(all) > size THEN Front(all) ELSE all

=============================================================================
