------------------------------ MODULE MCRatePath ------------------------------
(***************************************************************************)
(* Instances of RatePath for TLC.                                          *)
(***************************************************************************)
EXTENDS RatePathProperties

CONSTANTS r1, r2

(* With one decimal, 2^64 is to RATE_UNIT * RATE_UNIT as it is with nine.  *)
MCDecimals == 1
MCWord == 1844

LOCAL T == 600
LOCAL Today == 10

LOCAL Request0 ==
    [pair |-> "same", live |-> "none", sources |-> {}, symbol |-> "none",
     timestamp |-> T, day |-> Today]

(* Requests that need nothing live, for the arithmetic. *)
LOCAL Composing == {[Request0 EXCEPT !.pair = p] : p \in {"same", "cf", "fc"}}

(* Every exchange on its own, and some together. *)
LOCAL AskedExchanges ==
    {{name} : name \in ToSet(EXCHANGES)} \cup {{"Coinbase", "Okx"}}
LOCAL AskingExchanges ==
    {[Request0 EXCEPT !.live = "base", !.sources = s] : s \in AskedExchanges}
    \cup {[Request0 EXCEPT !.pair = "cf", !.live = "coin2", !.sources = {name},
                           !.symbol = "USDC"] : name \in {"Coinbase", "KuCoin", "Poloniex"}}

(* Every two banks, for four currencies. *)
LOCAL AskingBanks ==
    {[Request0 EXCEPT !.pair = "cf", !.live = "forex",
          !.sources = {AllForexSources[i], AllForexSources[j]}, !.symbol = c] :
        i \in 1..5, j \in 6..11, c \in {"EUR", "JPY", "CAD", "KRW"}}

MCRequests == Composing \cup AskingExchanges \cup AskingBanks

(* Non-decreasing sequences: the order of received rates does not matter.  *)
LOCAL Ascending(values, n) ==
    {s \in [1..n -> values] : \A i, j \in 1..n : i < j => s[i] <= s[j]}
LOCAL UpTo(values, n) == UNION {Ascending(values, k) : k \in 1..n}

LOCAL Some(values) == [o \in {"base", "quote", "coin1", "coin2", "forex"} |-> values]

LOCAL Samples(req) ==
    CASE req.live # "none" -> Some({<<10, 10>>})
      [] req.pair = "same" ->
            [base |-> UpTo({1, 8, 9, 10, 13, 100}, 3), quote |-> UpTo({1, 9, 10, 12, 40, 100}, 2)]
      [] OTHER ->
            [base |-> UpTo({1, 9, 10, 12, 100}, 2), coin1 |-> {<<10>>, <<9, 10>>, <<8, 12>>},
             coin2 |-> {<<10>>, <<12, 12>>, <<0>>}, forex |-> UpTo({1, 10, 11, 30, 100}, 2)]

LOCAL ReceivedFor(req) ==
    LET names == Operands(req.pair) \ {req.live}
        samples == Samples(req)
    IN  {f \in [names -> UNION {samples[o] : o \in names}] : \A o \in names : f[o] \in samples[o]}

(* More rates than the others have, for the filter. *)
LOCAL ManyRates ==
    {[base |-> s, quote |-> <<10>>] : s \in Ascending({0, 1, 8, 9, 10, 12, 13, 101}, 5)}

MCReceivedRates ==
    [req \in MCRequests |->
        ReceivedFor(req) \cup IF req = Request0 THEN ManyRates ELSE {}]

(* A candle more than six minutes old, and newer ones or none. *)
LOCAL Minutes == {T - 7 * MINUTE, T - 6 * MINUTE, T - 2 * MINUTE, T - MINUTE, T, T + MINUTE}
LOCAL PastPrice == [m \in Minutes |->
    CASE m = T - 7 * MINUTE -> 125 [] m = T - 6 * MINUTE -> 140 [] m = T - 2 * MINUTE -> 120
      [] m = T - MINUTE -> 110 [] OTHER -> 0]
MCPastTrades ==
    {[m \in Minutes |-> IF m \in {T - 7 * MINUTE} \cup past THEN <<PastPrice[m]>> ELSE <<>>] :
        past \in SUBSET {T - 6 * MINUTE, T - 2 * MINUTE, T - MINUTE}}
MCLivePrices == [m \in Minutes |-> IF m = T THEN {100, 5} ELSE {80, 5}]

LOCAL AllCurrencies == {"USD", "EUR", "JPY", "KRW", "CAD", "AUD", "CHF", "TRY", "LCU"}
MCWorth ==
    [d \in Today - 2..Today + 2 |-> [c \in AllCurrencies |->
        CASE c = "EUR" -> IF d = Today THEN 7 ELSE 3
          [] c = "JPY" -> IF d = Today THEN 1 ELSE 2
          [] c \in {"CAD", "TRY", "LCU"} -> IF d = Today THEN 5 ELSE 4
          [] OTHER -> 3]]

=============================================================================
