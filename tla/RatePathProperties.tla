-------------------------- MODULE RatePathProperties --------------------------
(***************************************************************************)
(* What the quotes in the replies owe to the rates they are made of.       *)
(***************************************************************************)
EXTENDS RatePath

Responses == [kind : {"Pending", "Rate", "NoData", "Trap", "Http", "NoRatesFound"}, rate : 0..WORD - 1]

InRange(rate) ==
    /\ rate.decimals \in 0..2 * DECIMALS
    /\ \A i \in DOMAIN rate.rates : rate.rates[i] \in 1..MaxRate

(* Every variable has its type.  The rates of a composed quote are         *)
(* positive, at most RATE_UNIT * RATE_UNIT, and have at most 2 * DECIMALS  *)
(* decimals (Mul and new in lib.rs).                                       *)
TypeOK ==
    /\ now \in 0..MaxTime
    /\ request \in Requests
    /\ DOMAIN received \subseteq Operands(request.pair)
    /\ \A o \in DOMAIN received :
          IsFiniteSet(DOMAIN received[o]) /\ received[o] \in [DOMAIN received[o] -> 0..WORD - 1]
    /\ \A name \in Called :
          fetched[name] \in [Replicas -> Responses] /\ outcomes[name] \in Responses
    /\ reply.result = "Ok" => InRange(reply.direct)

IsQuoted == reply.result = "Ok"

Lowest(rates) == Min(ToSet(rates))
Highest(rates) == Max(ToSet(rates))

-----------------------------------------------------------------------------
(* The exchanges *)

(* The replicas that get an answer from Coinbase or KuCoin get the same    *)
(* rate, or the same absence of a rate, at whatever moments they ask and   *)
(* whatever is traded meanwhile (exchanges.rs, the notes on the windows of *)
(* minutes that are over).                                                 *)
ClosedWindowsAgree ==
    \A name \in Called \cap {"Coinbase", "KuCoin"} : \A r, s \in Replicas :
        {fetched[name][r], fetched[name][s]} \cap {Pending, Without("Trap")} = {}
        => fetched[name][r] = fetched[name][s]

(* The exchanges whose windows have two ends near the requested minute.    *)
ClosedWindowExchanges == {"Coinbase", "KuCoin", "Okx", "GateIo", "Poloniex", "Digifinex"}

(* The trades in the requested minute and the six before it.               *)
IsRecent(minute) == request.timestamp - 6 * MINUTE <= minute /\ minute <= request.timestamp

(* A rate is the price, without the digits it has more than a rate.  If    *)
(* the exchange lists the pair the other way around, the price is turned   *)
(* around twice, and what is rounded away there makes the rate higher:     *)
(* rate <= price / 10 / (1 - (price - 1) / (10 * MaxRate)).                *)
IsPaid(name, rate, price) ==
    IF IsInverse(name)
    THEN price \div 10 <= rate /\ rate * (10 * MaxRate - price + 1) <= MaxRate * price
    ELSE rate = price \div 10

(* A rate taken from one of these exchanges was paid, in a trade of the    *)
(* asset against USDT, in the requested minute or within the six before    *)
(* it, also when the exchange lists the pair the other way around          *)
(* (exchanges.rs; call_exchange_for_stablecoin).                           *)
RatesAreRecent ==
    \A name \in Called \cap ClosedWindowExchanges :
        outcomes[name].kind = "Rate" =>
            \E minute \in DOMAIN trades : \E i \in DOMAIN trades[minute] :
                IsRecent(minute) /\ IsPaid(name, outcomes[name].rate, trades[minute][i])

(* An exchange whose answer ends up as a positive rate is one whose metric *)
(* is up to date, and the other way around, unless its answer for a pair   *)
(* listed the other way around is too high to be turned around; and the    *)
(* counter for a stablecoin says how many positive rates there are:        *)
(* whatever the answer goes through between the places where the metrics   *)
(* are recorded (lib.rs, record_exchange_outcome; api.rs,                  *)
(* record_stablecoin_symbol_rates_received).                               *)
MetricsMatchRates ==
    LET upToDate == {name \in Called : metrics.lastSuccess[<<name, Kind>>] > 0}
        usable == {name \in Called : outcomes[name].kind = "Rate" /\ outcomes[name].rate > 0}
    IN  /\ usable \subseteq upToDate
        /\ \A name \in upToDate \ usable :
              IsInverse(name) /\ \E r \in Replicas : fetched[name][r].rate > MaxRate
        /\ Kind = "stablecoin" /\ "coin2" \in DOMAIN received =>
              metrics.symbolRates[request.symbol] = Cardinality(usable)

-----------------------------------------------------------------------------
(* The banks *)

(* The prices that are taken to be for a single unit although they are for *)
(* a hundred: all of the Central Bank of Myanmar's that are for a hundred  *)
(* but those of the yen (myanmar.rs:42).                                   *)
Overstated(name, symbol) ==
    IF name = "CentralBankOfMyanmar" /\ symbol \in PerHundred \ {"JPY"} THEN 100 ELSE 1

(* What a unit of a currency, or a hundred if its price is overstated, was *)
(* worth on the requested day, in the currency of a bank and, by way of    *)
(* that, in USD.                                                           *)
InHome(name, symbol) ==
    (RATE_UNIT * (Worth[request.day][symbol] * Overstated(name, symbol)))
        \div Worth[request.day][HomeCurrency(name)]
InUsd(name, symbol) ==
    ((RATE_UNIT * InHome(name, symbol)) \div InHome(name, "USD")) % WORD

(* A bank that publishes what it is asked for has a rate for every         *)
(* currency of its document and for its own that is worth something, and   *)
(* whatever a bank publishes a rate taken from it is what the currency was *)
(* worth in USD on the day the rate is filed under: banks that quote       *)
(* prices, amounts, by the hundred, with a date of the day after, or       *)
(* without a date in the URL are told apart.  There are two exceptions.    *)
(* The won, rupiah, dong, kip and riel come out of the document of the     *)
(* Central Bank of Myanmar as what a hundred of them are worth, exactly:   *)
(* an error of the code.  And a bank that gives an amount of 0 for USD     *)
(* passes with that, and has next to nothing for the others then           *)
(* (src/xrc/src/forex/, normalize_to_usd).                                 *)
BankRatesMatchWorth ==
    \A name \in DOMAIN documents :
        LET kind == documents[name].kind
            answer == documents[name].answer
        IN  /\ kind = "right" /\ InHome(name, "USD") > 0 =>
                  /\ answer.ok
                  /\ \A c \in QuotedCurrencies \cup ({HomeCurrency(name)} \ {"LCU"}) :
                        InHome(name, c) > 0 => c \in DOMAIN answer.rates
            /\ answer.ok => \A c \in DOMAIN answer.rates :
                  IF kind # "zero" THEN answer.rates[c] = InUsd(name, c)
                  ELSE c # "USD" => answer.rates[c] * (WORD - 1) <= RATE_UNIT * InHome(name, c)

-----------------------------------------------------------------------------
(* The aggregation *)

(* A narrow interval with a majority of the received rates.                *)
HasMajority(rates, low, high) ==
    /\ low > 0 /\ high <= MaxRate /\ low <= high
    /\ high - low <= low \div MAX_RELATIVE_DIFFERENCE_DIVISOR
    /\ 2 * Cardinality({i \in DOMAIN rates : low <= rates[i] /\ rates[i] <= high})
          > Cardinality(DOMAIN rates)

(* If more than half of the rates received for an asset lie within a fifth *)
(* of each other, the rate of the asset lies among them, whatever the      *)
(* other sources answered (QueriedExchangeRate::new: the filter takes away *)
(* from the minority only).                                                *)
MajorityDecides ==
    \A o \in DOMAIN received : \A low, high \in Range(received[o]) :
        HasMajority(received[o], low, high) => Median(OperandOf(o).rates) \in low..high

-----------------------------------------------------------------------------
(* The quote *)

Kept(o) == OperandOf(o).rates
CoinRates == UNION {ToSet(Coins[i].rates) : i \in DOMAIN Coins}

(* The quotient of two assets: r / 10^d is at most the highest rate of the *)
(* base by the lowest of the quote asset, and at least the opposite one    *)
(* less what the two divisions round away.                                 *)
QuotientWithinSources ==
    LET r == reply.direct.rates
        d == reply.direct.decimals
        one == TenTo[2 * DECIMALS]
    IN  /\ Highest(r) * Lowest(Kept("quote")) <= Highest(Kept("base")) * TenTo[d]
        /\ (Lowest(r) + 1) * TenTo[2 * DECIMALS - d] * Highest(Kept("quote"))
              > Lowest(Kept("base")) * (one - Highest(Kept("quote")) + 1)

(* A price in a fiat currency, by way of USD with the decimals of `usd':   *)
(* at most the highest rate of the base asset by the lowest ones of the    *)
(* stablecoins and of the currency, and at least the opposite one less     *)
(* what the divisions round away, first in USD and then in the currency.   *)
FiatPriceWithinSources ==
    LET r == reply.direct.rates
        d == reply.direct.decimals
        usd == Times(OperandOf("base"), StablecoinRate(Coins, "USD"))
        dearest == Max(CoinRates)
        one == TenTo[2 * DECIMALS]
    IN  /\ Highest(r) * Min(CoinRates) * Lowest(Kept("forex"))
              <= Highest(Kept("base")) * TenTo[DECIMALS + d]
        /\ (Lowest(r) + 1) * TenTo[3 * DECIMALS - d] * dearest * Highest(Kept("forex"))
              > (one - Highest(Kept("forex")) + 1)
                    * (Lowest(Kept("base")) * (one - dearest + 1)
                           - dearest * TenTo[2 * DECIMALS - usd.decimals])

(* The rates of a quote lie within the range that the rates of its         *)
(* operands span, at the number of decimals the reply names, however often *)
(* they were scaled on the way (Mul, inverted, get_stablecoin_rate).       *)
QuoteWithinSources ==
    IsQuoted => IF request.pair = "same" THEN QuotientWithinSources ELSE FiatPriceWithinSources

(* A composed rate is refused as inconsistent unless more than half of the *)
(* products (half of them and one more) lie within a tenth of the smallest *)
(* of them, and a rate that is refused for no other reason is quoted       *)
(* (validate).                                                             *)
AgreementRequired ==
    reply.result \in {"Ok", "InconsistentRatesReceived"} =>
        LET r == reply.direct.rates
        IN  IsQuoted <=> \E low \in ToSet(r) :
                2 * Cardinality({i \in DOMAIN r :
                        low <= r[i] /\ r[i] <= low + low \div RATE_DEVIATION_DIVISOR})
                    >= 2 * (Len(r) \div 2) + 2

(* The deviation in a reply is the root of the variance of its rates,      *)
(* rounded down (integer_sqrt); those of a fiat-crypto pair are inverses.  *)
DeviationExact ==
    LET rates == (IF request.pair = "fc" THEN Inverted(reply.direct) ELSE reply.direct).rates
    IN  IsQuoted /\ Len(rates) >= 2 =>
            LET v == Variance(rates)
                d == reply.quote.deviation
            IN  d * d <= v /\ v < (d + 1) * (d + 1)

(* utils.rs, at checked_invert_rate: "If the rate cannot be inverted,      *)
(* return None."  A quote of a fiat-crypto pair would then be the inverse  *)
(* of a rate of the crypto-fiat pair, or there would be none.              *)
InvertedOrRefused ==
    IsQuoted /\ request.pair = "fc" =>
        LET r == reply.direct.rates
            one == TenTo[2 * reply.quote.decimals]
            scale == TenTo[reply.quote.decimals - reply.direct.decimals]
        IN  /\ reply.quote.rate * Lowest(r) * scale <= one
            /\ (reply.quote.rate + 1) * Highest(r) * scale > one

=============================================================================
