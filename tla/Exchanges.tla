------------------------------ MODULE Exchanges ------------------------------
(***************************************************************************)
(* The exchanges of src/xrc/src/exchanges.rs: which candles each of them   *)
(* is asked for, which price of a candle is taken for the rate, and how a  *)
(* listing becomes the set of assets traded against USDT.                  *)
(*                                                                         *)
(* An exchange is a record.  A request for the minute that starts at t     *)
(* (in seconds) is for the candles whose start (in milliseconds) is at     *)
(* least `from' and at most `to'; the answer has the `pick' one of them    *)
(* first, and the code looks at the first one only.                        *)
(***************************************************************************)
EXTENDS Integers, FiniteSetsExt, SequencesExt

MINUTE == 60

COINBASE_CANDLE_END_OFFSET_SEC == 60
COINBASE_CANDLE_LOOKBACK_SEC == 6 * 60
KUCOIN_CANDLE_END_OFFSET_SEC == 60
KUCOIN_CANDLE_LOOKBACK_SEC == 6 * 60

NoBound == 10 ^ 9

EXCHANGES ==
    <<"Coinbase", "KuCoin", "Okx", "GateIo", "Mexc", "Poloniex", "CryptoCom",
      "Bitget", "Digifinex">>

(* Time does not go below 0. *)
Before(t, seconds) == IF t > seconds THEN t - seconds ELSE 0

(* What the exchanges have in common unless they say otherwise. *)
DefaultExchange(t) ==
    [from |-> 1000 * t, to |-> 1000 * t, pick |-> "newest", price |-> "open",
     closedOnly |-> FALSE,
     stablecoinPairs |-> <<<<"USDS", "USDT">>, <<"USDC", "USDT">>>>,
     tradable |-> {}, spot |-> {"spot"}]

(* Variants: windows that end with the requested minute. *)
CoinbaseUpToNow(t) ==
    [DefaultExchange(t) EXCEPT
        !.from = 1000 * Before(t, COINBASE_CANDLE_LOOKBACK_SEC),
        !.stablecoinPairs = <<<<"USDT", "USDC">>>>,
        !.tradable = {"online"}]

Coinbase(t) ==
    [DefaultExchange(t) EXCEPT
        !.from = 1000 * Before(t, COINBASE_CANDLE_LOOKBACK_SEC),
        !.to = 1000 * Before(t, COINBASE_CANDLE_END_OFFSET_SEC),
        !.stablecoinPairs = <<<<"USDT", "USDC">>>>,
        !.tradable = {"online"}]

(* The end of the window is excluded. *)
KuCoin(t) ==
    [DefaultExchange(t) EXCEPT
        !.from = 1000 * Before(t, KUCOIN_CANDLE_LOOKBACK_SEC),
        !.to = 1000 * (Before(t, KUCOIN_CANDLE_END_OFFSET_SEC) + 1) - 1,
        !.stablecoinPairs = <<<<"USDC", "USDT">>>>,
        !.tradable = {"enabled"}]

(* Both ends of the window are excluded, and the minute that is not over   *)
(* is not in the answer.                                                   *)
Okx(t) ==
    [DefaultExchange(t) EXCEPT
        !.from = Before(1000 * t, 60001) + 1, !.to = 1000 * t + 1 - 1,
        !.closedOnly = TRUE, !.tradable = {"live"}]

(* The rate is the highest price of the minute. *)
GateIo(t) == [DefaultExchange(t) EXCEPT !.price = "high", !.tradable = {"tradable"}]

(* One candle that starts at the requested time or later.  The listing has *)
(* tradable markets only.                                                  *)
Mexc(t) == [DefaultExchange(t) EXCEPT !.to = NoBound, !.pick = "oldest", !.tradable = {"listed"}]

Poloniex(t) ==
    [DefaultExchange(t) EXCEPT
        !.to = 1000 * t + 1, !.stablecoinPairs = <<<<"USDT", "USDC">>>>,
        !.tradable = {"NORMAL"}]

(* One candle that starts at the requested time or later.  The listing has *)
(* markets of other types too.                                             *)
CryptoCom(t) ==
    [DefaultExchange(t) EXCEPT
        !.to = NoBound, !.stablecoinPairs = <<>>,
        !.tradable = {"tradable"}, !.spot = {"CCY_PAIR"}]

(* The last candle that starts before the end of the requested minute. *)
Bitget(t) ==
    [DefaultExchange(t) EXCEPT
        !.from = 0, !.to = 1000 * t + 60000 - 1, !.tradable = {"online"}]

Digifinex(t) == [DefaultExchange(t) EXCEPT !.tradable = {"TRADING"}]

(* The exchange, asked for the minute of a timestamp. *)
Exchange(name, timestamp) ==
    LET t == (timestamp \div MINUTE) * MINUTE
    IN  CASE name = "Coinbase" -> Coinbase(t)
          [] name = "KuCoin" -> KuCoin(t)
          [] name = "Okx" -> Okx(t)
          [] name = "GateIo" -> GateIo(t)
          [] name = "Mexc" -> Mexc(t)
          [] name = "Poloniex" -> Poloniex(t)
          [] name = "CryptoCom" -> CryptoCom(t)
          [] name = "Bitget" -> Bitget(t)
          [] name = "Digifinex" -> Digifinex(t)

-----------------------------------------------------------------------------
(* Candles *)

(* The starts of the candles in an exchange's answer at the time `now': no *)
(* exchange has one for a minute without a trade.  `trades' are the prices *)
(* paid in each minute, in their order.                                    *)
CandlesInAnswer(exchange, trades, now) ==
    {start \in DOMAIN trades :
        /\ trades[start] # <<>>
        /\ exchange.from <= 1000 * start /\ 1000 * start <= exchange.to
        /\ exchange.closedOnly => start + MINUTE <= now}

FirstCandle(exchange, candles) ==
    IF exchange.pick = "newest" THEN Max(candles) ELSE Min(candles)

PriceOf(exchange, prices) ==
    IF exchange.price = "high" THEN Max(ToSet(prices)) ELSE Head(prices)

-----------------------------------------------------------------------------
(* Listings.  A market is a record with its base and quote asset, its      *)
(* status and its type.                                                    *)

(* extract_listed_pairs: what is traded against USDT, and how many markets *)
(* of any kind there are.                                                  *)
ListedPairsOf(name, markets) ==
    LET exchange == Exchange(name, 0)
        spot == {m \in markets : m.type \in exchange.spot}
    IN  [bases |-> {m.base : m \in {s \in spot : s.status \in exchange.tradable
                                                 /\ s.quote = "USDT"}},
         total_markets |-> Cardinality(spot)]

=============================================================================
