--------------------------- MODULE MCPeriodicTasks ---------------------------
(***************************************************************************)
(* Instances of PeriodicTasks for TLC.                                     *)
(***************************************************************************)
EXTENDS PeriodicTasksProperties

CONSTANTS h1, h2, e1, e2

LOCAL INSTANCE TLC
LOCAL Exchange == INSTANCE Exchanges
LOCAL Forex == INSTANCE ForexSources WITH DECIMALS <- 1, WORD <- 1000

(* Wednesday, the second of October 2024. *)
LOCAL Wednesday == 19998 * ONE_DAY_SECONDS
LOCAL Moment(day, hour, minute) ==
    Wednesday + day * ONE_DAY_SECONDS + hour * ONE_HOUR_SECONDS + minute * 60

BasketOnly == {"EUR", "CNY", "JPY", "GBP"}
NoOffset == [source \in Sources |-> 1]

(* Listings: around a midnight, with retries within and after the hour,    *)
(* and after three days.                                                   *)
ListingMoments ==
    {Moment(0, 23, 0), Moment(0, 23, 30), Moment(1, 0, 15), Moment(1, 0, 30), Moment(4, 1, 0)}
OneSource == <<"EuropeanCentralBank">>

(* What becomes of listings with some markets against another asset: one   *)
(* that has BTC, one half as long that has it suspended, and a short one.  *)
LOCAL Market(base, status, type) ==
    [base |-> base, quote |-> IF base = "BTC" THEN "USDT" ELSE "USD",
     status |-> status, type |-> type]
LOCAL Listing(n, market) ==
    Exchange!ListedPairsOf("CryptoCom",
        {Market(ToString(i), "tradable", "CCY_PAIR") : i \in 1..n}
            \cup {market, Market("BTC", "tradable", "PERPETUAL_SWAP")})
MCListingAnswers ==
    {[bases |-> {"BTC"}, total_markets |-> 101],
     [bases |-> {}, total_markets |-> 50], [bases |-> {"BTC"}, total_markets |-> 49]}

ASSUME ListingAnswersAreParsed ==
    MCListingAnswers =
        {Listing(100, Market("BTC", "tradable", "CCY_PAIR")),
         Listing(49, Market("BTC", "suspended", "CCY_PAIR")),
         Listing(48, Market("BTC", "tradable", "CCY_PAIR"))}

(* Forex: sources on both sides of UTC, a weekend, several fetches a day.  *)
ForexMoments == {Moment(0, 0, 0), Moment(0, 1, 0), Moment(0, 6, 0), Moment(1, 0, 0), Moment(4, 1, 0)}
ThreeSources == <<"CentralBankOfBosniaHerzegovina", "EuropeanCentralBank", "BankOfCanada">>
MCUtcOffset ==
    [source \in Sources |-> IF source = "BankOfCanada" THEN -8 ELSE 1]

ASSUME UtcOffsetsOfTheSources ==
    \A i \in DOMAIN ThreeSources :
        LET source == ThreeSources[i]
        IN  Forex!ForexSource(source).utcOffset = IF source = "BankOfCanada" THEN -8 ELSE 1

MCForexAnswers == {BasketOnly \cup {"USD"}, {"EUR", "USD"}}

=============================================================================
