----------------------------- MODULE ForexRates -----------------------------
(***************************************************************************)
(* The forex collector and the forex store of src/xrc/src/forex.rs.        *)
(*                                                                         *)
(* A rate is the number of sources it comes from: which rate replaces      *)
(* which, which day a lookup uses and which error it returns depend on     *)
(* that number alone. A map of rates gives every symbol its number, 0 if   *)
(* the symbol is not in the map. A day is the timestamp of its start.      *)
(***************************************************************************)
EXTENDS Durations, SequencesExt

CONSTANTS
    Currencies,                 \* the fiat currencies besides USD
    FOREX_SOURCES,              \* every source, in the order of the code
    AvailableSources,           \* those this build calls
    UtcOffset,                  \* hours the clock of a source is ahead of UTC
    MIN_SOURCES_TO_REPORT

MAX_COLLECTION_DAYS == 2
MAX_DAYS_TO_GO_BACK == 7

CxdrBasket == {"EUR", "CNY", "JPY", "GBP"}
Symbols == Currencies \cup {"CXDR"}
Sources == ToSet(FOREX_SOURCES)

(* The forex! macro gives each source one place in FOREX_SOURCES.          *)
ASSUME ForexAssumption ==
    /\ CxdrBasket \subseteq Currencies /\ {"USD", "CXDR"} \cap Currencies = {}
    /\ FOREX_SOURCES \in Seq(Sources) \ {<<>>} /\ IsInjective(FOREX_SOURCES)
    /\ AvailableSources \subseteq Sources
    /\ UtcOffset \in [Sources -> -12 .. 14]
    /\ MIN_SOURCES_TO_REPORT \in Nat \ {0}

StartOfDay(timestamp) == timestamp - (timestamp % ONE_DAY_SECONDS)

\* Sources that publish SDR mean XDR.
Renamed(symbol) == IF symbol = "SDR" THEN "XDR" ELSE symbol

Smallest(numbers) == CHOOSE n \in numbers : \A other \in numbers : n <= other

-----------------------------------------------------------------------------
(* The collector: the rates of the last days, oldest day first. *)

NoRates == [symbol \in Symbols |-> 0]
NewDay(day) == [timestamp |-> day, sources |-> {}, rates |-> NoRates]

\* The day's collector with the symbols a source reports in addition.
WithSource(collected, source, reported) ==
    IF reported = {} THEN collected
    ELSE [collected EXCEPT
            !.sources = @ \cup {source},
            !.rates = [symbol \in Symbols |->
                @[symbol] + Cardinality({s \in reported : Renamed(s) = symbol})]]

CollectedDays(collector) == {collector[i].timestamp : i \in DOMAIN collector}

\* Variant: the collector drops no day for a new one.
UpdateWithoutLimit(collector, source, day, reported) ==
    IF day \in CollectedDays(collector)
    THEN [i \in DOMAIN collector |->
            IF collector[i].timestamp = day
            THEN WithSource(collector[i], source, reported) ELSE collector[i]]
    ELSE IF \A other \in CollectedDays(collector) : day > other
    THEN Append(collector, WithSource(NewDay(day), source, reported))
    ELSE collector

\* A source's rates for a day: added to that day, to a day of their own when
\* it is the newest, or dropped.
Update(collector, source, day, reported) ==
    IF day \in CollectedDays(collector)
    THEN [i \in DOMAIN collector |->
            IF collector[i].timestamp = day
            THEN WithSource(collector[i], source, reported) ELSE collector[i]]
    ELSE IF \A other \in CollectedDays(collector) : day > other
    THEN Append(IF Len(collector) = MAX_COLLECTION_DAYS THEN Tail(collector)
                ELSE collector,
                WithSource(NewDay(day), source, reported))
    ELSE collector

OneDay(collector, day) ==
    CHOOSE collected \in ToSet(collector) : collected.timestamp = day

SourcesOf(collector, day) ==
    IF day \in CollectedDays(collector) THEN OneDay(collector, day).sources
    ELSE {}

\* Variant: CXDR has the sources of the euro.
RatesMapOfEuro(collector, day) ==
    LET rates == OneDay(collector, day).rates
    IN  [rates EXCEPT !["CXDR"] = rates["EUR"]]

\* The rates collected for a day, with that of CXDR, the weighted sum of USD
\* and of the currencies of its basket: as many sources as the least reported
\* of them has, and none if one of them is missing.
RatesMap(collector, day) ==
    LET rates == OneDay(collector, day).rates
    IN  [rates EXCEPT !["CXDR"] = Smallest({rates[c] : c \in CxdrBasket})]

-----------------------------------------------------------------------------
(* The store: for each day and symbol the rate of the most sources. *)

\* Variant: the new rates replace the old ones.
PutReplacing(stored, rates) ==
    [symbol \in Symbols |-> IF rates[symbol] > 0
                            THEN rates[symbol] ELSE stored[symbol]]

Put(stored, rates) ==
    [symbol \in Symbols |-> IF stored[symbol] < rates[symbol]
                            THEN rates[symbol] ELSE stored[symbol]]

\* The day before, while `current` is less than a day, corrected by the
\* smallest of the sources' offsets, after the start of the requested day.
ShiftToLatestSourceEod(requested, current) ==
    LET hours == Smallest({UtcOffset[source] : source \in Sources})
    IN  IF current < requested + ONE_DAY_SECONDS + hours * ONE_HOUR_SECONDS
        THEN requested - ONE_DAY_SECONDS ELSE requested

\* The days a lookup goes through that have enough rates of CXDR.
UsableDays(store, requested) ==
    {day \in {requested - back * ONE_DAY_SECONDS : back \in 0 .. MAX_DAYS_TO_GO_BACK}
        \cap DOMAIN store : store[day]["CXDR"] >= MIN_SOURCES_TO_REPORT}

\* A lookup: the day of the rate it returns, and its result. A day on which
\* the currency is missing is not skipped.
Get(store, requested_timestamp, current_timestamp, base, quote) ==
    LET requested == ShiftToLatestSourceEod(StartOfDay(requested_timestamp),
                                            current_timestamp)
        usable == UsableDays(store, requested)
        day == CHOOSE d \in usable : \A other \in usable : other <= d
        isFound(currency) == currency = "USD" \/ store[day][currency] > 0
    IN  IF base = quote THEN [day |-> requested, result |-> "Ok"]
        ELSE IF usable = {} THEN [day |-> 0, result |-> "ForexInvalidTimestamp"]
        ELSE [day |-> day, result |->
                CASE isFound(base) /\ isFound(quote) -> "Ok"
                  [] isFound(base) /\ ~isFound(quote) -> "ForexQuoteAssetNotFound"
                  [] ~isFound(base) /\ isFound(quote) -> "ForexBaseAssetNotFound"
                  [] OTHER -> "ForexAssetsNotFound"]

=============================================================================
