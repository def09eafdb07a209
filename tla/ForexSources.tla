----------------------------- MODULE ForexSources -----------------------------
(***************************************************************************)
(* The forex sources of src/xrc/src/forex.rs and src/xrc/src/forex/: what  *)
(* the document a central bank publishes becomes, the number of US dollars *)
(* a unit of each currency is worth on a day.                              *)
(*                                                                         *)
(* A document has a day and items.  An item has its own day, the symbol of *)
(* a currency, a number num/den, for how many units of the currency it is, *)
(* and whether it is a price of the currency or the amount of the currency *)
(* one gets for a unit of the bank's own.  Days are numbered.  The mean of *)
(* a buying and a selling price stands for the two.                        *)
(***************************************************************************)
EXTENDS RateArithmetic

Fails == [ok |-> FALSE, rates |-> <<>>]
Answer(rates) == [ok |-> TRUE, rates |-> rates]

AllForexSources ==
    <<"CentralBankOfMyanmar", "CentralBankOfBosniaHerzegovina", "EuropeanCentralBank",
      "BankOfCanada", "CentralBankOfUzbekistan", "ReserveBankOfAustralia",
      "CentralBankOfNepal", "CentralBankOfGeorgia", "BankOfItaly",
      "SwissFederalOfficeForCustoms", "CentralBankOfTurkey">>

(* A bank: `utcOffset' in hours, `queryShift' the days by which the date   *)
(* asked for is later than the day meant, `own' the currency whose rate is *)
(* not in the document, `priced' whether items are prices ("yes"), amounts *)
(* ("no") or say so themselves ("item"), `dated' whether the document has  *)
(* the date that is checked, or its items, of which those with another     *)
(* date are left out ("items") or spoil the document ("all"), `perUnits'   *)
(* how many units of a currency prices are taken to be for: one ("no"), as *)
(* many as the item says ("item"), or one unless they are for yen ("JPY"), *)
(* `omitted' whether an item is left out if its value, or the rate it      *)
(* gives, is 0.                                                            *)
DefaultSource ==
    [utcOffset |-> 1, queryShift |-> 0, own |-> "none", priced |-> "yes",
     dated |-> "document", perUnits |-> "no", omitted |-> {}]

CentralBankOfMyanmar ==
    [DefaultSource EXCEPT !.utcOffset = 6, !.perUnits = "JPY"]

CentralBankOfBosniaHerzegovina ==
    [DefaultSource EXCEPT !.queryShift = 1, !.perUnits = "item"]

EuropeanCentralBank == [DefaultSource EXCEPT !.own = "EUR", !.priced = "no"]

BankOfCanada ==
    [DefaultSource EXCEPT !.utcOffset = -8, !.own = "CAD", !.dated = "all"]

CentralBankOfUzbekistan == [DefaultSource EXCEPT !.utcOffset = 5, !.dated = "all"]

ReserveBankOfAustralia ==
    [DefaultSource EXCEPT
        !.utcOffset = 10, !.own = "AUD", !.priced = "no", !.dated = "items",
        !.omitted = {"value", "rate"}]

CentralBankOfNepal == [DefaultSource EXCEPT !.utcOffset = 5, !.perUnits = "item"]

CentralBankOfGeorgia ==
    [DefaultSource EXCEPT !.utcOffset = 4, !.queryShift = 1, !.perUnits = "item"]

BankOfItaly ==
    [DefaultSource EXCEPT
        !.own = "EUR", !.priced = "item", !.dated = "items", !.omitted = {"value"}]

SwissFederalOfficeForCustoms ==
    [DefaultSource EXCEPT !.own = "CHF", !.perUnits = "item", !.omitted = {"value"}]

CentralBankOfTurkey ==
    [DefaultSource EXCEPT
        !.utcOffset = 3, !.own = "TRY", !.perUnits = "item", !.omitted = {"value"}]

ForexSource(name) ==
    CASE name = "CentralBankOfMyanmar" -> CentralBankOfMyanmar
      [] name = "CentralBankOfBosniaHerzegovina" -> CentralBankOfBosniaHerzegovina
      [] name = "EuropeanCentralBank" -> EuropeanCentralBank
      [] name = "BankOfCanada" -> BankOfCanada
      [] name = "CentralBankOfUzbekistan" -> CentralBankOfUzbekistan
      [] name = "ReserveBankOfAustralia" -> ReserveBankOfAustralia
      [] name = "CentralBankOfNepal" -> CentralBankOfNepal
      [] name = "CentralBankOfGeorgia" -> CentralBankOfGeorgia
      [] name = "BankOfItaly" -> BankOfItaly
      [] name = "SwissFederalOfficeForCustoms" -> SwissFederalOfficeForCustoms
      [] name = "CentralBankOfTurkey" -> CentralBankOfTurkey

(* The date asked for to get the rates of a day. *)
QueryDay(name, day) == day + ForexSource(name).queryShift

-----------------------------------------------------------------------------
(* From a document to rates *)

IsPrice(source, item) ==
    source.priced = "yes" \/ (source.priced = "item" /\ item.isPrice)

(* How many units of its currency a price is taken to be for. *)
UnitsTaken(source, item) ==
    CASE source.perUnits = "item" -> item.units
      [] source.perUnits = "JPY" -> IF item.symbol = "JPY" THEN 100 ELSE 1
      [] OTHER -> 1

(* An item's price of a unit of its currency in the bank's own, as a rate. *)
(* The conversion of an infinite quotient to a 64-bit number gives the     *)
(* largest one.                                                            *)
ItemRate(source, item) ==
    IF IsPrice(source, item)
    THEN (item.num * RATE_UNIT) \div (item.den * UnitsTaken(source, item))
    ELSE IF item.num = 0 THEN WORD - 1
    ELSE (item.den * RATE_UNIT) \div item.num

(* The items that count for a date. *)
UsableItems(source, document, date) ==
    {item \in document.items :
        /\ source.dated = "items" => item.day = date
        /\ "value" \in source.omitted => item.num > 0
        /\ "rate" \in source.omitted => ItemRate(source, item) > 0}

(* Whether a document is rejected for its date. *)
IsOutdated(source, document, date) ==
    \/ source.dated = "document" /\ document.day # date
    \/ source.dated = "all" /\ \E item \in document.items : item.day # date

(* normalize_to_usd: rates in the bank's currency become rates in USD.     *)
(* Without a rate of USD, or with 0 for it, the transform fails.           *)
NormalizeToUsd(values) ==
    IF "USD" \notin DOMAIN values \/ values["USD"] = 0 THEN Fails
    ELSE Answer([c \in DOMAIN values |-> ((RATE_UNIT * values[c]) \div values["USD"]) % WORD])

(* Variant: the date of a document is not looked at.                       *)
ExtractUndated(name, document, date) ==
    LET source == ForexSource(name)
        items == UsableItems(source, document, date)
        quoted == {item.symbol : item \in items}
        rate(c) == ItemRate(source, CHOOSE item \in items : item.symbol = c)
    IN  NormalizeToUsd([c \in quoted \cup ({source.own} \ {"none"}) |->
                            IF c = source.own THEN RATE_UNIT ELSE rate(c)])

(* extract_rate *)
ExtractRates(name, document, date) ==
    LET source == ForexSource(name)
        items == UsableItems(source, document, date)
        quoted == {item.symbol : item \in items}
        rate(c) == ItemRate(source, CHOOSE item \in items : item.symbol = c)
    IN  IF IsOutdated(source, document, date) THEN Fails
        ELSE NormalizeToUsd([c \in quoted \cup ({source.own} \ {"none"}) |->
                                IF c = source.own THEN RATE_UNIT ELSE rate(c)])

-----------------------------------------------------------------------------
(* Documents.  `worth' is what a unit of each currency is worth on each    *)
(* day, in some common unit.                                               *)

HomeCurrency(name) ==
    CASE name \in {"EuropeanCentralBank", "BankOfItaly"} -> "EUR"
      [] name = "BankOfCanada" -> "CAD"
      [] name = "ReserveBankOfAustralia" -> "AUD"
      [] name = "SwissFederalOfficeForCustoms" -> "CHF"
      [] name = "CentralBankOfTurkey" -> "TRY"
      [] OTHER -> "LCU"

(* The currencies that banks give the price of a hundred units of, as the  *)
(* Central Bank of Myanmar does in test-data/forex of src/xrc (1850 kyat   *)
(* for a dollar and 12.469 for a hundred rupiah).                          *)
PerHundred == {"JPY", "KRW", "IDR", "VND", "LAK", "KHR"}

(* How many units of a currency a price is for, which the document of the  *)
(* Central Bank of Myanmar does not say.                                   *)
Units(symbol) == IF symbol \in PerHundred THEN 100 ELSE 1

(* These banks publish under the date on which the rates apply, the day    *)
(* after the one they are from.                                            *)
PublicationShift(name) ==
    IF name \in {"CentralBankOfBosniaHerzegovina", "CentralBankOfGeorgia"} THEN 1 ELSE 0

(* What a bank publishes about one currency under a date, 0 if `isZero'.   *)
PublishedItem(name, worth, symbol, date, isZero) ==
    LET day == date - PublicationShift(name)
        own == worth[day][HomeCurrency(name)]
        priced == \/ ForexSource(name).priced = "yes"
                  \/ ForexSource(name).priced = "item" /\ symbol = "USD"
        units == IF ForexSource(name).perUnits = "no" THEN 1 ELSE Units(symbol)
    IN  [symbol |-> symbol, day |-> date, isPrice |-> priced,
         num |-> IF isZero THEN 0
                 ELSE IF priced THEN worth[day][symbol] * units ELSE own,
         den |-> IF priced THEN own ELSE worth[day][symbol],
         units |-> units]

Published(name, worth, symbols, date, zeros) ==
    [day |-> date,
     items |-> {PublishedItem(name, worth, c, date, c \in zeros) :
                    c \in symbols \ {HomeCurrency(name)}}]

=============================================================================
