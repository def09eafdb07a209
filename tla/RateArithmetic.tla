--------------------------- MODULE RateArithmetic ---------------------------
(***************************************************************************)
(* How rates are filtered, multiplied, inverted, validated and reported:   *)
(* QueriedExchangeRate of src/xrc/src/lib.rs and the functions of utils.rs *)
(* and stablecoin.rs it uses.  Everything is integer arithmetic on rates   *)
(* scaled by a power of ten.  The code works with DECIMALS = 9 and 64-bit  *)
(* rates; both are parameters here, to be scaled down together.            *)
(***************************************************************************)
EXTENDS Integers, SequencesExt

CONSTANTS
    DECIMALS,   \* decimals of a rate unless it says otherwise
    WORD        \* 2^64, the number of values of the type u64

(* The values a loop goes through: its start, and from each the next one.  *)
Iterated(next, start) ==
    LET values[k \in Nat] == IF k = 0 THEN start ELSE next[values[k - 1]] IN values

(* Powers.  (The provers do not know `^'.) *)
TenTo == Iterated([n \in Nat |-> 10 * n], 1)
FourTo == Iterated([n \in Nat |-> 4 * n], 1)

RATE_UNIT == TenTo[DECIMALS]
MaxRate == RATE_UNIT * RATE_UNIT

(* A multiple of a rate in range is a 64-bit number. *)
ASSUME ScaleAssumption ==
    /\ DECIMALS \in Nat \ {0}
    /\ WORD \in Nat /\ WORD > 10 * MaxRate

MAX_RELATIVE_DIFFERENCE_DIVISOR == 5
RATE_DEVIATION_DIVISOR == 10

NoTime == -1

(* The part of a QueriedExchangeRate the arithmetic depends on: a side is  *)
(* the asset with how many sources were asked for it and how many rates    *)
(* they returned, `rates' holds what is left of them.                      *)
Side(asset, queried, received) ==
    [asset |-> asset, queried |-> queried, received |-> received]

Rate(base, quote, rates, decimals, forexDay) ==
    [base |-> base, quote |-> quote, rates |-> rates, decimals |-> decimals,
     forexDay |-> forexDay]

-----------------------------------------------------------------------------
(* Statistics of utils.rs *)

Distance(a, b) == IF a > b THEN a - b ELSE b - a
Lesser(a, b) == IF a < b THEN a ELSE b
Greater(a, b) == IF a > b THEN a ELSE b

CountBelow(f, x) == Cardinality({i \in DOMAIN f : f[i] < x})
CountUpTo(f, x) == Cardinality({i \in DOMAIN f : f[i] <= x})

(* The values of a function in ascending order: fewer than k of them are   *)
(* below the k-th one, at least k are not above it.                        *)
Sorted(f) ==
    [k \in 1..Cardinality(DOMAIN f) |->
        CHOOSE x \in Range(f) : CountBelow(f, x) < k /\ k <= CountUpTo(f, x)]

(* 0 stands for the median of no rates.  The sum of two rates is a 64-bit  *)
(* number as they are.                                                     *)
Median(rates) ==
    LET s == Sorted(rates)
        n == Len(s)
    IN  IF n = 0 THEN 0
        ELSE IF n % 2 = 0 THEN ((s[n \div 2] + s[n \div 2 + 1]) % WORD) \div 2
        ELSE s[n \div 2 + 1]

(* The value nearest to the median; of two such values, the one that       *)
(* stands first.                                                           *)
MedianInSet(rates) ==
    LET median == Median(rates)
        nearest(i) == \A j \in 1..Len(rates) :
                         Distance(rates[i], median) <= Distance(rates[j], median)
    IN  IF Len(rates) % 2 = 1 THEN median
        ELSE rates[CHOOSE i \in 1..Len(rates) :
                      nearest(i) /\ \A j \in 1..i - 1 : ~nearest(j)]

(* The binary algorithm for square roots: `power' runs through the powers  *)
(* of four from the largest one that does not exceed the number.           *)
RootStates(number, count) ==
    LET next(state) ==
            LET power == state.power \div 4
                trial == state.result + power
                half == state.result \div 2
            IN  IF state.rest >= trial
                THEN [power |-> power, rest |-> state.rest - trial, result |-> half + power]
                ELSE [power |-> power, rest |-> state.rest, result |-> half]
    IN  Iterated([state \in [power : Nat, rest : Nat, result : Nat] |-> next(state)],
                 [power |-> FourTo[count], rest |-> number, result |-> 0])

SquareRoot(number) ==
    LET count == CHOOSE k \in 0..number :
                    FourTo[k] > number /\ \A j \in 0..k - 1 : FourTo[j] <= number
    IN  RootStates(number, count)[count].result

Variance(rates) ==
    LET mean == SumFunction(rates) \div Len(rates)
        square(n) == n * n
    IN  SumFunction([i \in DOMAIN rates |-> square(rates[i] - mean)]) \div (Len(rates) - 1)

(* Variant: the variance of a population, not of a sample. *)
DeviationOfPopulation(rates) ==
    IF Len(rates) < 2 THEN 0
    ELSE SquareRoot((Variance(rates) * (Len(rates) - 1)) \div Len(rates))

StandardDeviation(rates) == IF Len(rates) < 2 THEN 0 ELSE SquareRoot(Variance(rates))

-----------------------------------------------------------------------------
(* QueriedExchangeRate *)

(* Variant: the bound is the one for the deviation of composed rates. *)
CloseToTenth(rate, median) == Distance(rate, median) <= median \div RATE_DEVIATION_DIVISOR

CloseTo(rate, median) ==
    Distance(rate, median) <= median \div MAX_RELATIVE_DIFFERENCE_DIVISOR

(* QueriedExchangeRate::new on the rates the sources returned. *)
Retained(rates) ==
    LET median == Median(rates)
        isKept(rate) == rate > 0 /\ rate <= MaxRate /\ CloseTo(rate, median)
    IN  Sorted(RestrictValues(rates, isKept))

NewRate(base, quote, rates, queried, received, forexDay) ==
    Rate(Side(base, queried, received), Side(quote, queried, received),
         Retained(rates), DECIMALS, forexDay)

(* The element in the middle of a sorted sequence, 0 if it is empty. *)
MiddleOf(s) == IF s = <<>> THEN 0 ELSE s[Len(s) \div 2 + 1]

(* checked_invert_rate of a rate that is not 0: the quotient is cut to 64  *)
(* bits.                                                                   *)
Invert(rate, decimals) == (TenTo[2 * decimals] \div rate) % WORD

(* QueriedExchangeRate::inverted.  Decimals are added as long as the       *)
(* median is too large for its inverse to be positive.                     *)
Inverted(rate) ==
    LET maxValue == TenTo[2 * rate.decimals]
        median == MiddleOf(Sorted(rate.rates))
        added == Min({k \in 0..2 * DECIMALS + 1 :
                         median <= maxValue * TenTo[k] \/ rate.decimals + k > 2 * DECIMALS})
        decimals == rate.decimals + added
        invertible == {i \in DOMAIN rate.rates : decimals <= 2 * DECIMALS /\ rate.rates[i] > 0}
    IN  Rate(rate.quote, rate.base,
             Sorted([i \in invertible |-> Invert(rate.rates[i] * TenTo[added], decimals)]),
             decimals, rate.forexDay)

(* The day of the forex rates in a product, if they agree on it. *)
MergedDay(a, b) == IF a = b THEN a ELSE IF NoTime \in {a, b} THEN Greater(a, b) ELSE NoTime

(* Variant: a product keeps the scale of its first factor. *)
ScaledByFirst(all, few, many) == [rates |-> all, decimals |-> many]

(* The products, scaled by both factors, brought to a scale at which their *)
(* median is at least 1 and at most MaxRate.  `few' and `many' are the     *)
(* decimals of the factor with fewer and with more of them.                *)
Rescaled(all, few, many) ==
    LET median == MiddleOf(all)
        added == Min({few} \cup {k \in 0..few : median >= TenTo[few - k]})
        denominator == IF median = 0 THEN 0 ELSE TenTo[few - added]
        grown == many + (IF median = 0 THEN few + 1 ELSE added)
        quotients == IF denominator > 0 /\ grown <= 2 * DECIMALS
                     THEN [i \in DOMAIN all |-> all[i] \div denominator]
                     ELSE <<>>
        newMedian == IF denominator = 0 THEN 0 ELSE median \div denominator
        removed == Min({grown} \cup {k \in 0..grown : newMedian \div TenTo[k] <= MaxRate})
    IN  [rates |-> [i \in DOMAIN quotients |-> quotients[i] \div TenTo[removed]],
         decimals |-> grown - removed]

Products(a, b) == Sorted([ij \in (DOMAIN a) \X (DOMAIN b) |-> a[ij[1]] * b[ij[2]]])

(* Variant: the bounds of a rate are not enforced on products. *)
TimesUnbounded(a, b) ==
    LET all == Products(a.rates, b.rates)
        scaled == Rescaled(all, Lesser(a.decimals, b.decimals), Greater(a.decimals, b.decimals))
    IN  Rate(a.base, b.quote, scaled.rates, scaled.decimals, MergedDay(a.forexDay, b.forexDay))

(* Mul: every rate of one factor with every rate of the other.  The result *)
(* is not trusted if less than half of the products are in range.          *)
Times(a, b) ==
    LET all == Products(a.rates, b.rates)
        scaled == Rescaled(all, Lesser(a.decimals, b.decimals), Greater(a.decimals, b.decimals))
        kept == Sorted(RestrictValues(scaled.rates, LAMBDA r : r > 0 /\ r <= MaxRate))
    IN  Rate(a.base, b.quote,
             IF Len(kept) < (Len(all) + 1) \div 2 THEN <<>> ELSE kept,
             scaled.decimals, MergedDay(a.forexDay, b.forexDay))

(* Div *)
DividedBy(a, b) == Times(a, Inverted(b))

(* Variant: the windows looked at hold one rate less. *)
WindowsShort(rates) ==
    LET n == Len(rates)
        half == Greater(n \div 2 - 1, 0)
    IN  {rates[end] - rates[end - half] <= rates[end - half] \div RATE_DEVIATION_DIVISOR :
            end \in half + 1..n}

(* For each window of half of the sorted rates and one more: whether it is *)
(* narrow enough.                                                          *)
Windows(rates) ==
    LET n == Len(rates)
        half == n \div 2
    IN  {rates[end] - rates[end - half] <= rates[end - half] \div RATE_DEVIATION_DIVISOR :
            end \in half + 1..n}

(* QueriedExchangeRate::validate *)
Validated(rate) ==
    LET median == Median(rate.rates)
    IN  IF median = 0 \/ median > MaxRate THEN "InvalidRate"
        ELSE IF TRUE \notin Windows(rate.rates) THEN "InconsistentRatesReceived"
        ELSE "Ok"

(* From<QueriedExchangeRate> for ExchangeRate *)
Reply(rate) ==
    [base |-> rate.base, quote |-> rate.quote, rate |-> Median(rate.rates),
     decimals |-> rate.decimals, deviation |-> StandardDeviation(rate.rates),
     forexDay |-> rate.forexDay]

-----------------------------------------------------------------------------
(* get_stablecoin_rate of stablecoin.rs on the rates of the stablecoins    *)
(* against USDT: its error, and the rate it returns if there is none.      *)
MIN_NUM_STABLECOIN_RATES == 2

CoinMedians(coins) == [i \in DOMAIN coins |-> Median(coins[i].rates)]

StablecoinResult(coins) ==
    IF Len(coins) < MIN_NUM_STABLECOIN_RATES THEN "StablecoinRateTooFewRates"
    ELSE IF \E i \in DOMAIN coins : coins[i].quote.asset # coins[1].quote.asset
         THEN "StablecoinRateNotFound"
    ELSE IF MedianInSet(CoinMedians(coins)) = 0 THEN "StablecoinRateZeroRate"
    ELSE "Ok"

StablecoinRate(coins, target) ==
    LET medians == CoinMedians(coins)
        best == MedianInSet(medians)
        chosen == coins[CHOOSE i \in DOMAIN coins :
                           medians[i] = best /\ \A j \in 1..i - 1 : medians[j] # best]
    IN  Inverted(NewRate(target, chosen.quote.asset, chosen.rates,
                         chosen.base.queried, chosen.base.received, NoTime))

=============================================================================
