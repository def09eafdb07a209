----------------------------- MODULE ForexProofs -----------------------------
(***************************************************************************)
(* Proofs about the refresh of the forex store, for any sources, answers   *)
(* and times: what a fetch makes of the collector and of the store, and    *)
(* what lookups find there while heartbeats overlap, callbacks trap and    *)
(* the canister is upgraded.                                               *)
(***************************************************************************)
EXTENDS PeriodicTasksProofs, SumTheorems, SequenceTheorems

(* For CXDR no more sources are claimed than for any currency of its       *)
(* basket.                                                                 *)
BasketInStore ==
    \A day \in Days, currency \in CxdrBasket : store[day]["CXDR"] <= store[day][currency]

StoreInv == ForexTypeOK /\ StoreKeepsUp /\ BasketInStore

(* The next refresh is in the period after the last one, and a heartbeat   *)
(* that waits for sources began when it was due.                           *)
ForexScheduled ==
    /\ lastForexRun # 0 => nextForexRun = NextForexRun(lastForexRun)
    /\ \A h \in At("Forex") : nextForexRun <= tasks[h].timestamp

(* A source counts for the rates of a day once, and those that are waited  *)
(* for do not count yet.                                                   *)
Counts(collected) ==
    \A symbol \in Symbols \ {"XDR"} :
        collected.rates[symbol] <= Cardinality(collected.sources)

CountInv ==
    /\ \A i \in DOMAIN collector : Counts(collector[i])
    /\ SourcesCountedOnce
    /\ \A h \in At("Forex") : \A source \in tasks[h].sources :
          source \notin SourcesOf(collector,
                            KeyTimestamp(source, StartOfDay(tasks[h].timestamp)))

-----------------------------------------------------------------------------
(* Numbers and days *)

(* Of some numbers up to n one is the greatest. *)
LEMMA GreatestUpTo ==
    ASSUME NEW n \in Nat, NEW T, T \subseteq 0..n, T # {}
    PROVE  \E m \in T : \A other \in T : other <= m
<1> DEFINE U == {n - t : t \in T}
<1>1. \A t \in T : t \in Nat /\ t <= n /\ n - t \in Nat
  OBVIOUS
<1>2. U \subseteq Nat /\ U # {}
  BY <1>1
<1>3. PICK u \in U : \A other \in U : u <= other
  BY <1>2, LeastNatural
<1>4. PICK m \in T : u = n - m
  OBVIOUS
<1>5. ASSUME NEW other \in T PROVE other <= m
  <2>1. n - other \in U
    OBVIOUS
  <2>2. n - m <= n - other
    BY <1>3, <1>4, <2>1
  <2> HIDE DEF U
  <2> QED
    BY <1>1, <2>2
<1> QED
  BY <1>5

LEMMA MaxOfNumbers ==
    ASSUME NEW n \in Nat, NEW T, T \subseteq 0..n, T # {}
    PROVE  Max(T) \in T /\ \A other \in T : other <= Max(T)
<1>1. \E m \in T : \A other \in T : m >= other
  BY GreatestUpTo
<1>2. Max(T) \in T /\ \A other \in T : Max(T) >= other
  BY <1>1 DEF Max
<1>3. \A m \in T : m \in Nat
  OBVIOUS
<1> QED
  BY <1>2, <1>3

LEMMA SmallestNumber ==
    ASSUME NEW T, T \subseteq Nat, T # {}
    PROVE  Smallest(T) \in T /\ \A other \in T : Smallest(T) <= other
<1>1. \E m \in T : \A other \in T : m <= other
  BY LeastNatural
<1> QED
  BY <1>1 DEF Smallest

(* The sources are as many as their list is long. *)
LEMMA ForexSourcesListed ==
    /\ Len(FOREX_SOURCES) \in Nat \ {0} /\ DOMAIN FOREX_SOURCES = 1..Len(FOREX_SOURCES)
    /\ \A i \in 1..Len(FOREX_SOURCES) : FOREX_SOURCES[i] \in Sources
    /\ \A source \in Sources : \E i \in 1..Len(FOREX_SOURCES) : source = FOREX_SOURCES[i]
    /\ \A i, j \in 1..Len(FOREX_SOURCES) : FOREX_SOURCES[i] = FOREX_SOURCES[j] => i = j
<1>1. /\ FOREX_SOURCES \in Seq(Sources) /\ FOREX_SOURCES # <<>>
      /\ IsInjective(FOREX_SOURCES)
  BY ForexAssumption
<1>2. Len(FOREX_SOURCES) \in Nat /\ DOMAIN FOREX_SOURCES = 1..Len(FOREX_SOURCES)
  BY <1>1
<1>3. Len(FOREX_SOURCES) # 0
  BY <1>1, EmptySeq
<1> QED
  BY <1>1, <1>2, <1>3 DEF Sources, ToSet, IsInjective

LEMMA SourcesFinite ==
    /\ IsFiniteSet(Sources) /\ IsFiniteSet(AvailableSources)
    /\ Cardinality(AvailableSources) \in Nat /\ Sources # {}
<1> DEFINE n == Len(FOREX_SOURCES)
           f == [i \in 1..n |-> FOREX_SOURCES[i]]
<1>1. n \in Nat \ {0} /\ IsFiniteSet(1..n)
  BY ForexSourcesListed, FS_Interval
<1>2. f \in Surjection(1..n, Sources)
  BY ForexSourcesListed DEF Surjection
<1>3. IsFiniteSet(Sources)
  BY <1>1, <1>2, FS_Surjection
<1>4. AvailableSources \subseteq Sources
  BY ForexAssumption
<1>5. Sources # {}
  BY <1>1, ForexSourcesListed
<1> QED
  BY <1>3, <1>4, <1>5, FS_Subset, FS_CardinalityType

(* The day a source is asked for is one of the days, and not before 1970. *)
LEMMA KeyIsDay ==
    ASSUME NEW source \in Sources, NEW t \in Moments
    PROVE  /\ KeyTimestamp(source, StartOfDay(t)) \in Days
           /\ KeyTimestamp(source, StartOfDay(t)) \in Nat
<1>1. t \in Nat /\ t > 3 * ONE_DAY_SECONDS /\ UtcOffset[source] \in -12 .. 14
  BY PeriodicAssumption, ForexAssumption
<1>2. \A u \in Nat : StartOfDay(u) \in Nat /\ StartOfDay(u) <= u /\ u < StartOfDay(u) + ONE_DAY_SECONDS
  BY SMT DEF StartOfDay, ONE_DAY_SECONDS, ONE_HOUR_SECONDS
<1>3. StartOfDay(t) + UtcOffset[source] * ONE_HOUR_SECONDS - ONE_DAY_SECONDS \in Nat
  BY <1>1, <1>2 DEF ONE_DAY_SECONDS, ONE_HOUR_SECONDS
<1>4. KeyTimestamp(source, StartOfDay(t)) \in Nat
  BY <1>2, <1>3 DEF KeyTimestamp
<1> QED
  BY <1>4 DEF Days

LEMMA DaysAreNumbers == Days \subseteq Nat
BY KeyIsDay DEF Days

-----------------------------------------------------------------------------
(* One source after the other *)

Collectors ==
    {c \in Seq(DayRates) :
        /\ Len(c) <= MAX_COLLECTION_DAYS
        /\ \A i, j \in DOMAIN c : i < j => c[i].timestamp < c[j].timestamp}

(* What the answer of a source changes. *)
CollectStep(t, answers, collected, source) ==
    IF source \in DOMAIN answers /\ answers[source] # {}
    THEN Update(collected, source, KeyTimestamp(source, StartOfDay(t)), answers[source])
    ELSE collected

PartlyStep(t, answers, g, s) ==
    IF s = {} THEN collector
    ELSE CollectStep(t, answers, g[s \ {Max(s)}], FOREX_SOURCES[Max(s)])

PartlyCollected(t, answers) ==
    CHOOSE g : g = [s \in SUBSET DOMAIN FOREX_SOURCES |-> PartlyStep(t, answers, g, s)]

LEMMA CollectedIsLast ==
    \A t, answers : Collected(t, answers) = PartlyCollected(t, answers)[DOMAIN FOREX_SOURCES]
BY DEF Collected, FoldLeft, MapThenFoldSet, PartlyCollected, PartlyStep, CollectStep

(* The collector is defined after the answers of any of the sources, as it *)
(* is after those of fewer.                                                *)
LEMMA PartlyExist ==
    ASSUME NEW t, NEW answers
    PROVE  \A s \in SUBSET DOMAIN FOREX_SOURCES :
             PartlyCollected(t, answers)[s] = PartlyStep(t, answers, PartlyCollected(t, answers), s)
<1> DEFINE S == DOMAIN FOREX_SOURCES
           Small(n) == {s \in SUBSET S : Cardinality(s) <= n}
           After(n, g) == g = [s \in Small(n) |-> PartlyStep(t, answers, g, s)]
           Bad == {n \in Nat : ~ \E g : After(n, g)}
<1>s. PICK size \in Nat : S = 1..size
  BY ForexSourcesListed
<1>1. /\ IsFiniteSet(S)
      /\ \A s \in SUBSET S : IsFiniteSet(s) /\ Cardinality(s) \in Nat
  <2>1. size \in Int /\ 1 \in Int
    OBVIOUS
  <2>2. IsFiniteSet(1..size)
    BY <2>1, FS_Interval
  <2> QED
    BY <1>s, <2>2, FS_Subset, FS_CardinalityType
<1>2. Bad = {}
  <2> SUFFICES ASSUME Bad # {} PROVE FALSE
    OBVIOUS
  <2>1. PICK n \in Bad : \A m \in Bad : n <= m
    BY LeastNatural
  <2>2. n # 0
    <3>1. SUFFICES ASSUME n = 0 PROVE FALSE
      OBVIOUS
    <3>2. \A s \in Small(0) : s = {}
      BY <1>1, FS_EmptySet
    <3>3. After(0, [s \in Small(0) |-> collector])
      BY <3>2 DEF PartlyStep
    <3> QED
      BY <3>1, <3>3
  <2>3. n - 1 \in Nat /\ n - 1 \notin Bad
    <3>1. n \in Nat
      OBVIOUS
    <3> HIDE DEF Bad
    <3> QED
      BY <2>1, <2>2, <3>1
  <2>4. PICK g : After(n - 1, g)
    BY <2>3
  <2> DEFINE h == [s \in Small(n) |-> PartlyStep(t, answers, g, s)]
  <2>5. ASSUME NEW s \in Small(n) PROVE h[s] = PartlyStep(t, answers, h, s)
    <3>1. CASE s = {}
      BY <3>1 DEF PartlyStep
    <3>2. CASE s # {}
      <4> DEFINE u == s \ {Max(s)}
      <4>1. Max(s) \in s
        BY <3>2, <1>s, MaxOfNumbers
      <4>2. Cardinality(u) = Cardinality(s) - 1
        BY <4>1, <1>1, FS_RemoveElement
      <4>3. u \in Small(n - 1) /\ u \in Small(n)
        BY <4>2, <1>1, <2>3
      <4>4. g[u] = h[u]
        <5> HIDE DEF u, Small
        <5>1. g[u] = PartlyStep(t, answers, g, u)
          BY <2>4, <4>3
        <5>2. h[u] = PartlyStep(t, answers, g, u)
          BY <4>3
        <5> QED BY <5>1, <5>2
      <4>5. h[s] = PartlyStep(t, answers, g, s)
        OBVIOUS
      <4> QED
        BY <4>4, <4>5, <3>2 DEF PartlyStep
    <3> QED BY <3>1, <3>2
  <2>6. After(n, h)
    BY <2>5
  <2> QED
    BY <2>6, <2>1
<1>3. PICK g : After(Cardinality(S), g)
  BY <1>2, <1>1
<1>4. Small(Cardinality(S)) = SUBSET S
  BY <1>1, FS_Subset
<1>5. \E h : h = [s \in SUBSET S |-> PartlyStep(t, answers, h, s)]
  BY <1>3, <1>4
<1> DEFINE prefixes == PartlyCollected(t, answers)
<1>6. prefixes = [s \in SUBSET S |-> PartlyStep(t, answers, prefixes, s)]
  BY <1>5 DEF PartlyCollected
<1> HIDE DEF prefixes
<1>7. \A s \in SUBSET S : prefixes[s] = PartlyStep(t, answers, prefixes, s)
  BY <1>6
<1> QED
  BY <1>7 DEF prefixes

(* What holds of the collector before a fetch, and is kept by the answer   *)
(* of each source in turn, holds of it afterwards.                         *)
LEMMA CollectedInduction ==
    ASSUME NEW t, NEW answers, NEW Good, collector \in Good[0],
           \A k \in 1..Len(FOREX_SOURCES) : \A c \in Good[k - 1] :
             CollectStep(t, answers, c, FOREX_SOURCES[k]) \in Good[k]
    PROVE  Collected(t, answers) \in Good[Len(FOREX_SOURCES)]
<1> DEFINE g == PartlyCollected(t, answers)
           Bad == {k \in 0..Len(FOREX_SOURCES) : g[1..k] \notin Good[k]}
<1>0. Len(FOREX_SOURCES) \in Nat /\ DOMAIN FOREX_SOURCES = 1..Len(FOREX_SOURCES)
  BY ForexSourcesListed
<1>1. Bad = {}
  <2> SUFFICES ASSUME Bad # {} PROVE FALSE
    OBVIOUS
  <2>1. Bad \subseteq Nat
    BY <1>0
  <2>2. PICK k \in Bad : \A m \in Bad : k <= m
    BY <2>1, LeastNatural
  <2>3. k \in 0..Len(FOREX_SOURCES) /\ g[1..k] \notin Good[k]
    OBVIOUS
  <2>4. 1..k \in SUBSET DOMAIN FOREX_SOURCES
    BY <1>0, <2>3
  <2>5. g[1..k] = PartlyStep(t, answers, g, 1..k)
    BY <2>4, PartlyExist
  <2>6. k # 0
    <3>1. SUFFICES ASSUME k = 0 PROVE FALSE
      OBVIOUS
    <3>2. 1..k = {}
      BY <3>1
    <3> QED
      BY <3>1, <3>2, <2>3, <2>5 DEF PartlyStep
  <2>7. k \in 1..Len(FOREX_SOURCES) /\ k - 1 \in 0..Len(FOREX_SOURCES)
    BY <1>0, <2>3, <2>6
  <2>8. k - 1 \notin Bad
    <3> HIDE DEF Bad
    <3> QED
      BY <2>2, <2>7, <1>0
  <2>9. g[1..(k - 1)] \in Good[k - 1]
    BY <2>7, <2>8
  <2>10. Max(1..k) = k
    <3>1. 1..k # {} /\ 1..k \subseteq 0..k /\ k \in Nat /\ k \in 1..k
      BY <2>7, <1>0
    <3>2. Max(1..k) \in 1..k /\ k <= Max(1..k)
      BY <3>1, MaxOfNumbers
    <3> QED
      BY <3>1, <3>2
  <2>11. (1..k) \ {k} = 1..(k - 1) /\ 1..k # {}
    <3>1. k \in Nat /\ k >= 1
      BY <2>7, <1>0
    <3> HIDE DEF Bad
    <3>2. \A i : i \in (1..k) \ {k} <=> i \in 1..(k - 1)
      BY <3>1
    <3>3. (1..k) \ {k} = 1..(k - 1)
      BY <3>2
    <3>4. k \in 1..k
      BY <3>1
    <3> QED
      BY <3>3, <3>4
  <2>12. g[1..k] = CollectStep(t, answers, g[1..(k - 1)], FOREX_SOURCES[k])
    BY <2>5, <2>10, <2>11 DEF PartlyStep
  <2> QED
    BY <2>3, <2>7, <2>9, <2>12
<1>2. Len(FOREX_SOURCES) \in 0..Len(FOREX_SOURCES)
  BY <1>0
<1> QED
  BY <1>0, <1>1, <1>2, CollectedIsLast

-----------------------------------------------------------------------------
(* The answer of one source *)

(* A collector has one entry for each of its days. *)
LEMMA OneDayIs ==
    ASSUME NEW c \in Collectors, NEW i \in DOMAIN c
    PROVE  OneDay(c, c[i].timestamp) = c[i]
<1>1. c[i] \in ToSet(c)
  BY DEF ToSet
<1>2. OneDay(c, c[i].timestamp) \in ToSet(c)
      /\ OneDay(c, c[i].timestamp).timestamp = c[i].timestamp
  BY <1>1 DEF OneDay
<1>3. PICK j \in DOMAIN c : OneDay(c, c[i].timestamp) = c[j]
  BY <1>2 DEF ToSet
<1>4. c[i].timestamp \in Nat /\ c[j].timestamp \in Nat /\ i \in Int /\ j \in Int
  <2>1. c \in Seq(DayRates)
    BY DEF Collectors
  <2>2. c[i] \in DayRates /\ c[j] \in DayRates /\ i \in Int /\ j \in Int
    BY <2>1
  <2>3. c[i].timestamp \in Days /\ c[j].timestamp \in Days
    BY <2>2 DEF DayRates
  <2> QED
    BY <2>2, <2>3, DaysAreNumbers
<1>5. ~ (i < j) /\ ~ (j < i)
  BY <1>2, <1>3, <1>4 DEF Collectors
<1> QED
  BY <1>3, <1>4, <1>5

LEMMA DaysOf ==
    ASSUME NEW c \in Collectors, NEW day \in CollectedDays(c)
    PROVE  /\ day \in Days /\ OneDay(c, day) \in DayRates
           /\ \E i \in DOMAIN c : c[i] = OneDay(c, day) /\ c[i].timestamp = day
<1>1. PICK i \in DOMAIN c : day = c[i].timestamp
  BY DEF CollectedDays
<1>2. c[i] \in DayRates
  BY DEF Collectors
<1> QED
  BY <1>1, <1>2, OneDayIs DEF DayRates

(* How many sources a reported symbol adds: at most one, XDR apart. *)
LEMMA ReportedOnce ==
    ASSUME NEW reported, IsFiniteSet(reported), NEW symbol
    PROVE  LET same == {s \in reported : Renamed(s) = symbol}
           IN  Cardinality(same) \in Nat /\ (symbol # "XDR" => Cardinality(same) <= 1)
<1> DEFINE same == {s \in reported : Renamed(s) = symbol}
<1>1. IsFiniteSet(same)
  BY FS_Subset
<1>2. Cardinality(same) \in Nat
  BY <1>1, FS_CardinalityType
<1>3. ASSUME symbol # "XDR" PROVE Cardinality(same) <= 1
  <2>1. same \subseteq {symbol}
    BY <1>3 DEF Renamed
  <2>2. IsFiniteSet({symbol}) /\ Cardinality({symbol}) = 1
    BY FS_Singleton
  <2> HIDE DEF same
  <2> QED
    BY <2>1, <2>2, FS_Subset
<1> QED
  BY <1>2, <1>3

LEMMA SourceAdded ==
    ASSUME NEW collected \in DayRates, NEW source \in AvailableSources,
           NEW reported, IsFiniteSet(reported), reported # {}
    PROVE  LET after == WithSource(collected, source, reported)
           IN  /\ after \in DayRates /\ after.timestamp = collected.timestamp
               /\ after.sources = collected.sources \cup {source}
               /\ Counts(collected) /\ source \notin collected.sources => Counts(after)
<1> DEFINE after == WithSource(collected, source, reported)
           same(symbol) == Cardinality({s \in reported : Renamed(s) = symbol})
<1>1. \A symbol : same(symbol) \in Nat /\ (symbol # "XDR" => same(symbol) <= 1)
  BY ReportedOnce
<1>2. after = [timestamp |-> collected.timestamp,
               sources |-> collected.sources \cup {source},
               rates |-> [symbol \in Symbols |-> collected.rates[symbol] + same(symbol)]]
  BY DEF WithSource, DayRates
<1>3. \A symbol \in Symbols : /\ after.rates[symbol] = collected.rates[symbol] + same(symbol)
                              /\ collected.rates[symbol] \in Nat
  BY <1>2 DEF DayRates
<1> HIDE DEF same
<1>4. after \in DayRates
  <2>1. [symbol \in Symbols |-> collected.rates[symbol] + same(symbol)] \in [Symbols -> Nat]
    BY <1>1, <1>3
  <2> QED
    BY <1>2, <2>1 DEF DayRates
<1>5. ASSUME Counts(collected), source \notin collected.sources PROVE Counts(after)
  <2>1. IsFiniteSet(collected.sources)
    BY SourcesFinite, FS_Subset DEF DayRates
  <2>2. /\ Cardinality(collected.sources) \in Nat
        /\ Cardinality(collected.sources \cup {source}) = Cardinality(collected.sources) + 1
    BY <1>5, <2>1, FS_AddElement, FS_CardinalityType
  <2>3. after.sources = collected.sources \cup {source}
    BY <1>2
  <2> SUFFICES ASSUME NEW symbol \in Symbols, symbol # "XDR"
               PROVE  after.rates[symbol] <= Cardinality(after.sources)
    BY DEF Counts
  <2>4. collected.rates[symbol] <= Cardinality(collected.sources)
    BY <1>5 DEF Counts
  <2> QED
    BY <1>1, <1>3, <2>2, <2>3, <2>4
<1> QED
  BY <1>2, <1>4, <1>5


(* After the answer of a source the collector is one again, its other days *)
(* are as they were, and the rates are added to those of their day, if     *)
(* that is kept.                                                           *)
LEMMA Updated ==
    ASSUME NEW c \in Collectors, NEW source \in AvailableSources, NEW day \in Days,
           NEW reported, IsFiniteSet(reported), reported # {}
    PROVE  LET after == Update(c, source, day, reported)
           IN  /\ after \in Collectors
               /\ \A i \in DOMAIN after :
                    \/ after[i].timestamp # day /\ \E j \in DOMAIN c : after[i] = c[j]
                    \/ \E j \in DOMAIN c : /\ c[j].timestamp = day
                                           /\ after[i] = WithSource(c[j], source, reported)
                    \/ after[i] = WithSource(NewDay(day), source, reported)
<1> DEFINE after == Update(c, source, day, reported)
           new == WithSource(NewDay(day), source, reported)
           With(at) == WithSource(c[at], source, reported)
<1>1. /\ c \in Seq(DayRates) /\ Len(c) \in Nat /\ Len(c) <= 2 /\ DOMAIN c = 1..Len(c)
      /\ \A i \in DOMAIN c : c[i] \in DayRates
      /\ \A i, j \in DOMAIN c : i < j => c[i].timestamp < c[j].timestamp
  BY DEF Collectors, MAX_COLLECTION_DAYS
<1>2. CASE day \in CollectedDays(c)
  <2>1. after = [i \in DOMAIN c |-> IF c[i].timestamp = day THEN With(i) ELSE c[i]]
    BY <1>2 DEF Update
  <2>2. \A i \in DOMAIN c : With(i) \in DayRates /\ With(i).timestamp = c[i].timestamp
    BY <1>1, SourceAdded
  <2> HIDE DEF after, With
  <2>3. \A i \in DOMAIN c : after[i] \in DayRates /\ after[i].timestamp = c[i].timestamp
    BY <2>1, <2>2, <1>1
  <2>4. after \in Seq(DayRates) /\ Len(after) = Len(c) /\ DOMAIN after = DOMAIN c
    <3>1. after \in [1..Len(c) -> DayRates]
      BY <2>1, <2>3, <1>1
    <3> QED
      BY <3>1, <1>1
  <2>5. after \in Collectors
    BY <2>3, <2>4, <1>1 DEF Collectors, MAX_COLLECTION_DAYS
  <2>6. \A i \in DOMAIN after :
          \/ after[i].timestamp # day /\ after[i] = c[i]
          \/ c[i].timestamp = day /\ after[i] = WithSource(c[i], source, reported)
    BY <2>1, <2>3, <2>4 DEF With
  <2> QED
    BY <2>4, <2>5, <2>6 DEF after
<1>3. CASE day \notin CollectedDays(c) /\ \A other \in CollectedDays(c) : day > other
  <2> DEFINE kept == IF Len(c) = MAX_COLLECTION_DAYS THEN Tail(c) ELSE c
  <2>1. after = Append(kept, new)
    BY <1>3 DEF Update
  <2>2. new \in DayRates /\ new.timestamp = day
    <3>1. NewDay(day) \in DayRates /\ NewDay(day).timestamp = day
      BY DEF NewDay, DayRates, NoRates
    <3> QED
      BY <3>1, SourceAdded
  <2> HIDE DEF after, new
  <2>3. /\ kept \in Seq(DayRates) /\ Len(kept) \in 0..1
        /\ \A i \in DOMAIN kept : \E j \in DOMAIN c : kept[i] = c[j]
    <3>1. CASE Len(c) = 2
      <4>1. kept = Tail(c)
        BY <3>1 DEF MAX_COLLECTION_DAYS
      <4>2. Tail(c) \in Seq(DayRates) /\ Len(Tail(c)) = 1 /\ DOMAIN Tail(c) = 1..1
            /\ Tail(c)[1] = c[2]
        <5>1. c \in Seq(DayRates) /\ Len(c) = 2
          BY <1>1, <3>1
        <5>2. c # <<>>
          BY <5>1, EmptySeq
        <5>3. /\ Tail(c) \in Seq(DayRates) /\ Len(Tail(c)) = 1
              /\ \A i \in 1 .. Len(Tail(c)) : Tail(c)[i] = c[i + 1]
          BY <5>1, <5>2, HeadTailProperties
        <5>4. DOMAIN Tail(c) = 1..Len(Tail(c))
          BY <5>3, LenProperties
        <5>5. 1 \in 1 .. Len(Tail(c)) /\ 1 + 1 = 2
          <6>1. \A size : size = 1 => 1 \in 1 .. size
            OBVIOUS
          <6> QED
            BY <5>3, <6>1
        <5>6. Tail(c)[1] = c[1 + 1]
          BY <5>3, <5>5
        <5>7. Tail(c)[1] = c[2]
          BY <5>5, <5>6
        <5> QED
          BY <5>3, <5>4, <5>7
      <4>3. 2 \in DOMAIN c
        BY <1>1, <3>1
      <4> QED
        BY <4>1, <4>2, <4>3
    <3>2. CASE Len(c) # 2
      <4>1. kept = c /\ Len(c) \in 0..1
        BY <3>2, <1>1 DEF MAX_COLLECTION_DAYS
      <4> QED
        BY <4>1, <1>1
    <3> QED
      BY <3>1, <3>2
  <2> HIDE DEF kept
  <2>4. /\ after \in Seq(DayRates) /\ Len(after) = Len(kept) + 1 /\ Len(kept) \in 0..1
        /\ DOMAIN after = 1..(Len(kept) + 1) /\ DOMAIN kept = 1..Len(kept)
        /\ \A i \in 1..Len(kept) : after[i] = kept[i]
        /\ after[Len(kept) + 1] = new
    BY <2>1, <2>2, <2>3
  <2>5. \A i \in 1..Len(kept) : after[i].timestamp < day /\ after[i].timestamp # day
    <3> SUFFICES ASSUME NEW i \in 1..Len(kept)
                 PROVE  after[i].timestamp < day /\ after[i].timestamp # day
      OBVIOUS
    <3>1. PICK j \in DOMAIN c : after[i] = c[j]
      BY <2>3, <2>4
    <3>2. c[j].timestamp \in CollectedDays(c) /\ c[j].timestamp \in Days
      BY <1>1 DEF CollectedDays, DayRates
    <3>3. day > c[j].timestamp /\ day \in Nat /\ c[j].timestamp \in Nat
      BY <3>2, <1>3, DaysAreNumbers
    <3> QED
      BY <3>1, <3>3
  <2>6. after \in Collectors
    <3>1. Len(after) <= MAX_COLLECTION_DAYS
      BY <2>4 DEF MAX_COLLECTION_DAYS
    <3>2. ASSUME NEW i \in DOMAIN after, NEW j \in DOMAIN after, i < j
          PROVE  after[i].timestamp < after[j].timestamp
      <4>1. i = 1 /\ j = 2 /\ Len(kept) = 1
        BY <2>4, <3>2
      <4> QED
        BY <4>1, <2>2, <2>4, <2>5
    <3> QED
      BY <2>4, <3>1, <3>2 DEF Collectors
  <2>7. ASSUME NEW i \in DOMAIN after
        PROVE  \/ after[i].timestamp # day /\ \E j \in DOMAIN c : after[i] = c[j]
               \/ after[i] = new
    <3>1. CASE i \in 1..Len(kept)
      BY <3>1, <2>3, <2>4, <2>5
    <3>2. CASE i = Len(kept) + 1
      BY <3>2, <2>4
    <3> QED
      BY <3>1, <3>2, <2>4
  <2> QED
    BY <2>6, <2>7 DEF after, new
<1>4. CASE day \notin CollectedDays(c) /\ ~ \A other \in CollectedDays(c) : day > other
  <2>1. after = c
    BY <1>4 DEF Update
  <2>2. \A i \in DOMAIN c : c[i].timestamp # day
    BY <1>4 DEF CollectedDays
  <2> QED
    BY <2>1, <2>2
<1> QED
  BY <1>2, <1>3, <1>4


-----------------------------------------------------------------------------
(* The answers of all sources *)

Answers ==
    UNION {[some -> {answer \in ForexAnswers \cup {{}} : IsFiniteSet(answer)}] :
             some \in SUBSET AvailableSources}

AnsweredDays(t, answers) ==
    {KeyTimestamp(source, StartOfDay(t)) :
        source \in {s \in DOMAIN answers : answers[s] # {}}}

LEMMA AnswersAre ==
    ASSUME NEW answers \in Answers, NEW source \in DOMAIN answers, NEW t \in Moments
    PROVE  /\ source \in AvailableSources /\ source \in Sources
           /\ IsFiniteSet(answers[source])
           /\ KeyTimestamp(source, StartOfDay(t)) \in Days
<1>1. PICK some \in SUBSET AvailableSources :
        answers \in [some -> {answer \in ForexAnswers \cup {{}} : IsFiniteSet(answer)}]
  BY DEF Answers
<1>2. source \in some /\ IsFiniteSet(answers[source])
  BY <1>1
<1>3. source \in Sources
  BY <1>1, <1>2, ForexAssumption
<1> QED
  BY <1>1, <1>2, <1>3, KeyIsDay

(* Only the days that a source answered for are changed or added. *)
LEMMA OtherDaysStay ==
    ASSUME NEW answers \in Answers, NEW t \in Moments, collector \in Collectors
    PROVE  LET after == Collected(t, answers)
           IN  /\ after \in Collectors
               /\ \A i \in DOMAIN after :
                    \/ after[i].timestamp \in AnsweredDays(t, answers)
                    \/ \E j \in DOMAIN collector : after[i] = collector[j]
<1> DEFINE n == Len(FOREX_SOURCES)
           Kept(entry) == \/ entry.timestamp \in AnsweredDays(t, answers)
                          \/ \E j \in DOMAIN collector : entry = collector[j]
           good == {c \in Collectors : \A i \in DOMAIN c : Kept(c[i])}
           Good == [k \in 0..n |-> good]
<1>1. n \in Nat /\ Good[0] = good /\ Good[n] = good
      /\ \A k \in 1..n : Good[k] = good /\ Good[k - 1] = good
  BY ForexSourcesListed
<1>2. ASSUME NEW k \in 1..n, NEW c \in good
      PROVE  CollectStep(t, answers, c, FOREX_SOURCES[k]) \in good
  <2> DEFINE source == FOREX_SOURCES[k]
             day == KeyTimestamp(source, StartOfDay(t))
             after == Update(c, source, day, answers[source])
  <2>1. CASE source \in DOMAIN answers /\ answers[source] # {}
    <3>1. /\ source \in AvailableSources /\ day \in Days
          /\ IsFiniteSet(answers[source]) /\ answers[source] # {}
      BY <2>1, AnswersAre
    <3>2. day \in AnsweredDays(t, answers)
      BY <2>1 DEF AnsweredDays
    <3>3. /\ after \in Collectors
          /\ \A i \in DOMAIN after :
               \/ after[i].timestamp # day /\ \E j \in DOMAIN c : after[i] = c[j]
               \/ \E j \in DOMAIN c : /\ c[j].timestamp = day
                                      /\ after[i] = WithSource(c[j], source, answers[source])
               \/ after[i] = WithSource(NewDay(day), source, answers[source])
      <4> HIDE DEF source, day, after
      <4> QED
        BY <3>1, Updated DEF after
    <3>4. \A entry : WithSource(entry, source, answers[source]).timestamp = entry.timestamp
                     \/ entry \notin DayRates
      BY <3>1, SourceAdded
    <3>5. NewDay(day) \in DayRates /\ NewDay(day).timestamp = day
      BY <3>1 DEF NewDay, DayRates, NoRates
    <3>6. \A j \in DOMAIN c : c[j] \in DayRates /\ Kept(c[j])
      BY DEF Collectors
    <3> HIDE DEF source, day, after, Kept
    <3>7. ASSUME NEW i \in DOMAIN after PROVE Kept(after[i])
      <4>1. CASE \E j \in DOMAIN c : after[i] = c[j]
        BY <4>1, <3>6
      <4>2. CASE after[i].timestamp = day
        BY <4>2, <3>2 DEF Kept
      <4> QED
        BY <4>1, <4>2, <3>3, <3>4, <3>5, <3>6
    <3>8. CollectStep(t, answers, c, source) = after
      BY <2>1 DEF CollectStep, after, day
    <3> QED
      BY <3>3, <3>7, <3>8 DEF source
  <2>2. CASE ~ (source \in DOMAIN answers /\ answers[source] # {})
    BY <2>2 DEF CollectStep
  <2> QED
    BY <2>1, <2>2
<1>3. collector \in good
  OBVIOUS
<1> HIDE DEF good
<1>4. Collected(t, answers) \in good
  <2>1. \A k \in 1..n : \A c \in Good[k - 1] :
          CollectStep(t, answers, c, FOREX_SOURCES[k]) \in Good[k]
    BY <1>1, <1>2
  <2> HIDE DEF Good
  <2>2. collector \in Good[0]
    BY <1>1, <1>3
  <2> QED
    BY <1>1, <2>1, <2>2, CollectedInduction
<1> QED
  BY <1>4 DEF good


(* A source has not been counted for a day if no entry of that day has it. *)
LEMMA NotYetCounted ==
    ASSUME NEW c \in Collectors, NEW source, NEW day
    PROVE  source \notin SourcesOf(c, day)
             <=> \A i \in DOMAIN c : c[i].timestamp = day => source \notin c[i].sources
<1>1. CASE day \notin CollectedDays(c)
  BY <1>1 DEF SourcesOf, CollectedDays
<1>2. CASE day \in CollectedDays(c)
  <2>1. SourcesOf(c, day) = OneDay(c, day).sources
    BY <1>2 DEF SourcesOf
  <2>2. PICK i \in DOMAIN c : c[i] = OneDay(c, day) /\ c[i].timestamp = day
    BY <1>2, DaysOf
  <2>3. \A j \in DOMAIN c : c[j].timestamp = day => c[j] = OneDay(c, day)
    BY OneDayIs
  <2> QED
    BY <2>1, <2>2, <2>3
<1> QED
  BY <1>1, <1>2

(* Sources that do not count yet are each counted once. *)
LEMMA CountsStay ==
    ASSUME NEW answers \in Answers, NEW t \in Moments, collector \in Collectors,
           \A i \in DOMAIN collector : Counts(collector[i]),
           \A source \in DOMAIN answers :
             source \notin SourcesOf(collector, KeyTimestamp(source, StartOfDay(t)))
    PROVE  \A i \in DOMAIN Collected(t, answers) : Counts(Collected(t, answers)[i])
<1> DEFINE n == Len(FOREX_SOURCES)
           key(j) == KeyTimestamp(FOREX_SOURCES[j], StartOfDay(t))
           Waits(c, j) == FOREX_SOURCES[j] \in DOMAIN answers =>
             \A i \in DOMAIN c :
               c[i].timestamp = key(j) => FOREX_SOURCES[j] \notin c[i].sources
           good(k) == {c \in Collectors :
                         /\ \A i \in DOMAIN c : Counts(c[i])
                         /\ \A j \in 1..n : j > k => Waits(c, j)}
           Good == [k \in 0..n |-> good(k)]
<1>1. /\ n \in Nat /\ Good[0] = good(0) /\ Good[n] = good(n)
      /\ \A k \in 1..n : Good[k] = good(k) /\ Good[k - 1] = good(k - 1)
      /\ \A i, j \in 1..n : FOREX_SOURCES[i] = FOREX_SOURCES[j] => i = j
  <2>1. n \in Nat /\ \A i, j \in 1..n : FOREX_SOURCES[i] = FOREX_SOURCES[j] => i = j
    BY ForexSourcesListed
  <2> HIDE DEF n, good
  <2>2. 0 \in 0..n /\ n \in 0..n /\ \A k \in 1..n : k \in 0..n /\ k - 1 \in 0..n
    BY <2>1
  <2> QED
    BY <2>1, <2>2
<1>2. ASSUME NEW k \in 1..n, NEW c \in good(k - 1)
      PROVE  CollectStep(t, answers, c, FOREX_SOURCES[k]) \in good(k)
  <2> DEFINE source == FOREX_SOURCES[k]
             day == key(k)
             after == Update(c, source, day, answers[source])
  <2>0. k \in Nat /\ n \in Nat /\ c \in Collectors
        /\ \A j \in 1..n : j \in Nat
    BY <1>1
  <2>1. \A i \in DOMAIN c : Counts(c[i])
    OBVIOUS
  <2>2. \A j \in 1..n : j >= k => Waits(c, j)
    <3> SUFFICES ASSUME NEW j \in 1..n, j >= k PROVE Waits(c, j)
      OBVIOUS
    <3>1. j > k - 1
      BY <2>0
    <3> HIDE DEF Waits
    <3> QED
      BY <3>1
  <2>3. CASE source \in DOMAIN answers /\ answers[source] # {}
    <3>1. /\ source \in AvailableSources /\ day \in Days
          /\ IsFiniteSet(answers[source]) /\ answers[source] # {}
      BY <2>3, AnswersAre
    <3> DEFINE with(entry) == WithSource(entry, source, answers[source])
    <3>2. /\ after \in Collectors
          /\ \A i \in DOMAIN after :
               \/ after[i].timestamp # day /\ \E j \in DOMAIN c : after[i] = c[j]
               \/ \E j \in DOMAIN c : c[j].timestamp = day /\ after[i] = with(c[j])
               \/ after[i] = with(NewDay(day))
      <4> HIDE DEF source, day, after
      <4> QED
        BY <2>0, <3>1, Updated DEF after
    <3>3. \A entry \in DayRates :
            /\ with(entry).timestamp = entry.timestamp
            /\ with(entry).sources = entry.sources \cup {source}
            /\ Counts(entry) /\ source \notin entry.sources => Counts(with(entry))
      BY <3>1, SourceAdded
    <3>4. NewDay(day) \in DayRates /\ NewDay(day).timestamp = day
          /\ NewDay(day).sources = {} /\ Counts(NewDay(day))
      <4>1. Cardinality({}) = 0
        BY FS_EmptySet
      <4> HIDE DEF day
      <4> QED
        BY <3>1, <4>1 DEF NewDay, DayRates, NoRates, Counts
    <3>5. \A j \in DOMAIN c : c[j] \in DayRates
      BY <2>0 DEF Collectors
    <3>6. \A j \in DOMAIN c : c[j].timestamp = day => source \notin c[j].sources
      BY <2>0, <2>2, <2>3
    <3>7. \A j \in 1..n : j > k => FOREX_SOURCES[j] # source
      BY <1>1, <2>0
    <3>8. ASSUME NEW i \in DOMAIN after PROVE Counts(after[i])
      <4> HIDE DEF after, with, source, day
      <4> QED
        BY <2>1, <3>2, <3>3, <3>4, <3>5, <3>6
    <3>9. ASSUME NEW j \in 1..n, j > k PROVE Waits(after, j)
      <4> SUFFICES ASSUME FOREX_SOURCES[j] \in DOMAIN answers, NEW i \in DOMAIN after,
                          after[i].timestamp = key(j)
                   PROVE  FOREX_SOURCES[j] \notin after[i].sources
        OBVIOUS
      <4>1. \A m \in DOMAIN c : c[m].timestamp = key(j) => FOREX_SOURCES[j] \notin c[m].sources
        BY <2>0, <2>2, <3>9
      <4> HIDE DEF after, with, key, source, day
      <4>2. FOREX_SOURCES[j] # source
        BY <3>7, <3>9
      <4> QED
        BY <3>2, <3>3, <3>4, <3>5, <4>1, <4>2
    <3>10. CollectStep(t, answers, c, source) = after
      BY <2>3 DEF CollectStep
    <3>11. after \in good(k)
      <4> HIDE DEF after, Waits
      <4> QED
        BY <3>2, <3>8, <3>9
    <3> HIDE DEF after, good
    <3> QED
      BY <3>10, <3>11
  <2>4. CASE ~ (source \in DOMAIN answers /\ answers[source] # {})
    <3>1. CollectStep(t, answers, c, source) = c
      BY <2>4 DEF CollectStep
    <3>2. \A j \in 1..n : j > k => Waits(c, j)
      <4> HIDE DEF Waits
      <4> QED
        BY <2>0, <2>2
    <3> HIDE DEF Waits
    <3> QED
      BY <2>0, <2>1, <3>1, <3>2
  <2> QED
    BY <2>3, <2>4
<1>3. collector \in good(0)
  <2> SUFFICES ASSUME NEW j \in 1..n, FOREX_SOURCES[j] \in DOMAIN answers,
                      NEW i \in DOMAIN collector, collector[i].timestamp = key(j)
               PROVE  FOREX_SOURCES[j] \notin collector[i].sources
    OBVIOUS
  <2>1. FOREX_SOURCES[j] \notin SourcesOf(collector, key(j))
    OBVIOUS
  <2> QED
    BY <2>1, NotYetCounted
<1> HIDE DEF good
<1>4. Collected(t, answers) \in good(n)
  <2>1. \A k \in 1..n : \A c \in Good[k - 1] :
          CollectStep(t, answers, c, FOREX_SOURCES[k]) \in Good[k]
    BY <1>1, <1>2
  <2> HIDE DEF Good
  <2>2. collector \in Good[0]
    BY <1>1, <1>3
  <2>3. Collected(t, answers) \in Good[n]
    BY <2>1, <2>2, CollectedInduction
  <2> QED
    BY <1>1, <2>3
<1> QED
  BY <1>4 DEF good


-----------------------------------------------------------------------------
(* The store *)

LEMMA Basket ==
    /\ CxdrBasket \subseteq Symbols /\ "CXDR" \in Symbols
    /\ "CXDR" \notin CxdrBasket /\ "XDR" \notin CxdrBasket
    /\ "EUR" \in CxdrBasket
BY ForexAssumption DEF CxdrBasket, Symbols

(* The rates of a day: CXDR counts as many sources as the least reported   *)
(* currency of its basket.                                                 *)
LEMMA RatesOfDay ==
    ASSUME NEW c \in Collectors, NEW day \in CollectedDays(c)
    PROVE  LET rates == RatesMap(c, day)
           IN  /\ rates \in [Symbols -> Nat]
               /\ \A currency \in CxdrBasket : rates["CXDR"] <= rates[currency]
               /\ (\A i \in DOMAIN c : Counts(c[i])) =>
                    \A symbol \in Symbols \ {"XDR"} :
                      rates[symbol] <= Cardinality(AvailableSources)
<1> DEFINE one == OneDay(c, day)
           least == Smallest({one.rates[cur] : cur \in CxdrBasket})
           rates == RatesMap(c, day)
<1>1. one \in DayRates /\ \E i \in DOMAIN c : c[i] = one
  BY DaysOf
<1>2. one.rates \in [Symbols -> Nat] /\ one.sources \subseteq AvailableSources
  BY <1>1 DEF DayRates
<1> HIDE DEF one
<1>3. least \in Nat /\ \A currency \in CxdrBasket : least <= one.rates[currency]
  <2> DEFINE T == {one.rates[cur] : cur \in CxdrBasket}
  <2>1. T \subseteq Nat /\ T # {} /\ \A currency \in CxdrBasket : one.rates[currency] \in T
    BY <1>2, Basket
  <2> HIDE DEF T
  <2>2. Smallest(T) \in T /\ \A other \in T : Smallest(T) <= other
    BY <2>1, SmallestNumber
  <2> QED
    BY <2>1, <2>2 DEF T
<1> HIDE DEF least
<1>4. rates = [one.rates EXCEPT !["CXDR"] = least]
  BY DEF RatesMap, one, least
<1> HIDE DEF rates
<1>5. /\ rates \in [Symbols -> Nat] /\ rates["CXDR"] = least
      /\ \A symbol \in Symbols : symbol # "CXDR" => rates[symbol] = one.rates[symbol]
  BY <1>2, <1>3, <1>4, Basket
<1>6. \A currency \in CxdrBasket : rates["CXDR"] <= rates[currency]
  BY <1>3, <1>5, Basket
<1>7. ASSUME \A i \in DOMAIN c : Counts(c[i]), NEW symbol \in Symbols \ {"XDR"}
      PROVE  rates[symbol] <= Cardinality(AvailableSources)
  <2>1. Counts(one)
    BY <1>1, <1>7
  <2>2. /\ Cardinality(one.sources) \in Nat /\ Cardinality(AvailableSources) \in Nat
        /\ Cardinality(one.sources) <= Cardinality(AvailableSources)
    BY <1>2, SourcesFinite, FS_Subset, FS_CardinalityType
  <2>3. \A other \in Symbols \ {"XDR"} : one.rates[other] \in Nat
                /\ one.rates[other] <= Cardinality(AvailableSources)
    BY <1>2, <2>1, <2>2 DEF Counts
  <2>4. "EUR" \in Symbols \ {"XDR"} /\ least <= one.rates["EUR"]
    BY <1>3, Basket
  <2>5. CASE symbol = "CXDR"
    BY <1>3, <1>5, <2>2, <2>3, <2>4, <2>5
  <2>6. CASE symbol # "CXDR"
    BY <1>5, <2>3, <2>6
  <2> QED
    BY <2>5, <2>6
<1> QED
  BY <1>5, <1>6, <1>7 DEF rates

(* A rate in the store is replaced only by one of more sources. *)
LEMMA PutKeeps ==
    ASSUME NEW stored \in [Symbols -> Nat], NEW rates \in [Symbols -> Nat]
    PROVE  LET after == Put(stored, rates)
           IN  /\ after \in [Symbols -> Nat]
               /\ \A symbol \in Symbols :
                    /\ after[symbol] >= stored[symbol] /\ after[symbol] >= rates[symbol]
                    /\ after[symbol] \in {stored[symbol], rates[symbol]}
BY DEF Put

(* What a fetch leaves in the collector and in the store. *)
LEMMA StoreRatesStep ==
    ASSUME StoreInv, NEW t \in Moments, NEW answers \in Answers, StoreRates(t, answers)
    PROVE  /\ StoreInv'
           /\ \A day \in Days, symbol \in Symbols : store'[day][symbol] >= store[day][symbol]
<1> DEFINE after == Collected(t, answers)
           updated == UpdatedDays(t, answers)
<1>0. t \in Nat
  BY PeriodicAssumption
<1>1. /\ collector' = after /\ nextForexRun' = NextForexRun(t) /\ lastForexRun' = t
      /\ store' = [day \in Days |->
             IF day \in updated THEN Put(store[day], RatesMap(collector', day))
             ELSE store[day]]
  BY DEF StoreRates
<1>2. collector \in Collectors /\ store \in [Days -> [Symbols -> Nat]]
  BY DEF StoreInv, ForexTypeOK, Collectors
<1>3. /\ after \in Collectors
      /\ \A i \in DOMAIN after : \/ after[i].timestamp \in AnsweredDays(t, answers)
                                 \/ \E j \in DOMAIN collector : after[i] = collector[j]
  BY <1>2, OtherDaysStay
<1>4. updated = CollectedDays(after) \cap AnsweredDays(t, answers)
  BY DEF UpdatedDays, AnsweredDays
<1> HIDE DEF after, updated
<1> DEFINE rates(day) == RatesMap(after, day)
<1>5. \A day \in CollectedDays(after) :
        /\ day \in Days /\ rates(day) \in [Symbols -> Nat]
        /\ \A currency \in CxdrBasket : rates(day)["CXDR"] <= rates(day)[currency]
  BY <1>3, DaysOf, RatesOfDay
<1>6. \A day \in updated : day \in CollectedDays(after)
  BY <1>4
<1>7. ASSUME NEW day \in CollectedDays(after), day \notin updated
      PROVE  day \in CollectedDays(collector) /\ rates(day) = RatesMap(collector, day)
  <2>1. PICK i \in DOMAIN after : after[i] = OneDay(after, day) /\ after[i].timestamp = day
    BY <1>3, DaysOf
  <2>2. PICK j \in DOMAIN collector : after[i] = collector[j]
    BY <1>3, <1>4, <1>7, <2>1
  <2>3. day \in CollectedDays(collector) /\ OneDay(collector, day) = collector[j]
    BY <1>2, <2>1, <2>2, OneDayIs DEF CollectedDays
  <2> QED
    BY <2>1, <2>2, <2>3 DEF RatesMap
<1> HIDE DEF rates
<1>8. \A day \in Days : store'[day] = IF day \in updated THEN Put(store[day], rates(day))
                                      ELSE store[day]
  BY <1>1 DEF rates
<1>9. ASSUME NEW day \in Days
      PROVE  /\ store'[day] \in [Symbols -> Nat]
             /\ \A symbol \in Symbols : store'[day][symbol] >= store[day][symbol]
             /\ \A currency \in CxdrBasket : store'[day]["CXDR"] <= store'[day][currency]
  <2>0. /\ store[day] \in [Symbols -> Nat]
        /\ \A currency \in CxdrBasket : store[day]["CXDR"] <= store[day][currency]
    BY <1>2 DEF StoreInv, BasketInStore
  <2>1. CASE day \in updated
    <3> DEFINE put == Put(store[day], rates(day))
    <3>1. /\ rates(day) \in [Symbols -> Nat]
          /\ \A currency \in CxdrBasket : rates(day)["CXDR"] <= rates(day)[currency]
      BY <1>5, <1>6, <2>1
    <3>2. /\ put \in [Symbols -> Nat]
          /\ \A symbol \in Symbols :
               /\ put[symbol] >= store[day][symbol] /\ put[symbol] >= rates(day)[symbol]
               /\ put[symbol] \in {store[day][symbol], rates(day)[symbol]}
      BY <2>0, <3>1, PutKeeps
    <3>3. store'[day] = put
      BY <1>8, <2>1
    <3> HIDE DEF put
    <3>4. ASSUME NEW currency \in CxdrBasket PROVE put["CXDR"] <= put[currency]
      <4>1. currency \in Symbols /\ "CXDR" \in Symbols
        BY Basket
      <4>2. /\ put["CXDR"] \in Nat /\ put[currency] \in Nat
            /\ store[day]["CXDR"] \in Nat /\ store[day][currency] \in Nat
            /\ rates(day)["CXDR"] \in Nat /\ rates(day)[currency] \in Nat
        BY <2>0, <3>1, <3>2, <4>1
      <4> QED
        BY <2>0, <3>1, <3>2, <4>1, <4>2
    <3> QED
      BY <3>2, <3>3, <3>4
  <2>2. CASE day \notin updated
    <3>1. store'[day] = store[day]
      BY <1>8, <2>2
    <3>2. \A symbol \in Symbols : store[day][symbol] \in Nat
      BY <2>0
    <3> QED
      BY <2>0, <3>1, <3>2
  <2> QED
    BY <2>1, <2>2
<1>10. ForexTypeOK'
  <2>1. nextForexRun' \in Nat
    BY <1>0, <1>1 DEF NextForexRun, SIX_HOURS, ONE_HOUR_SECONDS
  <2>2. store' \in [Days -> [Symbols -> Nat]]
    <3>1. DOMAIN store' = Days /\ store' = [day \in Days |-> store'[day]]
      BY <1>1
    <3> QED
      BY <1>9, <3>1
  <2> QED
    BY <1>1, <1>3, <2>1, <2>2 DEF ForexTypeOK, Collectors
<1>11. StoreKeepsUp'
  <2> SUFFICES ASSUME NEW day \in CollectedDays(after), NEW symbol \in Symbols
               PROVE  store'[day][symbol] >= rates(day)[symbol]
    BY <1>1 DEF StoreKeepsUp, rates
  <2>1. CASE day \in updated
    <3>1. store[day] \in [Symbols -> Nat] /\ rates(day) \in [Symbols -> Nat] /\ day \in Days
      BY <1>2, <1>5
    <3>2. store'[day] = Put(store[day], rates(day))
      BY <1>8, <2>1, <3>1
    <3> QED
      BY <3>1, <3>2, PutKeeps
  <2>2. CASE day \notin updated
    <3>1. store[day][symbol] >= rates(day)[symbol] /\ day \in Days
      BY <1>5, <1>7, <2>2 DEF StoreInv, StoreKeepsUp
    <3> QED
      BY <1>8, <2>2, <3>1
  <2> QED
    BY <2>1, <2>2
<1>12. BasketInStore'
  BY <1>9 DEF BasketInStore
<1> QED
  BY <1>9, <1>10, <1>11, <1>12 DEF StoreInv

(* Nothing a fetch stores claims more sources than there are. *)
LEMMA StoreCountsStep ==
    ASSUME StoreInv, CountInv, NEW t \in Moments, NEW answers \in Answers,
           \A source \in DOMAIN answers :
             source \notin SourcesOf(collector, KeyTimestamp(source, StartOfDay(t))),
           StoreRates(t, answers)
    PROVE  (\A i \in DOMAIN collector : Counts(collector[i]))' /\ SourcesCountedOnce'
<1> DEFINE after == Collected(t, answers)
           updated == UpdatedDays(t, answers)
<1>1. /\ collector' = after
      /\ store' = [day \in Days |->
             IF day \in updated THEN Put(store[day], RatesMap(collector', day))
             ELSE store[day]]
  BY DEF StoreRates
<1>2. collector \in Collectors /\ store \in [Days -> [Symbols -> Nat]]
  BY DEF StoreInv, ForexTypeOK, Collectors
<1>3. after \in Collectors /\ \A i \in DOMAIN after : Counts(after[i])
  BY <1>2, OtherDaysStay, CountsStay DEF CountInv
<1>4. \A day \in updated : day \in CollectedDays(after)
  BY DEF UpdatedDays
<1> HIDE DEF after, updated
<1>5. ASSUME NEW day \in Days, NEW symbol \in Symbols \ {"XDR"}
      PROVE  store'[day][symbol] <= Cardinality(AvailableSources)
  <2>1. store[day] \in [Symbols -> Nat] /\ store[day][symbol] <= Cardinality(AvailableSources)
    BY <1>2 DEF CountInv, SourcesCountedOnce
  <2>2. CASE day \in updated
    <3> DEFINE rates == RatesMap(after, day)
    <3>1. rates \in [Symbols -> Nat] /\ rates[symbol] <= Cardinality(AvailableSources)
      BY <1>3, <1>4, <2>2, RatesOfDay
    <3>2. store'[day] = Put(store[day], rates)
      BY <1>1, <2>2
    <3> HIDE DEF rates
    <3>3. store'[day][symbol] \in {store[day][symbol], rates[symbol]}
      BY <2>1, <3>1, <3>2, PutKeeps
    <3> QED
      BY <2>1, <3>1, <3>3
  <2>3. CASE day \notin updated
    BY <1>1, <2>1, <2>3
  <2> QED
    BY <2>2, <2>3
<1>6. SourcesCountedOnce'
  BY <1>5 DEF SourcesCountedOnce
<1> QED
  BY <1>1, <1>3, <1>6


-----------------------------------------------------------------------------
(* The steps *)

ForexInv == StoreInv /\ ForexScheduled /\ CountInv

FullInv == IInv /\ ForexInv

LEMMA NoAnswers == <<>> \in Answers /\ \A source \in DOMAIN <<>> : FALSE
<1> DEFINE S == {answer \in ForexAnswers \cup {{}} : IsFiniteSet(answer)}
<1>1. <<>> \in Seq(S) /\ Len(<<>>) = 0
  BY EmptySeq
<1> HIDE DEF S
<1>2. <<>> \in [1..0 -> S] /\ DOMAIN <<>> = 1..0
  BY <1>1, LenProperties
<1>3. 1..0 = {}
  OBVIOUS
<1>4. <<>> \in [{} -> S] /\ DOMAIN <<>> = {}
  BY <1>2, <1>3
<1>5. {} \in SUBSET AvailableSources
  OBVIOUS
<1> QED
  BY <1>4, <1>5 DEF Answers, S

(* A fetch that ends stores its answers, for a time at which it was due,   *)
(* of sources that did not count yet.                                      *)
FetchEnds(t, answers) ==
    /\ StoreRates(t, answers) /\ nextForexRun <= t /\ t <= now /\ now' = now
    /\ \A source \in DOMAIN answers :
         source \notin SourcesOf(collector, KeyTimestamp(source, StartOfDay(t)))

(* Other steps leave the collector, the store and the schedule alone.      *)
FetchStays ==
    /\ UNCHANGED <<nextForexRun, collector, store, lastForexRun>>
    /\ \A g \in Heartbeats : tasks'[g].phase = "Forex" => tasks'[g] = tasks[g]

LEMMA ForexSteps ==
    ASSUME FullInv, Next
    PROVE  \/ \E t \in Moments, answers \in Answers : FetchEnds(t, answers)
           \/ \E h \in Heartbeats : HeartbeatWithForex(h)
           \/ FetchStays
           \/ Upgrade
<1> USE DEF FullInv
<1>t. /\ now \in Moments /\ now \in Nat /\ tasks \in [Heartbeats -> Task] /\ nextForexRun \in Nat
  BY MomentsPositive DEF IInv, HeartbeatTypeOK, ForexInv, StoreInv, ForexTypeOK
<1>u. ASSUME NEW h \in Heartbeats, NEW t, UpdateListings(h, t)
      PROVE  \A g \in Heartbeats : tasks'[g].phase = "Forex" => tasks'[g] = tasks[g]
  BY <1>t, <1>u DEF UpdateListings, SkipListings, FetchListings, NoTask
<1>1. ASSUME NEW h \in Heartbeats, HeartbeatWithoutForex(h)
      PROVE  FetchStays \/ \E t \in Moments, answers \in Answers : FetchEnds(t, answers)
  <2>1. CASE IsForexSkipped /\ UNCHANGED forexVars
    BY <1>1, <1>u, <2>1 DEF HeartbeatWithoutForex, FetchStays, forexVars
  <2>2. CASE ~IsForexSkipped /\ SourcesToCall(now) = {} /\ StoreRates(now, <<>>)
    <3>1. nextForexRun <= now /\ now' = now
      BY <1>1, <1>t, <2>2 DEF IsForexSkipped, HeartbeatWithoutForex
    <3> QED
      BY <1>t, <2>2, <3>1, NoAnswers DEF FetchEnds
  <2> QED
    BY <1>1, <2>1, <2>2 DEF HeartbeatWithoutForex
<1>2. ASSUME NEW h \in Heartbeats, ForexResponse(h)
      PROVE  \E t \in Moments, answers \in Answers : FetchEnds(t, answers)
  <2> DEFINE t == tasks[h].timestamp
  <2>1. tasks[h].phase = "Forex" /\ now' = now /\ h \in At("Forex")
    BY <1>2 DEF ForexResponse, At
  <2>2. PICK answers \in [tasks[h].sources -> ForexAnswers \cup {{}}] : StoreRates(t, answers)
    BY <1>2 DEF ForexResponse
  <2>3. t \in Moments /\ t <= now /\ nextForexRun <= t
    BY <2>1 DEF IInv, ListingInv, Past, ForexInv, ForexScheduled
  <2>4. tasks[h].sources \in SUBSET AvailableSources
    BY <1>t DEF Task
  <2>5. answers \in Answers
    <3>1. \A answer \in ForexAnswers \cup {{}} : IsFiniteSet(answer)
      BY PeriodicAssumption, FS_EmptySet
    <3>2. answers \in [tasks[h].sources -> {answer \in ForexAnswers \cup {{}} : IsFiniteSet(answer)}]
      BY <3>1
    <3> QED
      BY <2>4, <3>2 DEF Answers
  <2>6. \A source \in DOMAIN answers :
          source \notin SourcesOf(collector, KeyTimestamp(source, StartOfDay(t)))
    BY <2>1 DEF ForexInv, CountInv
  <2> QED
    BY <2>1, <2>2, <2>3, <2>5, <2>6 DEF FetchEnds
<1>3. ASSUME NEW h \in Heartbeats, ListingResponse(h) \/ Trap(h)
      PROVE  FetchStays
  <2>1. /\ UNCHANGED <<nextForexRun, collector, store, lastForexRun>>
        /\ tasks' = [tasks EXCEPT ![h] = NoTask]
    BY <1>3 DEF ListingResponse, Trap, forexVars
  <2> QED
    BY <1>t, <2>1 DEF FetchStays, NoTask
<1>4. ASSUME Tick PROVE FetchStays
  BY <1>4 DEF Tick, FetchStays, forexVars
<1> QED
  BY <1>1, <1>2, <1>3, <1>4 DEF Next, Heartbeat

LEMMA FetchEndsStep ==
    ASSUME FullInv, IInv', NEW t \in Moments, NEW answers \in Answers, FetchEnds(t, answers)
    PROVE  ForexInv'
<1> USE DEF FullInv, ForexInv
<1>1. StoreRates(t, answers)
  BY DEF FetchEnds
<1>2. StoreInv'
  BY <1>1, StoreRatesStep
<1>3. (\A i \in DOMAIN collector : Counts(collector[i]))' /\ SourcesCountedOnce'
  BY <1>1, StoreCountsStep DEF FetchEnds
<1>4. At("Forex")' = {}
  BY <1>1 DEF StoreRates, IInv, FlagsHeld, FlagHeld
<1>5. ForexScheduled'
  BY <1>1, <1>4 DEF StoreRates, ForexScheduled
<1>6. CountInv'
  BY <1>3, <1>4 DEF CountInv
<1> QED
  BY <1>2, <1>5, <1>6

LEMMA FetchBeginsStep ==
    ASSUME FullInv, NEW h \in Heartbeats, HeartbeatWithForex(h)
    PROVE  ForexInv'
<1> USE DEF FullInv, ForexInv
<1>1. /\ ~IsForexSkipped /\ UNCHANGED <<now, nextForexRun, collector, store, lastForexRun>>
      /\ tasks' = [tasks EXCEPT ![h] =
           [phase |-> "Forex", timestamp |-> now,
            sources |-> SourcesToCall(now), exchanges |-> {}]]
  BY DEF HeartbeatWithForex
<1>2. StoreInv'
  BY <1>1 DEF StoreInv, ForexTypeOK, StoreKeepsUp, BasketInStore
<1>3. /\ tasks'[h].timestamp = now /\ tasks'[h].sources = SourcesToCall(now)
      /\ \A g \in Heartbeats \ {h} : tasks'[g] = tasks[g]
  BY <1>1 DEF IInv, HeartbeatTypeOK
<1>4. nextForexRun <= now
  BY <1>1, MomentsPositive DEF IsForexSkipped, IInv, HeartbeatTypeOK, StoreInv, ForexTypeOK
<1>5. ForexScheduled'
  BY <1>1, <1>3, <1>4 DEF ForexScheduled, At
<1>6. (\A i \in DOMAIN collector : Counts(collector[i]))' /\ SourcesCountedOnce'
  BY <1>1 DEF CountInv, SourcesCountedOnce
<1>7. ASSUME NEW g \in At("Forex")', NEW source \in tasks'[g].sources
      PROVE  source \notin SourcesOf(collector, KeyTimestamp(source, StartOfDay(tasks'[g].timestamp)))
  <2>1. CASE g = h
    BY <1>3, <2>1 DEF SourcesToCall
  <2>2. CASE g # h
    BY <1>3, <2>2 DEF CountInv, At
  <2> QED
    BY <2>1, <2>2
<1>8. CountInv'
  BY <1>1, <1>6, <1>7 DEF CountInv
<1> QED
  BY <1>2, <1>5, <1>8

LEMMA FetchStaysStep == ASSUME FullInv, FetchStays PROVE ForexInv'
<1> USE DEF FullInv, ForexInv, FetchStays
<1>1. StoreInv'
  BY DEF StoreInv, ForexTypeOK, StoreKeepsUp, BasketInStore
<1>2. \A g \in At("Forex")' : g \in At("Forex") /\ tasks'[g] = tasks[g]
  BY DEF At
<1>3. ForexScheduled'
  BY <1>2 DEF ForexScheduled
<1>4. CountInv'
  BY <1>2 DEF CountInv, SourcesCountedOnce
<1> QED
  BY <1>1, <1>3, <1>4

LEMMA ForexUpgradeStep == ASSUME FullInv, Upgrade PROVE ForexInv'
<1> USE DEF FullInv, ForexInv
<1>1. /\ nextForexRun' = 0 /\ collector' = <<>> /\ lastForexRun' = 0 /\ store' = store
      /\ tasks' = tasks /\ \A h \in Heartbeats : tasks[h].phase = "None"
  BY DEF Upgrade
<1>2. collector' \in Seq(DayRates) /\ Len(collector') = 0 /\ DOMAIN collector' = {}
  BY <1>1, NoAnswers, EmptySeq
<1>3. ForexTypeOK' /\ StoreKeepsUp' /\ BasketInStore'
  BY <1>1, <1>2 DEF StoreInv, ForexTypeOK, StoreKeepsUp, BasketInStore, CollectedDays,
     MAX_COLLECTION_DAYS
<1>4. At("Forex")' = {}
  BY <1>1 DEF At
<1>5. ForexScheduled' /\ CountInv'
  BY <1>1, <1>2, <1>4 DEF ForexScheduled, CountInv, SourcesCountedOnce
<1> QED
  BY <1>3, <1>5 DEF StoreInv

(* The invariant of the refresh of the forex store. *)
THEOREM ForexInvariance == Spec => []FullInv
<1>1. Init => ForexInv
  <2> SUFFICES ASSUME Init PROVE ForexInv
    OBVIOUS
  <2>1. /\ collector = <<>> /\ store = [day \in Days |-> NoRates]
        /\ nextForexRun = 0 /\ lastForexRun = 0 /\ At("Forex") = {}
    BY DEF Init, At, NoTask
  <2>2. collector \in Seq(DayRates) /\ Len(collector) = 0 /\ DOMAIN collector = {}
    BY <2>1, NoAnswers, EmptySeq
  <2>3. \A day \in Days : store[day] = NoRates
    BY <2>1
  <2>4. NoRates \in [Symbols -> Nat] /\ \A symbol \in Symbols : NoRates[symbol] = 0
    BY DEF NoRates
  <2>5. ForexTypeOK
    BY <2>1, <2>2, <2>4 DEF ForexTypeOK, MAX_COLLECTION_DAYS
  <2>6. StoreKeepsUp
    BY <2>2 DEF StoreKeepsUp, CollectedDays
  <2>7. BasketInStore
    BY <2>3, <2>4, Basket DEF BasketInStore
  <2>8. ForexScheduled
    BY <2>1 DEF ForexScheduled
  <2>9. CountInv
    BY <2>1, <2>2, <2>3, <2>4, SourcesFinite DEF CountInv, SourcesCountedOnce
  <2> QED
    BY <2>5, <2>6, <2>7, <2>8, <2>9 DEF ForexInv, StoreInv
<1>2. FullInv /\ IInv' /\ [Next]_vars => ForexInv'
  <2> SUFFICES ASSUME FullInv, IInv', [Next]_vars PROVE ForexInv'
    OBVIOUS
  <2>1. CASE UNCHANGED vars
    <3>1. FetchStays
      BY <2>1 DEF vars, forexVars, FetchStays
    <3> QED
      BY <3>1, FetchStaysStep
  <2>2. CASE Next
    BY <2>2, ForexSteps, FetchEndsStep, FetchBeginsStep, FetchStaysStep, ForexUpgradeStep
  <2> QED
    BY <2>1, <2>2
<1>3. IInv /\ ForexInv <=> FullInv
  BY DEF FullInv
<1> QED
  BY <1>1, <1>2, <1>3, Invariance, PTL DEF Spec


-----------------------------------------------------------------------------
(* The invariants *)

(* Every variable of the background tasks stays in its type; the collector *)
(* keeps at most MAX_COLLECTION_DAYS days, in ascending order.             *)
THEOREM TypeCorrect == Spec => []TypeOK
<1>1. FullInv => TypeOK
  BY DEF FullInv, IInv, ListingInv, ForexInv, StoreInv, TypeOK
<1> QED  BY <1>1, ForexInvariance, PTL

(* All that is collected for a day is in the store at once.                *)
THEOREM StoreIsUpToDate == Spec => []StoreKeepsUp
<1>1. FullInv => StoreKeepsUp
  BY DEF FullInv, ForexInv, StoreInv
<1> QED  BY <1>1, ForexInvariance, PTL

(* No rate in the store claims more sources than are called.               *)
THEOREM NoSourceCountsTwice == Spec => []SourcesCountedOnce
<1>1. FullInv => SourcesCountedOnce
  BY DEF FullInv, ForexInv, CountInv
<1> QED  BY <1>1, ForexInvariance, PTL

-----------------------------------------------------------------------------
(* Lookups *)

Requested(timestamp, current) == ShiftToLatestSourceEod(StartOfDay(timestamp), current)

(* The day of a lookup: the newest usable one. *)
DayUsed(stored, requested) ==
    CHOOSE d \in UsableDays(stored, requested) :
        \A other \in UsableDays(stored, requested) : other <= d

(* Of the days a lookup goes through the first usable one is the newest.   *)
LEMMA NewestUsable ==
    ASSUME NEW stored \in [Days -> [Symbols -> Nat]], NEW requested \in Int,
           UsableDays(stored, requested) # {}
    PROVE  /\ DayUsed(stored, requested) \in UsableDays(stored, requested)
           /\ \A other \in UsableDays(stored, requested) : other <= DayUsed(stored, requested)
<1> DEFINE usable == UsableDays(stored, requested)
           daysBack(back) == requested - back * ONE_DAY_SECONDS
           backs == {back \in 0 .. MAX_DAYS_TO_GO_BACK : daysBack(back) \in usable}
<1>1. \A back \in Nat : daysBack(back) \in Int
  BY DEF ONE_DAY_SECONDS, ONE_HOUR_SECONDS
<1>2. \A m, n \in Nat : m <= n => daysBack(n) <= daysBack(m)
  BY SMT DEF ONE_DAY_SECONDS, ONE_HOUR_SECONDS
<1>3. \A day \in usable : \E back \in 0 .. MAX_DAYS_TO_GO_BACK : day = daysBack(back)
  BY DEF UsableDays
<1> HIDE DEF usable, daysBack
<1>4. backs \subseteq Nat
  BY DEF MAX_DAYS_TO_GO_BACK
<1>5. \A day \in usable : \E back \in backs : day = daysBack(back)
  BY <1>3
<1>6. backs # {}
  BY <1>5 DEF usable
<1>7. PICK first \in backs : \A other \in backs : first <= other
  BY <1>4, <1>6, LeastNatural
<1>8. daysBack(first) \in usable
  OBVIOUS
<1>9. \A other \in usable : other <= daysBack(first)
  <2> HIDE DEF backs
  <2> QED
    BY <1>2, <1>4, <1>5, <1>7
<1> QED
  BY <1>8, <1>9 DEF DayUsed, usable

(* The smallest of the offsets is one of them. *)
LEMMA SmallestOffset ==
    Smallest({UtcOffset[source] : source \in Sources}) \in Int
<1> DEFINE T == {UtcOffset[source] : source \in Sources}
           U == {offset + 12 : offset \in T}
<1>1. T # {} /\ \A offset \in T : offset \in Int /\ offset + 12 \in Nat
  <2>1. \A source \in Sources : UtcOffset[source] \in -12 .. 14
    BY ForexAssumption
  <2>2. \A offset : offset \in -12 .. 14 => offset \in Int /\ offset + 12 \in Nat
    OBVIOUS
  <2>3. T # {}
    BY SourcesFinite
  <2> QED
    BY <2>1, <2>2, <2>3
<1> HIDE DEF T
<1>2. U \subseteq Nat /\ U # {}
  BY <1>1
<1>3. PICK u \in U : \A other \in U : u <= other
  BY <1>2, LeastNatural
<1>4. PICK least \in T : u = least + 12
  OBVIOUS
<1>5. ASSUME NEW other \in T PROVE least <= other
  <2>1. other + 12 \in U
    OBVIOUS
  <2>2. least + 12 <= other + 12
    BY <1>3, <1>4, <2>1
  <2> QED
    BY <1>1, <2>2
<1>6. Smallest(T) \in T
  BY <1>5 DEF Smallest
<1> QED
  BY <1>1, <1>6 DEF T

(* The day from which a lookup goes back is that of the request or the day *)
(* before, and never earlier when the time is later.                       *)
LEMMA RequestedDay ==
    ASSUME NEW timestamp \in Nat, NEW current \in Nat, NEW later \in Nat, current <= later
    PROVE  /\ Requested(timestamp, current) \in Int
           /\ \/ Requested(timestamp, later) = Requested(timestamp, current)
              \/ /\ Requested(timestamp, current) = StartOfDay(timestamp) - ONE_DAY_SECONDS
                 /\ Requested(timestamp, later) = StartOfDay(timestamp)
<1> DEFINE start == StartOfDay(timestamp)
           least == Smallest({UtcOffset[source] : source \in Sources})
           over == start + ONE_DAY_SECONDS + least * ONE_HOUR_SECONDS
<1>1. start \in Int /\ over \in Int /\ start - ONE_DAY_SECONDS \in Int
  BY SMT, SmallestOffset DEF StartOfDay, ONE_DAY_SECONDS, ONE_HOUR_SECONDS
<1>2. \A time : Requested(timestamp, time) =
                  IF time < over THEN start - ONE_DAY_SECONDS ELSE start
  BY DEF Requested, ShiftToLatestSourceEod
<1> HIDE DEF start, over
<1> QED
  BY <1>1, <1>2 DEF start


IsFound(stored, day, currency) == currency = "USD" \/ stored[day][currency] > 0

FoundOn(stored, day, base, quote) ==
    CASE IsFound(stored, day, base) /\ IsFound(stored, day, quote) -> "Ok"
      [] IsFound(stored, day, base) /\ ~IsFound(stored, day, quote) -> "ForexQuoteAssetNotFound"
      [] ~IsFound(stored, day, base) /\ IsFound(stored, day, quote) -> "ForexBaseAssetNotFound"
      [] OTHER -> "ForexAssetsNotFound"

LEMMA GetIs ==
    \A stored, timestamp, current, base, quote :
        LET requested == Requested(timestamp, current)
            day == DayUsed(stored, requested)
        IN  Get(stored, timestamp, current, base, quote) =
              IF base = quote THEN [day |-> requested, result |-> "Ok"]
              ELSE IF UsableDays(stored, requested) = {}
              THEN [day |-> 0, result |-> "ForexInvalidTimestamp"]
              ELSE [day |-> day, result |-> FoundOn(stored, day, base, quote)]
BY DEF Get, Requested, DayUsed, FoundOn, IsFound

LEMMA BothFound ==
    ASSUME NEW stored, NEW day, NEW base, NEW quote,
           IsFound(stored, day, base), IsFound(stored, day, quote)
    PROVE  FoundOn(stored, day, base, quote) = "Ok"
BY Zenon DEF FoundOn

(* A lookup that finds a day finds the currencies of the CXDR basket on it *)
THEOREM BasketIsFound == Spec => []BasketFound
<1>1. FullInv => BasketFound
  <2> SUFFICES ASSUME FullInv, NEW requested \in Moments, NEW currency \in CxdrBasket
               PROVE  Get(store, requested, now, currency, "USD").result
                        \in {"Ok", "ForexInvalidTimestamp"}
    BY DEF BasketFound
  <2> DEFINE start == Requested(requested, now)
             usable == UsableDays(store, start)
             day == DayUsed(store, start)
  <2>1. /\ store \in [Days -> [Symbols -> Nat]]
        /\ \A d \in Days : store[d]["CXDR"] <= store[d][currency]
    BY DEF FullInv, ForexInv, StoreInv, ForexTypeOK, BasketInStore
  <2>2. currency # "USD" /\ currency \in Symbols /\ "CXDR" \in Symbols
        /\ MIN_SOURCES_TO_REPORT \in Nat \ {0}
    BY Basket, ForexAssumption DEF CxdrBasket
  <2>3. start \in Int
    BY RequestedDay, MomentsPositive DEF FullInv, IInv, HeartbeatTypeOK
  <2>4. CASE usable = {}
    <3>1. Get(store, requested, now, currency, "USD")
            = [day |-> 0, result |-> "ForexInvalidTimestamp"]
      BY <2>2, <2>4, GetIs
    <3> QED
      BY <3>1
  <2>5. CASE usable # {}
    <3>1. day \in usable
      BY <2>1, <2>3, <2>5, NewestUsable
    <3>2. day \in Days /\ store[day]["CXDR"] >= MIN_SOURCES_TO_REPORT
      BY <2>1, <3>1 DEF UsableDays
    <3>3. store[day]["CXDR"] \in Nat /\ store[day][currency] \in Nat
      BY <2>1, <2>2, <3>2
    <3>4. store[day][currency] > 0
      BY <2>1, <2>2, <3>2, <3>3
    <3>5. FoundOn(store, day, currency, "USD") = "Ok"
      BY <3>4, BothFound DEF IsFound
    <3>6. Get(store, requested, now, currency, "USD").result
            = FoundOn(store, day, currency, "USD")
      BY <2>2, <2>5, GetIs
    <3> QED
      BY <3>5, <3>6
  <2> QED
    BY <2>4, <2>5
<1> QED  BY <1>1, ForexInvariance, PTL

-----------------------------------------------------------------------------
(* The steps of the refresh *)

(* Time passes and rates are replaced by those of more sources.            *)
LEMMA StoreGrows ==
    ASSUME FullInv, [Next]_vars
    PROVE  /\ now \in Nat /\ now' \in Nat /\ now <= now'
           /\ \A day \in Days, symbol \in Symbols : store'[day][symbol] >= store[day][symbol]
<1>1. now \in Nat /\ StoreInv
  BY MomentsPositive DEF FullInv, IInv, HeartbeatTypeOK, ForexInv
<1>2. now' \in Nat /\ now <= now'
  <2>1. CASE Tick
    BY <1>1, <2>1, MomentsPositive DEF Tick
  <2>2. CASE ~Tick
    <3>1. now' = now
      BY <2>2 DEF Next, Upgrade, Heartbeat, HeartbeatWithoutForex, HeartbeatWithForex,
         ForexResponse, ListingResponse, Trap, vars
    <3> QED
      BY <1>1, <3>1
  <2> QED
    BY <2>1, <2>2
<1>3. CASE store' = store
  <2>1. \A day \in Days, symbol \in Symbols : store[day][symbol] \in Nat
    BY <1>1 DEF StoreInv, ForexTypeOK
  <2> QED
    BY <1>1, <1>2, <1>3, <2>1
<1>4. CASE store' # store
  <2>1. Next
    BY <1>4 DEF vars, forexVars
  <2>2. PICK t \in Moments, answers \in Answers : FetchEnds(t, answers)
    BY <1>4, <2>1, ForexSteps DEF HeartbeatWithForex, FetchStays, Upgrade
  <2> QED
    BY <1>1, <1>2, <2>2, StoreRatesStep DEF FetchEnds
<1> QED
  BY <1>3, <1>4

(* The day whose rates answer a request never goes back.                   *)
THEOREM ForexDayKeepsUp == Spec => ForexDayNeverGoesBack
<1>1. FullInv /\ FullInv' /\ [Next]_vars =>
        [\A requested \in Moments :
           LET dayOf(s, t) == Get(s, requested, t, "EUR", "USD").day
           IN  \/ dayOf(store', now') >= dayOf(store, now)
               \/ dayOf(store, now) + MAX_DAYS_TO_GO_BACK * ONE_DAY_SECONDS
                       < StartOfDay(requested)]_vars
  <2> SUFFICES ASSUME FullInv, FullInv', [Next]_vars, NEW requested \in Moments
               PROVE  LET dayOf(s, t) == Get(s, requested, t, "EUR", "USD").day
                      IN  \/ dayOf(store', now') >= dayOf(store, now)
                          \/ dayOf(store, now) + MAX_DAYS_TO_GO_BACK * ONE_DAY_SECONDS
                                  < StartOfDay(requested)
    OBVIOUS
  <2> DEFINE start == Requested(requested, now)
             later == Requested(requested, now')
             old == Get(store, requested, now, "EUR", "USD").day
             new == Get(store', requested, now', "EUR", "USD").day
  <2>1. /\ now \in Nat /\ now' \in Nat /\ now <= now' /\ requested \in Nat
        /\ \A day \in Days, symbol \in Symbols : store'[day][symbol] >= store[day][symbol]
    BY StoreGrows, MomentsPositive
  <2>2. store \in [Days -> [Symbols -> Nat]] /\ store' \in [Days -> [Symbols -> Nat]]
    BY DEF FullInv, ForexInv, StoreInv, ForexTypeOK
  <2>3. /\ start \in Int /\ later \in Int
        /\ \/ later = start
           \/ start = StartOfDay(requested) - ONE_DAY_SECONDS /\ later = StartOfDay(requested)
    BY <2>1, RequestedDay
  <2>4. /\ old = IF UsableDays(store, start) = {} THEN 0 ELSE DayUsed(store, start)
        /\ new = IF UsableDays(store', later) = {} THEN 0 ELSE DayUsed(store', later)
    BY GetIs
  <2> HIDE DEF start, later, old, new
  <2>5. /\ UsableDays(store, start) \subseteq Nat /\ UsableDays(store', later) \subseteq Nat
        /\ UsableDays(store, start) \subseteq Days
    BY <2>2, DaysAreNumbers DEF UsableDays
  <2>6. new \in Nat
    BY <2>2, <2>3, <2>4, <2>5, NewestUsable
  <2>7. CASE UsableDays(store, start) = {}
    BY <2>4, <2>6, <2>7 DEF old, new
  <2>8. CASE UsableDays(store, start) # {}
    <3>1. old \in UsableDays(store, start) /\ old \in Nat /\ old \in Days
      BY <2>2, <2>3, <2>4, <2>5, <2>8, NewestUsable
    <3>2. PICK back \in 0 .. MAX_DAYS_TO_GO_BACK : old = start - back * ONE_DAY_SECONDS
      BY <3>1 DEF UsableDays
    <3>3. store'[old]["CXDR"] >= MIN_SOURCES_TO_REPORT
      <4>1. store[old]["CXDR"] >= MIN_SOURCES_TO_REPORT /\ store'[old]["CXDR"] >= store[old]["CXDR"]
        BY <2>1, <3>1, Basket DEF UsableDays
      <4>2. /\ store[old]["CXDR"] \in Nat /\ store'[old]["CXDR"] \in Nat
            /\ MIN_SOURCES_TO_REPORT \in Nat
        BY <2>2, <3>1, Basket, ForexAssumption
      <4> QED
        BY <4>1, <4>2
    <3>4. ASSUME NEW b \in 0 .. MAX_DAYS_TO_GO_BACK, old = later - b * ONE_DAY_SECONDS
          PROVE  new >= old
      <4>1. old \in UsableDays(store', later)
        BY <2>2, <3>1, <3>3, <3>4 DEF UsableDays
      <4>2. new = DayUsed(store', later) /\ old <= DayUsed(store', later)
        BY <2>2, <2>3, <2>4, <4>1, NewestUsable
      <4> QED
        BY <2>6, <3>1, <4>2
    <3>5. CASE later = start
      <4>1. new >= old
        BY <3>2, <3>4, <3>5
      <4> QED
        BY <4>1 DEF new, old
    <3>6. CASE start = StartOfDay(requested) - ONE_DAY_SECONDS /\ later = StartOfDay(requested)
      <4>1. later = start + ONE_DAY_SECONDS /\ back \in 0 .. 7
        BY <2>3, <3>6 DEF ONE_DAY_SECONDS, ONE_HOUR_SECONDS, MAX_DAYS_TO_GO_BACK
      <4>2. CASE back + 1 \in 0 .. MAX_DAYS_TO_GO_BACK
        <5>1. old = later - (back + 1) * ONE_DAY_SECONDS
          BY <2>3, <3>2, <4>1 DEF ONE_DAY_SECONDS, ONE_HOUR_SECONDS
        <5>2. new >= old
          BY <3>4, <4>2, <5>1
        <5> QED
          BY <5>2 DEF new, old
      <4>3. CASE back + 1 \notin 0 .. MAX_DAYS_TO_GO_BACK
        <5>1. back = 7
          BY <4>1, <4>3 DEF MAX_DAYS_TO_GO_BACK
        <5>2. old + MAX_DAYS_TO_GO_BACK * ONE_DAY_SECONDS < later
          BY <2>3, <3>2, <4>1, <5>1 DEF ONE_DAY_SECONDS, ONE_HOUR_SECONDS, MAX_DAYS_TO_GO_BACK
        <5> QED
          BY <3>6, <5>2 DEF old
      <4> QED
        BY <4>2, <4>3
    <3> QED
      BY <2>3, <3>5, <3>6
  <2> QED
    BY <2>7, <2>8
<1> QED  BY <1>1, ForexInvariance, PTL DEF Spec, ForexDayNeverGoesBack

(* A time at which a refresh is due again is in a later period.            *)
LEMMA LaterPeriod ==
    ASSUME NEW last \in Nat, NEW t \in Nat, NextForexRun(last) <= t
    PROVE  t \div SIX_HOURS > last \div SIX_HOURS
BY SMT DEF NextForexRun, SIX_HOURS, ONE_HOUR_SECONDS

(* The refresh completes at most once in each period of six hours.         *)
THEOREM OneRefreshPerPeriod == Spec => OneForexRunPerPeriod
<1>1. FullInv /\ [Next]_vars =>
        [lastForexRun # 0 /\ lastForexRun' \notin {0, lastForexRun}
           => lastForexRun' \div SIX_HOURS > lastForexRun \div SIX_HOURS]_vars
  <2> SUFFICES ASSUME FullInv, Next, lastForexRun # 0, lastForexRun' \notin {0, lastForexRun}
               PROVE  lastForexRun' \div SIX_HOURS > lastForexRun \div SIX_HOURS
    OBVIOUS
  <2>1. PICK t \in Moments, answers \in Answers : FetchEnds(t, answers)
    BY ForexSteps DEF HeartbeatWithForex, FetchStays, Upgrade
  <2>2. lastForexRun' = t /\ nextForexRun <= t /\ t \in Nat
    BY <2>1, MomentsPositive DEF FetchEnds, StoreRates
  <2>3. nextForexRun = NextForexRun(lastForexRun) /\ lastForexRun \in Nat
    BY MomentsPositive DEF FullInv, ForexInv, ForexScheduled, StoreInv, ForexTypeOK
  <2> QED
    BY <2>2, <2>3, LaterPeriod
<1> QED  BY <1>1, ForexInvariance, PTL DEF Spec, OneForexRunPerPeriod

=============================================================================
