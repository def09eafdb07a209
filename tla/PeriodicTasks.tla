--------------------------- MODULE PeriodicTasks ----------------------------
(***************************************************************************)
(* The background tasks of src/xrc/src/periodic.rs. Each heartbeat takes   *)
(* the time and runs, with that one timestamp, first the refresh of the    *)
(* forex store and then the refresh of the listings. Either may wait for   *)
(* HTTP outcalls, during which later heartbeats run.                       *)
(*                                                                         *)
(* An action is what a heartbeat does from one await to the next. If the   *)
(* code after an await traps, its changes are undone and the guard that    *)
(* was held across the await is dropped.                                   *)
(***************************************************************************)
EXTENDS ListingStore, ForexRates

CONSTANTS
    Heartbeats,         \* the heartbeats that can be under way together
    Exchanges,
    ListingAnswers,     \* what exchanges answer, members of ListedPairs
    ForexAnswers,       \* sets of symbols that forex sources answer
    Moments,            \* the times of messages
    MaxTraps            \* a bound for TLC

VARIABLES
    now,                \* the time of the current message
    tasks,              \* each heartbeat: the await it is at and its locals
    isUpdatingForex,    \* IS_UPDATING_FOREX_STORE
    nextForexRun,       \* NEXT_RUN_SCHEDULED_AT_TIMESTAMP
    collector, store,   \* the forex collector and the forex store
    isUpdatingListings, \* IS_UPDATING_LISTING_STORE
    nextListingRun,     \* NEXT_LISTING_RUN_BY_EXCHANGE, 0 for no entry
    listings,           \* the listing store
    traps,              \* how many traps there were
    \* For the properties, since the last upgrade, 0 for never:
    lastAttempt,        \* the timestamp with which an exchange was last asked
    lastForexRun        \* the timestamp of the last completed forex refresh

forexVars == <<isUpdatingForex, nextForexRun, collector, store, lastForexRun>>
listingVars == <<isUpdatingListings, nextListingRun, listings, lastAttempt>>
vars == <<now, tasks, forexVars, listingVars, traps>>

SIX_HOURS == 6 * ONE_HOUR_SECONDS
LISTING_REFRESH_INTERVAL == ONE_DAY_SECONDS
LISTING_RETRY_INTERVAL == ONE_HOUR_SECONDS

\* The day a source is asked for at the start of the UTC day `today`: the
\* last one that is over by the source's clock.
KeyTimestamp(source, today) ==
    StartOfDay(today + UtcOffset[source] * ONE_HOUR_SECONDS - ONE_DAY_SECONDS)

\* The days for which forex rates can be collected.
Days == {KeyTimestamp(source, StartOfDay(t)) : source \in Sources, t \in Moments}

ASSUME PeriodicAssumption ==
    /\ \A t \in Moments : t \in Nat /\ t > 3 * ONE_DAY_SECONDS
    /\ Moments # {}
    /\ ListingAnswers \subseteq ListedPairs
    /\ \A answer \in ForexAnswers : IsFiniteSet(answer)
    /\ MaxTraps \in Nat

\* The first of January 1970 was a Thursday.
IsWeekend(day) == ((day \div ONE_DAY_SECONDS) + 4) % 7 \in {0, 6}

\* Variant: a source is asked again for a day it has answered for.
SourcesToCallAgain(timestamp) ==
    {source \in AvailableSources :
        ~IsWeekend(KeyTimestamp(source, StartOfDay(timestamp)))}

\* The sources that a fetch at this time asks.
SourcesToCall(timestamp) ==
    {source \in AvailableSources :
        LET day == KeyTimestamp(source, StartOfDay(timestamp))
        IN  ~IsWeekend(day) /\ source \notin SourcesOf(collector, day)}

NextForexRun(timestamp) == timestamp - (timestamp % SIX_HOURS) + SIX_HOURS

\* Variant: a day too late.
NextRefreshSkippingADay(timestamp) ==
    timestamp - (timestamp % LISTING_REFRESH_INTERVAL) + 2 * LISTING_REFRESH_INTERVAL

NextDailyRefresh(timestamp) ==
    timestamp - (timestamp % LISTING_REFRESH_INTERVAL) + LISTING_REFRESH_INTERVAL

Task ==
    [phase : {"None", "Forex", "Listings"}, timestamp : {0} \cup Moments,
     sources : SUBSET AvailableSources, exchanges : SUBSET Exchanges]
NoTask == [phase |-> "None", timestamp |-> 0, sources |-> {}, exchanges |-> {}]

Init ==
    /\ now \in Moments
    /\ tasks = [h \in Heartbeats |-> NoTask]
    /\ isUpdatingForex = FALSE /\ nextForexRun = 0
    /\ collector = <<>> /\ store = [day \in Days |-> NoRates]
    /\ isUpdatingListings = FALSE
    /\ nextListingRun = [e \in Exchanges |-> 0]
    /\ listings = [e \in Exchanges |-> NoListing]
    /\ traps = 0
    /\ lastAttempt = [e \in Exchanges |-> 0] /\ lastForexRun = 0

-----------------------------------------------------------------------------
(* The refresh of the listings. *)

\* Variant: the clock decides, not the time at which the heartbeat began.
DueExchangesByClock(timestamp) == {e \in Exchanges : nextListingRun[e] <= now}

DueExchanges(timestamp) ==
    {e \in Exchanges : nextListingRun[e] <= timestamp}

\* The refresh runs already, or no exchange is due: the heartbeat ends.
SkipListings(h, timestamp) ==
    /\ isUpdatingListings \/ DueExchanges(timestamp) = {}
    /\ tasks' = [tasks EXCEPT ![h] = NoTask]
    /\ UNCHANGED listingVars

\* Variants: the next attempt is left for after the await, or the guard is
\* not consulted.
FetchListingsUnscheduled(h, timestamp) ==
    LET due == DueExchanges(timestamp)
    IN  /\ ~isUpdatingListings /\ due # {}
        /\ isUpdatingListings' = TRUE
        /\ lastAttempt' = [e \in Exchanges |->
               IF e \in due THEN timestamp ELSE lastAttempt[e]]
        /\ tasks' = [tasks EXCEPT ![h] =
               [phase |-> "Listings", timestamp |-> timestamp,
                sources |-> {}, exchanges |-> due]]
        /\ UNCHANGED <<nextListingRun, listings>>

FetchListingsUnguarded(h, timestamp) ==
    LET due == DueExchanges(timestamp)
    IN  /\ due # {}
        /\ isUpdatingListings' = TRUE
        /\ nextListingRun' = [e \in Exchanges |->
               IF e \in due THEN timestamp + LISTING_RETRY_INTERVAL
               ELSE nextListingRun[e]]
        /\ lastAttempt' = [e \in Exchanges |->
               IF e \in due THEN timestamp ELSE lastAttempt[e]]
        /\ tasks' = [tasks EXCEPT ![h] =
               [phase |-> "Listings", timestamp |-> timestamp,
                sources |-> {}, exchanges |-> due]]
        /\ UNCHANGED listings

\* The due exchanges are asked; the next attempt is set before the await.
FetchListings(h, timestamp) ==
    LET due == DueExchanges(timestamp)
    IN  /\ ~isUpdatingListings /\ due # {}
        /\ isUpdatingListings' = TRUE
        /\ nextListingRun' = [e \in Exchanges |->
               IF e \in due THEN timestamp + LISTING_RETRY_INTERVAL
               ELSE nextListingRun[e]]
        /\ lastAttempt' = [e \in Exchanges |->
               IF e \in due THEN timestamp ELSE lastAttempt[e]]
        /\ tasks' = [tasks EXCEPT ![h] =
               [phase |-> "Listings", timestamp |-> timestamp,
                sources |-> {}, exchanges |-> due]]
        /\ UNCHANGED listings

UpdateListings(h, timestamp) ==
    SkipListings(h, timestamp) \/ FetchListings(h, timestamp)

\* The answers are there: `answers` of the exchanges that did not fail.
ListingResponse(h) ==
    LET timestamp == tasks[h].timestamp
    IN  /\ tasks[h].phase = "Listings"
        /\ \E answered \in SUBSET tasks[h].exchanges :
           \E answers \in [answered -> ListingAnswers] :
             LET accepted == {e \in answered : Accepts(listings[e], answers[e])}
             IN  /\ listings' = [e \in Exchanges |->
                        IF e \in answered
                        THEN Accept(listings[e], answers[e], timestamp)
                        ELSE listings[e]]
                 /\ nextListingRun' = [e \in Exchanges |->
                        IF e \in accepted THEN NextDailyRefresh(timestamp)
                        ELSE nextListingRun[e]]
        /\ isUpdatingListings' = FALSE
        /\ tasks' = [tasks EXCEPT ![h] = NoTask]
        /\ UNCHANGED <<now, forexVars, traps, lastAttempt>>

-----------------------------------------------------------------------------
(* The refresh of the forex store. *)

\* The rates of all sources that answered, one source after the other in the
\* order of FOREX_SOURCES. An empty answer counts as an error.
Collected(timestamp, answers) ==
    LET update(collected, source) ==
            IF source \in DOMAIN answers /\ answers[source] # {}
            THEN Update(collected, source,
                        KeyTimestamp(source, StartOfDay(timestamp)),
                        answers[source])
            ELSE collected
    IN  FoldLeft(update, collector, FOREX_SOURCES)

\* Variant: only the newest of them.
UpdatedDaysNewest(timestamp, answers) ==
    LET days == CollectedDays(Collected(timestamp, answers))
    IN  {day \in days : \A other \in days : other <= day} \cap
        {KeyTimestamp(source, StartOfDay(timestamp)) :
            source \in {s \in DOMAIN answers : answers[s] # {}}}

\* The days some source answered for and the collector has afterwards.
UpdatedDays(timestamp, answers) ==
    CollectedDays(Collected(timestamp, answers)) \cap
    {KeyTimestamp(source, StartOfDay(timestamp)) :
        source \in {s \in DOMAIN answers : answers[s] # {}}}

\* All that a fetch does with its answers.
StoreRates(timestamp, answers) ==
    /\ collector' = Collected(timestamp, answers)
    /\ store' = [day \in Days |->
           IF day \in UpdatedDays(timestamp, answers)
           THEN Put(store[day], RatesMap(collector', day)) ELSE store[day]]
    /\ nextForexRun' = NextForexRun(timestamp)
    /\ isUpdatingForex' = FALSE
    /\ lastForexRun' = timestamp

\* Variant: the guard is not consulted.
IsForexSkippedUnguarded == nextForexRun > now

IsForexSkipped == nextForexRun > now \/ isUpdatingForex

\* A heartbeat that does not wait for forex sources: the refresh is not due,
\* or runs already, or has no source to ask and is done at once.
HeartbeatWithoutForex(h) ==
    /\ tasks[h].phase = "None"
    /\ \/ IsForexSkipped /\ UNCHANGED forexVars
       \/ ~IsForexSkipped /\ SourcesToCall(now) = {} /\ StoreRates(now, <<>>)
    /\ UpdateListings(h, now)
    /\ UNCHANGED <<now, traps>>

\* A heartbeat that asks the forex sources.
HeartbeatWithForex(h) ==
    /\ tasks[h].phase = "None"
    /\ ~IsForexSkipped /\ SourcesToCall(now) # {}
    /\ isUpdatingForex' = TRUE
    /\ tasks' = [tasks EXCEPT ![h] =
           [phase |-> "Forex", timestamp |-> now,
            sources |-> SourcesToCall(now), exchanges |-> {}]]
    /\ UNCHANGED <<now, nextForexRun, collector, store, lastForexRun, listingVars, traps>>

\* The answers are there. The heartbeat goes on to the listings with the
\* time at which it began.
ForexResponse(h) ==
    /\ tasks[h].phase = "Forex"
    /\ \E answers \in [tasks[h].sources -> ForexAnswers \cup {{}}] :
         StoreRates(tasks[h].timestamp, answers)
    /\ UpdateListings(h, tasks[h].timestamp)
    /\ UNCHANGED <<now, traps>>

-----------------------------------------------------------------------------

\* Variants: the guard of either refresh is not dropped.
TrapLeavingListings(h) ==
    /\ tasks[h].phase # "None" /\ traps < MaxTraps
    /\ isUpdatingForex' = (isUpdatingForex /\ tasks[h].phase # "Forex")
    /\ tasks' = [tasks EXCEPT ![h] = NoTask]
    /\ traps' = traps + 1
    /\ UNCHANGED <<now, nextForexRun, collector, store, lastForexRun, listingVars>>

TrapLeavingForex(h) ==
    /\ tasks[h].phase # "None" /\ traps < MaxTraps
    /\ isUpdatingListings' = (isUpdatingListings /\ tasks[h].phase # "Listings")
    /\ tasks' = [tasks EXCEPT ![h] = NoTask]
    /\ traps' = traps + 1
    /\ UNCHANGED <<now, forexVars, nextListingRun, listings, lastAttempt>>

Trap(h) ==
    /\ tasks[h].phase # "None" /\ traps < MaxTraps
    /\ isUpdatingForex' = (isUpdatingForex /\ tasks[h].phase # "Forex")
    /\ isUpdatingListings' = (isUpdatingListings /\ tasks[h].phase # "Listings")
    /\ tasks' = [tasks EXCEPT ![h] = NoTask]
    /\ traps' = traps + 1
    /\ UNCHANGED <<now, nextForexRun, collector, store, lastForexRun>>
    /\ UNCHANGED <<nextListingRun, listings, lastAttempt>>

\* Both stores are saved and restored; everything else starts afresh.
Upgrade ==
    /\ \A h \in Heartbeats : tasks[h].phase = "None"
    /\ nextForexRun' = 0 /\ collector' = <<>>
    /\ nextListingRun' = [e \in Exchanges |-> 0]
    /\ lastAttempt' = [e \in Exchanges |-> 0] /\ lastForexRun' = 0
    /\ isUpdatingForex' = FALSE /\ isUpdatingListings' = FALSE
    /\ UNCHANGED <<now, tasks, store, listings, traps>>

Tick ==
    /\ \E later \in Moments : later > now /\ now' = later
    /\ UNCHANGED <<tasks, forexVars, listingVars, traps>>

Heartbeat(h) == HeartbeatWithoutForex(h) \/ HeartbeatWithForex(h)

Next ==
    \/ \E h \in Heartbeats :
         Heartbeat(h) \/ ForexResponse(h) \/ ListingResponse(h) \/ Trap(h)
    \/ Upgrade
    \/ Tick

Spec == Init /\ [][Next]_vars

\* The canister gets heartbeats, and every HTTP outcall is answered.
Fairness ==
    /\ WF_vars(\E h \in Heartbeats : Heartbeat(h))
    /\ \A h \in Heartbeats : WF_vars(ForexResponse(h) \/ ListingResponse(h))

FairSpec == Spec /\ Fairness

=============================================================================
