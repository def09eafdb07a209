------------------------- MODULE PeriodicTasksProofs -------------------------
(***************************************************************************)
(* Proofs about the background tasks, for any heartbeats, exchanges,       *)
(* sources and times. They concern the flags and the refresh of the        *)
(* listings; what the collector makes of a fetch of forex rates, a fold    *)
(* left unexpanded here, is for ForexProofs.                               *)
(***************************************************************************)
EXTENDS PeriodicTasksProperties, TLAPS

(* Nothing carries a time that has not come. *)
Past ==
    /\ \A h \in Heartbeats : tasks[h].phase # "None" =>
         tasks[h].timestamp \in Moments /\ tasks[h].timestamp <= now
    /\ \A e \in Exchanges :
         lastAttempt[e] <= now /\ listings[e].last_success_secs <= now

(* A heartbeat that waits for listings is the last to have asked for them. *)
AskedTracked ==
    \A h \in Heartbeats, e \in Exchanges :
        tasks[h].phase = "Listings" /\ e \in tasks[h].exchanges
        => /\ lastAttempt[e] = tasks[h].timestamp
           /\ listings[e].last_success_secs <= tasks[h].timestamp

(* The next attempt follows from the last one and what came of it. *)
Scheduled ==
    \A e \in Exchanges :
        \/ lastAttempt[e] = 0 /\ nextListingRun[e] = 0
        \/ /\ lastAttempt[e] \in Moments
           /\ nextListingRun[e] = lastAttempt[e] + LISTING_RETRY_INTERVAL
        \/ /\ lastAttempt[e] \in Moments
           /\ listings[e].last_success_secs = lastAttempt[e]
           /\ nextListingRun[e] = NextDailyRefresh(lastAttempt[e])

(* An exchange with a listing newer than `timestamp` is not due then. *)
NotDueBeforeSuccess(timestamp) ==
    \A e \in Exchanges :
        \/ listings[e].last_success_secs <= timestamp
        \/ nextListingRun[e] > timestamp

(* So a heartbeat that waits for forex sources will not ask it. *)
StaleTasksHarmless ==
    \A h \in Heartbeats :
        tasks[h].phase = "Forex" => NotDueBeforeSuccess(tasks[h].timestamp)

ListingInv ==
    /\ ListingTypeOK /\ Past /\ AskedTracked /\ Scheduled /\ StaleTasksHarmless

IInv == HeartbeatTypeOK /\ FlagsHeld /\ ListingInv

-----------------------------------------------------------------------------

(* Moments are positive numbers of seconds. *)
LEMMA MomentsPositive == \A t \in Moments : t \in Nat /\ t > 0
BY PeriodicAssumption DEF ONE_DAY_SECONDS, ONE_HOUR_SECONDS

(* The daily refresh after a time is the start of a later day, and comes   *)
(* no later than the start of any later day.                               *)
LEMMA NextDay ==
    ASSUME NEW t \in Nat, NEW u \in Nat
    PROVE  /\ NextDailyRefresh(t) \in Nat /\ NextDailyRefresh(t) > t
           /\ u >= NextDailyRefresh(t) <=> StartOfDay(u) > t
           /\ StartOfDay(u) > t => NextDailyRefresh(t) <= u
BY DEF NextDailyRefresh, LISTING_REFRESH_INTERVAL, StartOfDay, ONE_DAY_SECONDS,
       ONE_HOUR_SECONDS

(* What is kept of an answer: the answer itself if it is sound. *)
LEMMA AcceptSound ==
    ASSUME NEW previous \in ExchangeListing, NEW fetched \in ListedPairs,
           NEW t \in Nat
    PROVE  /\ Accept(previous, fetched, t) \in ExchangeListing
           /\ Accepts(previous, fetched) =>
                /\ Accept(previous, fetched, t).last_success_secs = t
                /\ Accept(previous, fetched, t).total_markets >= MIN_TOTAL_MARKETS
                /\ 2 * Accept(previous, fetched, t).total_markets
                     >= previous.total_markets
           /\ ~Accepts(previous, fetched) =>
                Accept(previous, fetched, t) = previous
BY DEF Accept, Accepts, MinTotal, ExchangeListing, ListedPairs, MIN_TOTAL_MARKETS

-----------------------------------------------------------------------------

(* The start of a refresh of the listings, whoever gets to it. *)
LEMMA UpdateListingsStep ==
    ASSUME IInv, NEW h \in Heartbeats, NEW t \in Moments, t <= now,
           tasks[h].phase # "Listings", NotDueBeforeSuccess(t),
           now' = now, UpdateListings(h, t)
    PROVE  /\ tasks' \in [Heartbeats -> Task] /\ isUpdatingListings' \in BOOLEAN
           /\ FlagHeld(isUpdatingListings, "Listings")'
           /\ \A g \in Heartbeats : tasks'[g].phase = "Forex" =>
                g # h /\ tasks'[g] = tasks[g]
           /\ ListingInv'
<1> USE DEF IInv, ListingInv
<1>t. t \in Nat /\ t > 0 /\ now \in Nat
  BY MomentsPositive DEF HeartbeatTypeOK
<1>1. CASE SkipListings(h, t)
  <2>1. tasks' = [tasks EXCEPT ![h] = NoTask] /\ UNCHANGED listingVars
    BY <1>1 DEF SkipListings
  <2>2. tasks' \in [Heartbeats -> Task] /\ tasks'[h] = NoTask
        /\ \A g \in Heartbeats \ {h} : tasks'[g] = tasks[g]
    BY <2>1 DEF HeartbeatTypeOK, NoTask, Task
  <2>3. FlagHeld(isUpdatingListings, "Listings")'
    BY <2>1, <2>2 DEF FlagsHeld, FlagHeld, At, NoTask, listingVars
  <2>4. ListingTypeOK' /\ Scheduled'
    BY <2>1 DEF ListingTypeOK, Scheduled, listingVars
  <2>5. Past' /\ AskedTracked' /\ StaleTasksHarmless'
    BY <2>1, <2>2 DEF Past, AskedTracked, StaleTasksHarmless, NotDueBeforeSuccess,
       NoTask, listingVars
  <2> QED  BY <2>1, <2>2, <2>3, <2>4, <2>5 DEF NoTask, listingVars, HeartbeatTypeOK
<1>2. CASE FetchListings(h, t)
  <2> DEFINE due == DueExchanges(t)
             task == [phase |-> "Listings", timestamp |-> t,
                      sources |-> {}, exchanges |-> due]
  <2>1. /\ ~isUpdatingListings /\ isUpdatingListings' = TRUE
        /\ tasks' = [tasks EXCEPT ![h] = task] /\ listings' = listings
        /\ nextListingRun' = [e \in Exchanges |->
             IF e \in due THEN t + LISTING_RETRY_INTERVAL ELSE nextListingRun[e]]
        /\ lastAttempt' = [e \in Exchanges |->
             IF e \in due THEN t ELSE lastAttempt[e]]
    BY <1>2 DEF FetchListings
  <2>2. due \subseteq Exchanges /\ \A e \in Exchanges : e \in due <=> nextListingRun[e] <= t
    BY DEF DueExchanges
  <2>3. tasks' \in [Heartbeats -> Task] /\ tasks'[h] = task
        /\ \A g \in Heartbeats \ {h} : tasks'[g] = tasks[g]
    BY <2>1, <2>2 DEF HeartbeatTypeOK, Task
  <2>4. At("Listings") = {} /\ At("Listings")' = {h}
    BY <2>1, <2>3 DEF FlagsHeld, FlagHeld, At
  <2>5. FlagHeld(isUpdatingListings, "Listings")'
    BY <2>1, <2>4 DEF FlagHeld
  <2>6. ListingTypeOK'
    BY <1>t, <2>1 DEF ListingTypeOK, LISTING_RETRY_INTERVAL, ONE_HOUR_SECONDS
  <2>7. Past'
    BY <1>t, <2>1, <2>3 DEF Past, ListingTypeOK
  <2>8. \A e \in due : listings[e].last_success_secs <= t
    BY <1>t, <2>2 DEF NotDueBeforeSuccess, ListingTypeOK, ExchangeListing
  <2>9. AskedTracked'
    BY <2>1, <2>2, <2>3, <2>4, <2>8 DEF AskedTracked, At
  <2>10. Scheduled'
    BY <2>1, <2>2 DEF Scheduled
  <2>11. StaleTasksHarmless'
    <3> SUFFICES ASSUME NEW g \in Heartbeats, tasks'[g].phase = "Forex",
                        NEW e \in Exchanges
                 PROVE  \/ listings[e].last_success_secs <= tasks[g].timestamp
                        \/ nextListingRun'[e] > tasks[g].timestamp
      BY <2>1, <2>3 DEF StaleTasksHarmless, NotDueBeforeSuccess
    <3>1. g # h /\ tasks[g].phase = "Forex" /\ tasks[g].timestamp \in Nat
      BY <2>3, MomentsPositive DEF Past
    <3>2. \/ listings[e].last_success_secs <= tasks[g].timestamp
          \/ nextListingRun[e] > tasks[g].timestamp
      BY <3>1 DEF StaleTasksHarmless, NotDueBeforeSuccess
    <3> QED  BY <1>t, <2>1, <2>8, <3>1, <3>2 DEF ListingTypeOK, ExchangeListing,
                LISTING_RETRY_INTERVAL, ONE_HOUR_SECONDS
  <2> QED  BY <2>1, <2>3, <2>5, <2>6, <2>7, <2>9, <2>10, <2>11
<1> QED  BY <1>1, <1>2 DEF UpdateListings

(* The answers to a refresh of the listings. *)
LEMMA ListingResponseStep ==
    ASSUME IInv, NEW h \in Heartbeats, ListingResponse(h)
    PROVE  IInv'
<1> USE DEF IInv, ListingInv
<1> DEFINE t == tasks[h].timestamp
           asked == tasks[h].exchanges
<1> DEFINE Stored(answered, answers) ==
        /\ listings' = [e \in Exchanges |->
             IF e \in answered THEN Accept(listings[e], answers[e], t) ELSE listings[e]]
        /\ nextListingRun' = [e \in Exchanges |->
             IF e \in {a \in answered : Accepts(listings[a], answers[a])}
             THEN NextDailyRefresh(t) ELSE nextListingRun[e]]
<1>a. PICK answered \in SUBSET asked :
        \E answers \in [answered -> ListingAnswers] : Stored(answered, answers)
  BY DEF ListingResponse
<1>1. PICK answers \in [answered -> ListingAnswers] : Stored(answered, answers)
  BY <1>a
<1>2. /\ tasks[h].phase = "Listings" /\ isUpdatingListings' = FALSE
      /\ tasks' = [tasks EXCEPT ![h] = NoTask] /\ lastAttempt' = lastAttempt
      /\ UNCHANGED <<now, isUpdatingForex, traps>>
  BY DEF ListingResponse, forexVars
<1>3. tasks' \in [Heartbeats -> Task] /\ tasks'[h] = NoTask
      /\ \A g \in Heartbeats \ {h} : tasks'[g] = tasks[g]
  BY <1>2 DEF HeartbeatTypeOK, NoTask, Task
<1>4. t \in Moments /\ t \in Nat /\ t > 0 /\ t <= now /\ now \in Nat
  BY <1>2, MomentsPositive DEF Past, HeartbeatTypeOK
<1>5. At("Listings") = {h} /\ At("Listings")' = {} /\ At("Forex")' = At("Forex")
  BY <1>2, <1>3 DEF FlagsHeld, FlagHeld, At, NoTask
<1>6. HeartbeatTypeOK' /\ FlagsHeld'
  BY <1>2, <1>3, <1>5 DEF HeartbeatTypeOK, FlagsHeld, FlagHeld
<1>7. ASSUME NEW e \in Exchanges
      PROVE  \/ listings'[e] = listings[e] /\ nextListingRun'[e] = nextListingRun[e]
             \/ /\ e \in asked /\ listings'[e] \in ExchangeListing
                /\ listings'[e].last_success_secs = t
                /\ nextListingRun'[e] = NextDailyRefresh(t)
  <2>1. CASE e \in answered
    <3>1. answers[e] \in ListedPairs /\ listings[e] \in ExchangeListing
      BY <2>1, PeriodicAssumption DEF ListingTypeOK
    <3> QED  BY <1>1, <1>4, <2>1, <3>1, AcceptSound
  <2>2. CASE e \notin answered
    BY <1>1, <2>2
  <2> QED  BY <2>1, <2>2
<1>8. NextDailyRefresh(t) \in Nat /\ NextDailyRefresh(t) > t
  BY <1>4, NextDay
<1>9. ListingTypeOK'
  BY <1>1, <1>2, <1>7, <1>8 DEF ListingTypeOK
<1>10. Past'
  BY <1>2, <1>3, <1>4, <1>7 DEF Past, NoTask
<1>11. AskedTracked'
  BY <1>3, <1>5 DEF AskedTracked, At
<1>12. Scheduled'
  BY <1>2, <1>4, <1>7 DEF Scheduled, AskedTracked
<1>13. StaleTasksHarmless'
  <2> SUFFICES ASSUME NEW g \in Heartbeats, tasks'[g].phase = "Forex",
                      NEW e \in Exchanges
               PROVE  \/ listings'[e].last_success_secs <= tasks[g].timestamp
                      \/ nextListingRun'[e] > tasks[g].timestamp
    BY <1>3 DEF StaleTasksHarmless, NotDueBeforeSuccess, NoTask
  <2>1. tasks[g].phase = "Forex" /\ tasks[g].timestamp \in Nat
    BY <1>3, MomentsPositive DEF Past, NoTask
  <2> QED  BY <1>4, <1>7, <1>8, <2>1 DEF StaleTasksHarmless, NotDueBeforeSuccess
<1> QED  BY <1>6, <1>9, <1>10, <1>11, <1>12, <1>13

(* A heartbeat that goes on to the listings at once. *)
LEMMA HeartbeatWithoutForexStep ==
    ASSUME IInv, NEW h \in Heartbeats, HeartbeatWithoutForex(h)
    PROVE  IInv'
<1>1. /\ tasks[h].phase = "None" /\ UpdateListings(h, now)
      /\ now' = now /\ traps' = traps
  BY DEF HeartbeatWithoutForex
<1>2. now \in Moments /\ now \in Nat
  BY MomentsPositive DEF IInv, HeartbeatTypeOK
<1>3. NotDueBeforeSuccess(now)
  BY DEF IInv, ListingInv, Past, NotDueBeforeSuccess
<1>4. /\ tasks' \in [Heartbeats -> Task] /\ isUpdatingListings' \in BOOLEAN
      /\ FlagHeld(isUpdatingListings, "Listings")'
      /\ \A g \in Heartbeats : tasks'[g].phase = "Forex" =>
           g # h /\ tasks'[g] = tasks[g]
      /\ ListingInv'
  BY <1>1, <1>2, <1>3, UpdateListingsStep
<1>5. \A g \in Heartbeats \ {h} : tasks'[g] = tasks[g]
  BY <1>1 DEF UpdateListings, SkipListings, FetchListings, IInv, HeartbeatTypeOK
<1>6. At("Forex")' = At("Forex")
  BY <1>1, <1>4, <1>5 DEF At
<1>7. isUpdatingForex' = isUpdatingForex
  BY DEF HeartbeatWithoutForex, IsForexSkipped, StoreRates, forexVars, IInv,
     HeartbeatTypeOK
<1> QED  BY <1>1, <1>4, <1>6, <1>7 DEF IInv, HeartbeatTypeOK, FlagsHeld, FlagHeld

(* A heartbeat that waits for forex sources first. *)
LEMMA HeartbeatWithForexStep ==
    ASSUME IInv, NEW h \in Heartbeats, HeartbeatWithForex(h)
    PROVE  IInv'
<1> USE DEF IInv, ListingInv
<1>1. /\ tasks[h].phase = "None" /\ ~isUpdatingForex /\ isUpdatingForex' = TRUE
      /\ tasks' = [tasks EXCEPT ![h] =
           [phase |-> "Forex", timestamp |-> now,
            sources |-> SourcesToCall(now), exchanges |-> {}]]
      /\ UNCHANGED <<now, listingVars, traps>>
  BY DEF HeartbeatWithForex, IsForexSkipped, HeartbeatTypeOK
<1>2. /\ tasks' \in [Heartbeats -> Task]
      /\ tasks'[h].phase = "Forex" /\ tasks'[h].timestamp = now
      /\ \A g \in Heartbeats \ {h} : tasks'[g] = tasks[g]
  BY <1>1 DEF HeartbeatTypeOK, Task, SourcesToCall
<1>3. now \in Nat
  BY MomentsPositive DEF HeartbeatTypeOK
<1>4. At("Forex") = {} /\ At("Forex")' = {h} /\ At("Listings")' = At("Listings")
  BY <1>1, <1>2 DEF FlagsHeld, FlagHeld, At
<1>5. HeartbeatTypeOK' /\ FlagsHeld'
  BY <1>1, <1>2, <1>4 DEF HeartbeatTypeOK, FlagsHeld, FlagHeld, listingVars
<1>6. ListingTypeOK' /\ Scheduled'
  BY <1>1 DEF ListingTypeOK, Scheduled, listingVars
<1>7. Past' /\ AskedTracked' /\ StaleTasksHarmless'
  BY <1>1, <1>2, <1>3 DEF Past, AskedTracked, StaleTasksHarmless,
     NotDueBeforeSuccess, listingVars, HeartbeatTypeOK
<1> QED  BY <1>5, <1>6, <1>7

(* The answers of the forex sources. *)
LEMMA ForexResponseStep ==
    ASSUME IInv, NEW h \in Heartbeats, ForexResponse(h)
    PROVE  IInv'
<1> DEFINE t == tasks[h].timestamp
<1>1. /\ tasks[h].phase = "Forex" /\ UpdateListings(h, t)
      /\ isUpdatingForex' = FALSE /\ now' = now /\ traps' = traps
  BY DEF ForexResponse, StoreRates
<1>2. t \in Moments /\ t <= now /\ NotDueBeforeSuccess(t)
  BY <1>1 DEF IInv, ListingInv, Past, StaleTasksHarmless
<1>3. /\ tasks' \in [Heartbeats -> Task] /\ isUpdatingListings' \in BOOLEAN
      /\ FlagHeld(isUpdatingListings, "Listings")'
      /\ \A g \in Heartbeats : tasks'[g].phase = "Forex" =>
           g # h /\ tasks'[g] = tasks[g]
      /\ ListingInv'
  BY <1>1, <1>2, UpdateListingsStep
<1>4. At("Forex")' = {}
  BY <1>1, <1>3 DEF At, IInv, FlagsHeld, FlagHeld
<1> QED  BY <1>1, <1>3, <1>4 DEF IInv, HeartbeatTypeOK, FlagsHeld, FlagHeld

(* A trap after an await. *)
LEMMA TrapStep ==
    ASSUME IInv, NEW h \in Heartbeats, Trap(h)
    PROVE  IInv'
<1> USE DEF IInv, ListingInv
<1>1. /\ tasks[h].phase # "None" /\ tasks' = [tasks EXCEPT ![h] = NoTask]
      /\ isUpdatingForex' = (isUpdatingForex /\ tasks[h].phase # "Forex")
      /\ isUpdatingListings' = (isUpdatingListings /\ tasks[h].phase # "Listings")
      /\ traps < MaxTraps /\ traps' = traps + 1
      /\ UNCHANGED <<now, nextListingRun, listings, lastAttempt>>
  BY DEF Trap
<1>2. /\ tasks' \in [Heartbeats -> Task] /\ tasks'[h] = NoTask
      /\ \A g \in Heartbeats \ {h} : tasks'[g] = tasks[g]
  BY <1>1 DEF HeartbeatTypeOK, NoTask, Task
<1>3. traps' \in 0 .. MaxTraps
  BY <1>1, PeriodicAssumption DEF HeartbeatTypeOK
<1>4. HeartbeatTypeOK'
  BY <1>1, <1>2, <1>3 DEF HeartbeatTypeOK
<1>5. At("Forex")' = At("Forex") \ {h} /\ At("Listings")' = At("Listings") \ {h}
  BY <1>1, <1>2 DEF At, NoTask
<1>6. FlagsHeld'
  <2>1. h \in At(tasks[h].phase) /\ \A phase : h \in At(phase) <=> phase = tasks[h].phase
    BY DEF At
  <2>2. FlagHeld(isUpdatingForex, "Forex")'
    <3>1. CASE tasks[h].phase = "Forex"
      <4>1. At("Forex")' = {} /\ ~isUpdatingForex'
        BY <1>1, <1>5, <2>1, <3>1 DEF FlagsHeld, FlagHeld
      <4> QED  BY <4>1 DEF FlagHeld
    <3>2. CASE tasks[h].phase # "Forex"
      <4>1. At("Forex")' = At("Forex") /\ isUpdatingForex' = isUpdatingForex
        BY <1>1, <1>5, <2>1, <3>2 DEF HeartbeatTypeOK
      <4> QED  BY <4>1 DEF FlagsHeld, FlagHeld
    <3> QED  BY <3>1, <3>2
  <2>3. FlagHeld(isUpdatingListings, "Listings")'
    <3>1. CASE tasks[h].phase = "Listings"
      <4>1. At("Listings")' = {} /\ ~isUpdatingListings'
        BY <1>1, <1>5, <2>1, <3>1 DEF FlagsHeld, FlagHeld
      <4> QED  BY <4>1 DEF FlagHeld
    <3>2. CASE tasks[h].phase # "Listings"
      <4>1. At("Listings")' = At("Listings") /\ isUpdatingListings' = isUpdatingListings
        BY <1>1, <1>5, <2>1, <3>2 DEF HeartbeatTypeOK
      <4> QED  BY <4>1 DEF FlagsHeld, FlagHeld
    <3> QED  BY <3>1, <3>2
  <2> QED  BY <2>2, <2>3 DEF FlagsHeld
<1>7. ListingTypeOK' /\ Scheduled'
  BY <1>1 DEF ListingTypeOK, Scheduled
<1>8. Past' /\ AskedTracked' /\ StaleTasksHarmless'
  BY <1>1, <1>2 DEF Past, AskedTracked, StaleTasksHarmless, NotDueBeforeSuccess,
     NoTask
<1> QED  BY <1>4, <1>6, <1>7, <1>8

LEMMA UpgradeStep == ASSUME IInv, Upgrade PROVE IInv'
<1> USE DEF IInv, ListingInv, Upgrade
<1>1. HeartbeatTypeOK' /\ FlagsHeld'
  BY DEF HeartbeatTypeOK, FlagsHeld, FlagHeld, At
<1>2. ListingTypeOK' /\ Scheduled'
  BY DEF ListingTypeOK, Scheduled
<1>3. now \in Nat
  BY MomentsPositive DEF HeartbeatTypeOK
<1>4. Past' /\ AskedTracked' /\ StaleTasksHarmless'
  BY <1>3 DEF Past, AskedTracked, StaleTasksHarmless
<1> QED  BY <1>1, <1>2, <1>4

LEMMA TickStep == ASSUME IInv, Tick PROVE IInv'
<1> USE DEF IInv, ListingInv
<1>1. /\ now' \in Moments /\ now' > now
      /\ UNCHANGED <<tasks, forexVars, listingVars, traps>>
  BY DEF Tick
<1>2. now \in Nat /\ now' \in Nat
  BY <1>1, MomentsPositive DEF HeartbeatTypeOK
<1>3. HeartbeatTypeOK' /\ FlagsHeld' /\ ListingTypeOK' /\ Scheduled'
  BY <1>1 DEF HeartbeatTypeOK, FlagsHeld, FlagHeld, At, ListingTypeOK, Scheduled,
     forexVars, listingVars
<1>4. AskedTracked' /\ StaleTasksHarmless'
  BY <1>1 DEF AskedTracked, StaleTasksHarmless, NotDueBeforeSuccess, listingVars
<1>5. Past'
  <2>1. \A h \in Heartbeats : tasks[h].phase # "None" => tasks[h].timestamp \in Nat
    BY MomentsPositive DEF Past
  <2>2. \A e \in Exchanges :
          lastAttempt[e] \in Nat /\ listings[e].last_success_secs \in Nat
    BY MomentsPositive DEF ListingTypeOK, ExchangeListing
  <2> QED  BY <1>1, <1>2, <2>1, <2>2 DEF Past, listingVars
<1> QED  BY <1>3, <1>4, <1>5

(* The invariant holds at first and is kept by every step. *)
THEOREM Invariance == Spec => []IInv
<1>1. Init => IInv
  <2> SUFFICES ASSUME Init PROVE IInv
    OBVIOUS
  <2>1. now \in Nat /\ MaxTraps \in Nat
    BY MomentsPositive, PeriodicAssumption DEF Init
  <2>2. HeartbeatTypeOK /\ FlagsHeld
    <3>1. NoTask \in Task
      BY DEF NoTask, Task
    <3>2. now \in Moments /\ tasks \in [Heartbeats -> Task] /\ traps \in 0 .. MaxTraps
      BY <2>1, <3>1 DEF Init
    <3>4. isUpdatingForex \in BOOLEAN /\ isUpdatingListings \in BOOLEAN
      BY Zenon DEF Init
    <3>3. At("Forex") = {} /\ At("Listings") = {}
      BY DEF Init, At, NoTask
    <3> QED  BY <3>2, <3>3, <3>4 DEF Init, HeartbeatTypeOK, FlagsHeld, FlagHeld
  <2>3. ListingTypeOK /\ Scheduled
    BY DEF Init, ListingTypeOK, Scheduled, NoListing, ExchangeListing
  <2>4. Past /\ AskedTracked /\ StaleTasksHarmless
    BY <2>1 DEF Init, Past, AskedTracked, StaleTasksHarmless, NoTask, NoListing
  <2> QED  BY <2>2, <2>3, <2>4 DEF IInv, ListingInv
<1>2. IInv /\ [Next]_vars => IInv'
  <2> SUFFICES ASSUME IInv, [Next]_vars PROVE IInv'
    OBVIOUS
  <2>1. CASE UNCHANGED vars
    BY <2>1 DEF vars, forexVars, listingVars, IInv, HeartbeatTypeOK, FlagsHeld,
       FlagHeld, At, ListingInv, ListingTypeOK, Past, AskedTracked, Scheduled,
       StaleTasksHarmless, NotDueBeforeSuccess
  <2>2. CASE Next
    BY <2>2, HeartbeatWithoutForexStep, HeartbeatWithForexStep, ForexResponseStep,
       ListingResponseStep, TrapStep, UpgradeStep, TickStep DEF Next, Heartbeat
  <2> QED  BY <2>1, <2>2
<1> QED  BY <1>1, <1>2, PTL DEF Spec

(* A refresh runs at most once at a time and its flag is never left up.    *)
THEOREM FlagsNeverLeak == Spec => []FlagsHeld
<1>1. IInv => FlagsHeld
  BY DEF IInv
<1> QED  BY <1>1, Invariance, PTL

(* An exchange without a listing of today is asked again within the hour.  *)
THEOREM StaleListingsRetried == Spec => []StaleListingSoonRetried
<1>1. IInv => StaleListingSoonRetried
  <2> SUFFICES ASSUME IInv, NEW e \in Exchanges
               PROVE  \/ nextListingRun[e] <= now + LISTING_RETRY_INTERVAL
                      \/ /\ listings[e] # NoListing
                         /\ StartOfDay(now) <= listings[e].last_success_secs
    BY DEF StaleListingSoonRetried
  <2> USE DEF IInv, ListingInv
  <2>1. now \in Nat /\ lastAttempt[e] \in Nat /\ lastAttempt[e] <= now
    BY MomentsPositive DEF HeartbeatTypeOK, ListingTypeOK, Past
  <2>2. CASE nextListingRun[e] = 0
    BY <2>1, <2>2 DEF LISTING_RETRY_INTERVAL, ONE_HOUR_SECONDS
  <2>3. CASE nextListingRun[e] = lastAttempt[e] + LISTING_RETRY_INTERVAL
    BY <2>1, <2>3 DEF LISTING_RETRY_INTERVAL, ONE_HOUR_SECONDS
  <2>4. CASE /\ lastAttempt[e] \in Moments
             /\ listings[e].last_success_secs = lastAttempt[e]
             /\ nextListingRun[e] = NextDailyRefresh(lastAttempt[e])
    <3>1. listings[e] # NoListing
      BY <2>4, MomentsPositive DEF NoListing
    <3>2. StartOfDay(now) \in Int
      BY <2>1 DEF StartOfDay, ONE_DAY_SECONDS, ONE_HOUR_SECONDS
    <3>3. CASE StartOfDay(now) <= lastAttempt[e]
      BY <2>4, <3>1, <3>3
    <3>4. CASE StartOfDay(now) > lastAttempt[e]
      BY <2>1, <2>4, <3>4, NextDay DEF LISTING_RETRY_INTERVAL, ONE_HOUR_SECONDS
    <3> QED  BY <2>1, <3>2, <3>3, <3>4
  <2> QED  BY <2>2, <2>3, <2>4 DEF Scheduled
<1> QED  BY <1>1, Invariance, PTL

-----------------------------------------------------------------------------

(* What a step may do to the listing of an exchange: replace it by an      *)
(* answer that is accepted, to a heartbeat that asked for it.              *)
LEMMA ListingReplaced ==
    ASSUME IInv, Next, NEW e \in Exchanges, listings'[e] # listings[e]
    PROVE  /\ now' = now
           /\ \E h \in Heartbeats, fetched \in ListedPairs :
                /\ tasks[h].phase = "Listings" /\ e \in tasks[h].exchanges
                /\ Accepts(listings[e], fetched)
                /\ listings'[e] = Accept(listings[e], fetched, tasks[h].timestamp)
<1>1. listings' # listings
  OBVIOUS
<1>2. PICK h \in Heartbeats : ListingResponse(h)
  <2>1. ASSUME NEW h \in Heartbeats, NEW t, UpdateListings(h, t) PROVE FALSE
    BY <1>1, <2>1 DEF UpdateListings, SkipListings, FetchListings, listingVars
  <2>2. ASSUME NEW h \in Heartbeats,
               Heartbeat(h) \/ ForexResponse(h) \/ Trap(h) \/ Upgrade \/ Tick
        PROVE  FALSE
    BY <1>1, <2>1, <2>2 DEF Heartbeat, HeartbeatWithoutForex, HeartbeatWithForex,
       ForexResponse, Trap, Upgrade, Tick, listingVars
  <2> QED  BY <1>1, <2>2 DEF Next, Upgrade, Tick, listingVars
<1>3. PICK answered \in SUBSET tasks[h].exchanges :
        \E answers \in [answered -> ListingAnswers] :
          listings' = [x \in Exchanges |->
             IF x \in answered
             THEN Accept(listings[x], answers[x], tasks[h].timestamp)
             ELSE listings[x]]
  BY <1>2 DEF ListingResponse
<1>4. PICK answers \in [answered -> ListingAnswers] :
        listings' = [x \in Exchanges |->
           IF x \in answered
           THEN Accept(listings[x], answers[x], tasks[h].timestamp)
           ELSE listings[x]]
  BY <1>3
<1>5. e \in answered /\ answers[e] \in ListedPairs
      /\ listings'[e] = Accept(listings[e], answers[e], tasks[h].timestamp)
  BY <1>4, PeriodicAssumption
<1>6. Accepts(listings[e], answers[e])
  BY <1>5 DEF Accept
<1>7. tasks[h].phase = "Listings" /\ now' = now
  BY <1>2 DEF ListingResponse
<1> QED  BY <1>3, <1>5, <1>6, <1>7

(* The listing that replaces another is well typed, sound, and not older.  *)
LEMMA ReplacementSound ==
    ASSUME IInv, Next, NEW e \in Exchanges, listings'[e] # listings[e]
    PROVE  /\ listings'[e].last_success_secs >= listings[e].last_success_secs
           /\ listings'[e].total_markets >= MIN_TOTAL_MARKETS
           /\ 2 * listings'[e].total_markets >= listings[e].total_markets
<1>1. PICK h \in Heartbeats, fetched \in ListedPairs :
        /\ tasks[h].phase = "Listings" /\ e \in tasks[h].exchanges
        /\ Accepts(listings[e], fetched)
        /\ listings'[e] = Accept(listings[e], fetched, tasks[h].timestamp)
  BY ListingReplaced
<1>2. listings[e] \in ExchangeListing /\ tasks[h].timestamp \in Nat
      /\ listings[e].last_success_secs <= tasks[h].timestamp
  BY <1>1, MomentsPositive DEF IInv, ListingInv, ListingTypeOK, Past, AskedTracked
<1>3. /\ Accept(listings[e], fetched, tasks[h].timestamp).last_success_secs
            = tasks[h].timestamp
      /\ Accept(listings[e], fetched, tasks[h].timestamp).total_markets
            >= MIN_TOTAL_MARKETS
      /\ 2 * Accept(listings[e], fetched, tasks[h].timestamp).total_markets
            >= listings[e].total_markets
  BY <1>1, <1>2, AcceptSound
<1> QED  BY <1>1, <1>2, <1>3

(* The stored listing of an exchange is never replaced by an older one.    *)
THEOREM ListingsKeptInOrder == Spec => ListingsNeverGoBack
<1>1. IInv /\ [Next]_vars =>
        [\A e \in Exchanges :
           listings'[e].last_success_secs >= listings[e].last_success_secs]_vars
  <2> SUFFICES ASSUME IInv, Next, NEW e \in Exchanges
               PROVE  listings'[e].last_success_secs >= listings[e].last_success_secs
    OBVIOUS
  <2>1. listings[e].last_success_secs \in Nat
    BY DEF IInv, ListingInv, ListingTypeOK, ExchangeListing
  <2>2. CASE listings'[e] = listings[e]
    BY <2>1, <2>2
  <2>3. CASE listings'[e] # listings[e]
    BY <2>3, ReplacementSound
  <2> QED  BY <2>2, <2>3
<1> QED  BY <1>1, Invariance, PTL DEF Spec, ListingsNeverGoBack

(* Only a sound listing stops the canister from asking an exchange.        *)
THEOREM OnlySoundListingsSilence == Spec => SilencedOnlyBySoundListing
<1>1. IInv /\ [Next]_vars =>
        [\A e \in Exchanges, base \in Bases :
           ShouldQuery(listings[e], base, now) /\ ~ShouldQuery(listings'[e], base, now')
           => /\ listings'[e].total_markets >= MIN_TOTAL_MARKETS
              /\ 2 * listings'[e].total_markets >= listings[e].total_markets]_vars
  <2> SUFFICES ASSUME IInv, Next, NEW e \in Exchanges, NEW base \in Bases,
                      ShouldQuery(listings[e], base, now),
                      ~ShouldQuery(listings'[e], base, now')
               PROVE  /\ listings'[e].total_markets >= MIN_TOTAL_MARKETS
                      /\ 2 * listings'[e].total_markets >= listings[e].total_markets
    OBVIOUS
  <2>1. now \in Nat /\ listings[e].last_success_secs \in Nat
    BY MomentsPositive DEF IInv, HeartbeatTypeOK, ListingInv, ListingTypeOK,
       ExchangeListing
  <2>2. now' \in Nat /\ now' >= now
    <3>1. CASE Tick
      BY <2>1, <3>1, MomentsPositive DEF Tick
    <3>2. CASE Upgrade \/ \E h \in Heartbeats :
                 Heartbeat(h) \/ ForexResponse(h) \/ ListingResponse(h) \/ Trap(h)
      <4>1. now' = now
        BY <3>2 DEF Upgrade, Heartbeat, HeartbeatWithoutForex, HeartbeatWithForex,
           ForexResponse, ListingResponse, Trap
      <4> QED  BY <2>1, <4>1
    <3> QED  BY <3>1, <3>2 DEF Next
  <2>3. listings'[e] # listings[e]
    BY <2>1, <2>2 DEF ShouldQuery, MAX_LISTING_STALENESS_SECS, ONE_DAY_SECONDS,
       ONE_HOUR_SECONDS
  <2> QED  BY <2>3, ReplacementSound
<1> QED  BY <1>1, Invariance, PTL DEF Spec, SilencedOnlyBySoundListing

(* An exchange is only asked when its next attempt is due.                 *)
LEMMA AskedWhenDue ==
    ASSUME IInv, Next, NEW e \in Exchanges,
           lastAttempt'[e] # lastAttempt[e], lastAttempt'[e] # 0
    PROVE  /\ lastAttempt'[e] \in Moments
           /\ nextListingRun[e] <= lastAttempt'[e]
<1>1. lastAttempt' # lastAttempt
  OBVIOUS
<1>2. ASSUME NEW h \in Heartbeats, NEW t \in Moments, UpdateListings(h, t)
      PROVE  lastAttempt'[e] \in Moments /\ nextListingRun[e] <= lastAttempt'[e]
  <2>1. FetchListings(h, t)
    BY <1>1, <1>2 DEF UpdateListings, SkipListings, listingVars
  <2>2. lastAttempt' = [x \in Exchanges |->
          IF x \in DueExchanges(t) THEN t ELSE lastAttempt[x]]
    BY <2>1 DEF FetchListings
  <2>3. e \in DueExchanges(t) /\ lastAttempt'[e] = t
    BY <2>2
  <2> QED  BY <1>2, <2>3 DEF DueExchanges
<1>3. PICK h \in Heartbeats : HeartbeatWithoutForex(h) \/ ForexResponse(h)
  <2>1. ASSUME Upgrade PROVE FALSE
    BY <2>1 DEF Upgrade
  <2>2. ASSUME NEW h \in Heartbeats,
               Tick \/ HeartbeatWithForex(h) \/ ListingResponse(h) \/ Trap(h)
        PROVE  FALSE
    BY <1>1, <2>2 DEF Tick, HeartbeatWithForex, ListingResponse, Trap, listingVars
  <2>3. ~Tick
    BY <1>1 DEF Tick, listingVars
  <2> QED  BY <2>1, <2>2, <2>3 DEF Next, Heartbeat
<1>4. now \in Moments /\ (tasks[h].phase = "Forex" => tasks[h].timestamp \in Moments)
  BY DEF IInv, HeartbeatTypeOK, ListingInv, Past
<1> QED  BY <1>2, <1>3, <1>4 DEF HeartbeatWithoutForex, ForexResponse

(* A failed refresh is not repeated within the hour.                       *)
THEOREM RetriesKeepTheirDistance == Spec => RetriesSpaced
<1>1. IInv /\ [Next]_vars =>
        [\A e \in Exchanges :
          lastAttempt[e] # 0 /\ lastAttempt'[e] # 0 /\ lastAttempt'[e] # lastAttempt[e]
          => \/ lastAttempt'[e] >= lastAttempt[e] + LISTING_RETRY_INTERVAL
             \/ /\ listings[e].last_success_secs = lastAttempt[e]
                /\ StartOfDay(lastAttempt'[e]) > lastAttempt[e]]_vars
  <2> SUFFICES ASSUME IInv, Next, NEW e \in Exchanges, lastAttempt[e] # 0,
                      lastAttempt'[e] # 0, lastAttempt'[e] # lastAttempt[e]
               PROVE  \/ lastAttempt'[e] >= lastAttempt[e] + LISTING_RETRY_INTERVAL
                      \/ /\ listings[e].last_success_secs = lastAttempt[e]
                         /\ StartOfDay(lastAttempt'[e]) > lastAttempt[e]
    OBVIOUS
  <2>1. lastAttempt[e] \in Nat /\ lastAttempt'[e] \in Nat
        /\ nextListingRun[e] <= lastAttempt'[e]
    BY AskedWhenDue, MomentsPositive DEF IInv, ListingInv, ListingTypeOK
  <2>2. \/ nextListingRun[e] = lastAttempt[e] + LISTING_RETRY_INTERVAL
        \/ /\ listings[e].last_success_secs = lastAttempt[e]
           /\ nextListingRun[e] = NextDailyRefresh(lastAttempt[e])
    BY DEF IInv, ListingInv, Scheduled
  <2> QED  BY <2>1, <2>2, NextDay
<1> QED  BY <1>1, Invariance, PTL DEF Spec, RetriesSpaced

=============================================================================
