----------------------- MODULE PeriodicTasksProperties -----------------------
(***************************************************************************)
(* What the background tasks promise while heartbeats overlap, callbacks   *)
(* trap and the canister is upgraded.                                      *)
(***************************************************************************)
EXTENDS PeriodicTasks

DayRates ==
    [timestamp : Days, sources : SUBSET AvailableSources, rates : [Symbols -> Nat]]

HeartbeatTypeOK ==
    /\ now \in Moments
    /\ tasks \in [Heartbeats -> Task]
    /\ isUpdatingForex \in BOOLEAN /\ isUpdatingListings \in BOOLEAN
    /\ traps \in 0 .. MaxTraps

ListingTypeOK ==
    /\ nextListingRun \in [Exchanges -> Nat]
    /\ lastAttempt \in [Exchanges -> {0} \cup Moments]
    /\ listings \in [Exchanges -> ExchangeListing]

ForexTypeOK ==
    /\ nextForexRun \in Nat /\ lastForexRun \in {0} \cup Moments
    /\ collector \in Seq(DayRates) /\ Len(collector) <= MAX_COLLECTION_DAYS
    /\ \A i, j \in DOMAIN collector :
         i < j => collector[i].timestamp < collector[j].timestamp
    /\ store \in [Days -> [Symbols -> Nat]]

(* Every variable stays in its type: the collector keeps at most           *)
(* MAX_COLLECTION_DAYS days, in ascending order.                           *)
TypeOK == HeartbeatTypeOK /\ ListingTypeOK /\ ForexTypeOK

At(phase) == {h \in Heartbeats : tasks[h].phase = phase}

(* A refresh runs at most once at a time, and its flag is up exactly while *)
(* it runs, whether it succeeds or traps (periodic.rs, the guards). A flag *)
(* left up would end the refreshes until the next upgrade.                 *)
FlagHeld(isUpdating, phase) ==
    /\ \A g, h \in At(phase) : g = h
    /\ isUpdating <=> At(phase) # {}

FlagsHeld ==
    FlagHeld(isUpdatingForex, "Forex") /\ FlagHeld(isUpdatingListings, "Listings")

(* An exchange that was asked for its listing is asked again an hour       *)
(* later at the earliest, by the time of the heartbeats, unless it         *)
(* answered and a new day has begun: not earlier after a trap, nor by a    *)
(* heartbeat that waited for forex sources while others came               *)
(* (update_listing_store, the attempt set before the await).               *)
RetriesSpaced ==
    [][\A e \in Exchanges :
        lastAttempt[e] # 0 /\ lastAttempt'[e] # 0 /\ lastAttempt'[e] # lastAttempt[e]
        => \/ lastAttempt'[e] >= lastAttempt[e] + LISTING_RETRY_INTERVAL
           \/ /\ listings[e].last_success_secs = lastAttempt[e]
              /\ StartOfDay(lastAttempt'[e]) > lastAttempt[e]]_vars

(* The stored listing of an exchange is never replaced by one that was     *)
(* asked for earlier, though heartbeats carry the time at which they began *)
(* across the wait for the forex sources (run_tasks).                      *)
ListingsNeverGoBack ==
    [][\A e \in Exchanges :
        listings'[e].last_success_secs >= listings[e].last_success_secs]_vars

(* An exchange without an accepted listing of today is asked again within  *)
(* the hour; no failure, rejection, trap or stale timestamp costs it a day *)
(* (update_listing_store).                                                 *)
StaleListingSoonRetried ==
    \A e \in Exchanges :
        \/ nextListingRun[e] <= now + LISTING_RETRY_INTERVAL
        \/ /\ listings[e] # NoListing
           /\ StartOfDay(now) <= listings[e].last_success_secs

(* An exchange that was asked for an asset stops being asked only because  *)
(* of a listing with enough markets, at least half of those known before;  *)
(* neither time nor an upgrade silences it (listings.rs, accept and        *)
(* should_query).                                                          *)
SilencedOnlyBySoundListing ==
    [][\A e \in Exchanges, base \in Bases :
        ShouldQuery(listings[e], base, now) /\ ~ShouldQuery(listings'[e], base, now')
        => /\ listings'[e].total_markets >= MIN_TOTAL_MARKETS
           /\ 2 * listings'[e].total_markets >= listings[e].total_markets]_vars

(* An exchange whose refresh is due is asked, whatever became of the       *)
(* refreshes before.                                                       *)
DueExchangesAsked ==
    \A e \in Exchanges : nextListingRun[e] <= now ~> nextListingRun[e] > now

-----------------------------------------------------------------------------

(* No rate claims more sources than are called: overlapping heartbeats,    *)
(* retries and upgrades never count a source twice (check_forex_status,    *)
(* ForexRateStore::put).  XDR is left out: a source that gives it as SDR   *)
(* as well counts as two (forex.rs, the test collector_sdr_xdr).           *)
SourcesCountedOnce ==
    \A day \in Days, symbol \in Symbols \ {"XDR"} :
        store[day][symbol] <= Cardinality(AvailableSources)

(* All that is collected for a day is in the store at once                 *)
(* (update_forex_store, timestamps_to_update).                             *)
StoreKeepsUp ==
    \A day \in CollectedDays(collector), symbol \in Symbols :
        store[day][symbol] >= RatesMap(collector, day)[symbol]

(* A lookup that finds a day finds the currencies of the CXDR basket on    *)
(* it: the rate of CXDR and theirs are replaced one by one and over        *)
(* several upgrades, but CXDR never claims sources they lack.              *)
BasketFound ==
    \A requested \in Moments, currency \in CxdrBasket :
        Get(store, requested, now, currency, "USD").result
            \in {"Ok", "ForexInvalidTimestamp"}

(* The day whose rates answer a request never goes back as time passes,    *)
(* not even when an upgrade has emptied the collector and sources fail     *)
(* afterwards (ForexRateStore::put, post_upgrade).                         *)
ForexDayNeverGoesBack ==
    [][\A requested \in Moments :
        LET dayOf(s, t) == Get(s, requested, t, "EUR", "USD").day
        IN  \/ dayOf(store', now') >= dayOf(store, now)
            \/ dayOf(store, now) + MAX_DAYS_TO_GO_BACK * ONE_DAY_SECONDS
                    < StartOfDay(requested)]_vars

(* The forex refresh completes at most once in each period of six hours,   *)
(* unless an upgrade comes between (update_forex_store, NotReady and       *)
(* AlreadyRunning).                                                        *)
OneForexRunPerPeriod ==
    [][lastForexRun # 0 /\ lastForexRun' \notin {0, lastForexRun}
        => lastForexRun' \div SIX_HOURS > lastForexRun \div SIX_HOURS]_vars

(* A forex refresh that is due comes to an end and is scheduled anew, also *)
(* after one that trapped.                                                 *)
DueForexRefreshed == nextForexRun <= now ~> nextForexRun > now

-----------------------------------------------------------------------------

(* forex.rs:317: "We avoid fetching rates for today if today is not over   *)
(* for any of the sources we use."                                         *)
OnlyFinishedDaysUsed ==
    \A requested \in Moments :
        LET used == Get(store, requested, now, "EUR", "USD").day
        IN  used = StartOfDay(requested) =>
              \A source \in Sources :
                now + UtcOffset[source] * ONE_HOUR_SECONDS >= used + ONE_DAY_SECONDS

=============================================================================
