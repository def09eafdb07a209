# A TLA+ model of the exchange rate canister

The exchange rate canister (XRC) runs on the Internet Computer. A caller asks for
the rate of two assets at a minute; the canister collects prices from crypto
exchanges with HTTP outcalls and rates of fiat currencies from central banks,
takes medians and composes the answer. Paths below are relative to the repository
(`src/xrc/src/api.rs` and so on).

A canister processes one message at a time. A call is cut at its `await`s: between
two of them any other message may run, so what a handler checked before an `await`
may no longer hold after it. State changes made between two awaits are undone when
that stretch of code traps; those made before stay.

## 1. Inventory

| Component | State | Operations | Talks to |
|---|---|---|---|
| request handling, `api.rs` | locals of suspended calls | `get_exchange_rate`: three handlers (crypto-crypto, crypto-fiat and its inverse, fiat-fiat) | cache, in-flight set, counter, fees, forex store, listings, exchanges |
| cache, `cache.rs` | LRU map (symbol, minute) -> rate | `insert`, `get` | request handling |
| in-flight set, `inflight.rs` | set of (symbol, minute) | `is_inflight`, guard | request handling |
| rate limit, `rate_limiting.rs` | counter of reserved outcalls | `is_rate_limited`, guard | request handling |
| fees, `environment.rs` | - | `has_enough_cycles`, `charge_cycles` | request handling |
| sanitization, privileged callers and pairs, `utils.rs` | - | pure | request handling |
| stablecoin choice, `stablecoin.rs` | - | `get_stablecoin_rate`, pure | request handling |
| rate arithmetic, `lib.rs` | - | product, quotient, inverse, validation of rates | all that compose rates |
| listing discovery, `listings.rs`, `periodic.rs` | a listing of base assets per exchange, next refresh | `accept`, `should_query`, refresh from the heartbeat | exchanges, request handling |
| forex refresh, `periodic.rs` | next refresh, fetch-under-way flag | fetch from the heartbeat | forex sources, collector, store |
| forex collector and store, `forex.rs` | rates per source of the last days; one rate per day and currency | `update`, `get_rates_map`, `put`, `get` | request handling |
| forex sources, `forex/*.rs`; exchanges, `exchanges.rs` | - | URL and parser per source | outside world |
| upgrade, `lib.rs` | - | saves and restores forex store and listings | |
| monitor canister, `src/monitor-canister` | log of answers, call-under-way flag, next call | asks for rates from its heartbeat; `get_entries` | XRC, readers |
| metrics, dashboard, request log | counters, times of last success, bounded logs | written by the handlers, read by operators | - |
| HTTP outcalls, `http.rs` | - | a request per replica, a transform, a quorum | outside world |
| mock canister, interface types, system tests | - | for other teams' tests; Candid types; a test harness | - |

What is hard about it, and what the properties are for: calls overlap at their
awaits; the in-flight set and the counter are released by destructors that must
run on every path, traps included; a call reserves outcalls before it knows which
ones it will make; exchanges fail one by one and the call goes on with the rest;
the clock moves while a call waits; privileged callers skip most checks; the cache
evicts; an upgrade drops part of the state. `PROJECT.json` lists each hazard at its
line.

What makes the components right, in a sentence each:

- *request handling*: the error and the fee a caller gets are those of its own
  request, and every call returns;
- *cache*: only real rates of minutes that have come, one per key, at most
  `MAX_CACHE_SIZE`;
- *in-flight set*: exactly the assets of the calls under way, so that ordinary calls
  fetch no asset twice for a minute, but for the stablecoins of crypto-fiat pairs, which
  are not tracked; and `Pending` is temporary;
- *counter*: exactly what is reserved, never less than what is under way, and
  bounded for those the limit is for;
- *listing discovery*: one refresh at a time, never a listing that would silence an
  exchange by mistake;
- *forex*: a day's rate only improves, and only days that are over everywhere are
  used;
- *arithmetic*: the result is the exact one up to the stated rounding, or an error;
- *exchanges*: every replica sees the same rate, of the minute asked for or shortly
  before, of the pair asked for;
- *forex sources*: a rate is what the currency was worth in USD on the day it is filed
  under (it is not for five currencies of one bank, see section 3);
- *metrics and logs*: they agree with each other and with what was used;
- *monitor*: its log has each answer once, in order, and it never stops sampling.

## 2. Modules

| Module | Models | Content |
|---|---|---|
| `RateCache` | `cache.rs` | operators: the cache as the sequence of its entries, least recently used first |
| `GetExchangeRate` | `api.rs`, `inflight.rs`, `rate_limiting.rs`, `environment.rs`, parts of `utils.rs`, `stablecoin.rs`, `errors.rs`, `lib.rs` | the state machine |
| `GetExchangeRateProperties` | - | its properties |
| `MCGetExchangeRate` and the `.cfg` files | - | the instances TLC checks |
| `Durations`, `ListingStore` | `listings.rs` | operators: accepting a listing, asking an exchange or not |
| `ForexRates` | `forex.rs` | operators: the collector (a sequence of days), the store and its lookup |
| `PeriodicTasks` | `periodic.rs`, `heartbeat` and the upgrade hooks of `lib.rs` | the state machine of the heartbeats |
| `PeriodicTasksProperties` | - | its properties |
| `MCPeriodicTasks` and the `.cfg` files | - | the instances TLC checks |
| `KeyLocks` | `inflight.rs`, what it promises | the abstract specification of in-flight tracking |
| `RateArithmetic` | `QueriedExchangeRate` in `lib.rs`, parts of `utils.rs`, `stablecoin.rs` | operators on integers |
| `Exchanges` | `exchanges.rs` | one record per exchange, the candles in its answer and the price taken |
| `ForexSources` | `forex.rs`, `forex/*.rs` | one record per bank, `ExtractRates`, `NormalizeToUsd` |
| `Telemetry` | metrics of `lib.rs` and `api.rs`, `request_log.rs` | operators: counters, exchange metrics, logs |
| `RatePath` | `call_exchange`, `call_forex` and the transforms of `lib.rs`, the aggregation of `api.rs` | the state machine that composes the four modules above |
| `RatePathProperties`, `MCRatePath` | - | its properties and instances |
| `Monitor` | `src/monitor-canister/`, with what `get_exchange_rate` records | the state machine of the monitor and the canister it asks |
| `MonitorProperties`, `MCMonitor` | - | its properties and its instance |
| `RateCacheProofs`, `GetExchangeRateProofs`, `RequestProofs` | - | proofs about the request path |
| `PeriodicTasksProofs`, `ForexProofs` | - | proofs about the background tasks |
| `MonitorProofs` | - | proofs about the monitor and the records |
| `RatePathProofs` | - | proofs about the way of the rates and its arithmetic |
| `SumTheorems` | - | lemmas about sums over functions and sets, used by the three above |

`RatePath` EXTENDS `Telemetry`, `ForexSources` and, through them, `Exchanges` and
`RateArithmetic`; `Monitor` EXTENDS `Telemetry`. An operator whose comment begins with
"Variant" is not part of the model: it is the operator after it with a plausible
mistake, and replaces it when a property is tested for being able to fail.

### State and actions of `GetExchangeRate`

| Variable | Code |
|---|---|
| `calls` | the suspended calls: the locals of the handler, and which await it is at (`phase`) |
| `inflight` | `INFLIGHT_CRYPTO_USDT_RATE_REQUESTS` |
| `counter` | `RATE_LIMITING_REQUEST_COUNTER` |
| `cache` | `EXCHANGE_RATE_CACHE` |
| `now` | the time of the current message, in seconds |
| `reply` | the reply the last step sent and the fee taken for it, so that properties can speak about it |

An action is all a call does from one await to the next:

| Action | Code |
|---|---|
| `Refuse` | anonymous callers, and ordinary callers without enough cycles |
| `AnswerFiatPair` | `handle_fiat_pair`: no await |
| `RejectInvalid` | the lookups, the failing validation or forex lookup, the minimum fee |
| `AnswerFromCache` | all rates in the cache |
| `StartFetching` | lookups, validation, fee, both guards, up to the first await, or through to the reply when there is nothing to wait for |
| `StablecoinResponse`, `BaseResponse`, `QuoteResponse` | the rest of the handler from each of its awaits to the next one or to the reply |
| `Trap` | the code after an await traps: the guards are dropped, the rest of the message is undone |
| `Upgrade` | state that an upgrade drops |
| `Tick` | the clock |

`FetchStablecoins`, `FetchBase`, `FetchQuote` and `Combine` say how far a handler
runs from a point on; `Proceed` writes the state of a call that has run that far,
and drops its guards if it has returned.

### State and actions of `PeriodicTasks`

| Variable | Code |
|---|---|
| `tasks` | the heartbeats that wait for outcalls: which await of `run_tasks` each is at, the timestamp it took when it began, whom it asked |
| `isUpdatingForex`, `nextForexRun` | `IS_UPDATING_FOREX_STORE`, `NEXT_RUN_SCHEDULED_AT_TIMESTAMP` |
| `collector`, `store` | `FOREX_RATE_COLLECTOR`, `FOREX_RATE_STORE` |
| `isUpdatingListings`, `nextListingRun` | `IS_UPDATING_LISTING_STORE`, `NEXT_LISTING_RUN_BY_EXCHANGE` |
| `listings` | `LISTING_STORE` |
| `now` | the time of the current message |
| `traps` | counts traps, for the bound `MaxTraps` |
| `lastAttempt`, `lastForexRun` | history: when an exchange was last asked and a forex refresh last completed; no action reads them |

A heartbeat runs the forex refresh and then, with the same timestamp, the refresh of
the listings. Other heartbeats run while it waits.

| Action | Code |
|---|---|
| `HeartbeatWithoutForex` | the forex refresh returns at once or has nobody to ask; the listings follow, up to their await |
| `HeartbeatWithForex` | up to the await of the forex sources |
| `ForexResponse` | all of `update_forex_store` after its await, then the listings up to theirs |
| `ListingResponse` | `update_listing_store` after its await |
| `Trap` | the code after an await traps: its guard is dropped, the rest undone |
| `Upgrade` | both stores survive, everything else starts afresh |
| `Tick` | the clock |

### State and actions of `RatePath`

| Variable | Code |
|---|---|
| `request` | the request, which of its operands is fetched live (`live`) and whom it asks (`sources`) |
| `trades`, `now` | the trades on the exchanges, minute by minute, and the clock |
| `fetched` | exchange -> replica -> the response after the transform |
| `outcomes` | exchange -> the result of `call_exchange`, turned around if the pair is listed so |
| `documents` | bank -> what kind of document it answered with, and the rates extracted |
| `received` | operand -> the rates received: from the cache and the stores, or live |
| `reply` | the quote, and the composed rate before it was turned around (`direct`) |
| `metrics` | the metrics of the exchanges |

| Action | Code |
|---|---|
| `Fetch` | one replica's HTTP request, and the transform of its answer |
| `Respond` | `call_exchange` resumes with what a quorum agrees on, and records it |
| `CollectRates` | after `join_all`: the rates of the exchanges that did not fail |
| `RespondBank`, `CollectForex` | `call_forex`; the rates of the banks that did not fail |
| `Compose` | new rates from what was received, the composed rate, its validation, the reply |
| `Trade`, `Tick` | the outside world |

### State and actions of `Monitor`

| Variable | Code |
|---|---|
| `isCallingXrc`, `nextCallAt`, `entries` | `IS_CALLING_XRC`, `NEXT_CALL_AT_TIMESTAMP`, the stable log |
| `batches` | the suspended heartbeats: when each began, which request it is at |
| `calls` | the calls of the exchange rate canister: on the way, being handled, answered |
| `counters`, `logs` | `MetricCounter`s and the two request logs of the exchange rate canister |
| `pages` | what a reader has read so far and the offset it asks for next |
| `now`, `traps`, `upgrades`, `stuck`, `dropped` | the clock; counts for bounds; history for the properties |

| Action | Code |
|---|---|
| `Heartbeat` | `beat` up to the first await |
| `Record`, `Abandon` | the code after an await: up to the next one or to the end; with an entry that cannot be encoded |
| `CallFails`, `TrapMonitor`, `UpgradeMonitor` | a call that is not delivered; a trap after an await; an upgrade |
| `Receive`, `RequestOf`, `ReplyTo`, `TrapXrc`, `UpgradeXrc` | `get_exchange_rate` before and after the request is handled, for the monitor and for other callers |
| `Read` | `get_entries` for the next page |

### Abstractions of `GetExchangeRate`

- A rate is the number of its source rates. No decision of the request path looks
  at a price, except whether a composed rate is valid and whether the chosen
  stablecoin rate is zero, which are left open (`ComposedResults`,
  `StablecoinResults`).
- Exchanges are the environment: any subset of an outcall's exchanges may fail, and
  of the others any number of rates may be usable. Which exchanges list an asset is
  chosen at each fetch, for the listing store may change in between.
- The forex store is the environment too: `ForexResults` and `FiatPairForexResults`
  are what its lookup may return.
- A sanitized symbol is looked up in the constant `CleanSymbol`; `""` stands for a
  symbol that is not alphanumeric, as in the code.
- Metrics and logs are in `Telemetry` and `Monitor`; nothing in the request path reads
  them.
- `Upgrade` happens only while no call waits: the deployment stops the canister
  first, and a stopped canister has no open calls.
- An error of `charge_cycles` after `has_enough_cycles` cannot occur, for the
  highest fee, 500 000 000 cycles, is less than the 1 000 000 000 a call must carry.

### Abstractions of `PeriodicTasks`

- A forex rate is the number of its sources, 0 for no rate: `put`, `get` and the CXDR
  computation choose by that number. Maps are total over `Symbols` and `Days`.
- A day is the timestamp of its start. Names are compared as they are; the code folds
  their case first.
- Only `SDR` is renamed, to `XDR`, as the collector does.
- A day counts as updated when some source answered for it and the collector has it
  afterwards; the code asks `update` for the same.
- Sources and exchanges are the environment: any subset of those asked fails, the
  others answer one of `ForexAnswers` or `ListingAnswers`. An empty map of forex rates
  is an error, as in the code.
- `Upgrade` happens only while no heartbeat waits, for the reason given above.

### Abstractions of `RatePath`

- `DECIMALS` and the number of 64-bit values (`WORD`) are constants, to be scaled down
  together. 128-bit arithmetic is exact: nothing in it comes near 2^128 before it is
  divided, except by saturation that the later filter removes.
- Formats are left out: a URL is the window of minutes asked for, an answer the candles
  in it, a bank's document its items with their values, units and dates. What the
  parsers do with them is kept: which candle, which of its prices, which date is
  compared with which, amounts turned into prices, zeros.
- An exchange has no candle for a minute without a trade, as the notes in
  `exchanges.rs` say of Coinbase; its prices are finer than rates (`PRICE_UNIT`).
- One operand of a request is fetched live, the others were received before. The
  request path with all its fetches, errors and guards is `GetExchangeRate`, which
  leaves the rates out; `RatePath` is the other half and leaves out fees, limits, the
  cache and the in-flight set.
- A document that makes the transform trap (a USD rate of 0 divides by zero in
  `normalize_to_usd`) and one that cannot be parsed are the same to the canister: no
  answer.
- Sources are a set: what they answer is sorted. A sorted sequence is characterised by
  ranks (`Sorted`: fewer than k values are below the k-th one, at least k are not above
  it), powers and the loop of `integer_sqrt` by iteration (`Iterated`), instead of being
  computed by library operators the provers have no rules for.
- `RatePathAssumption`: prices are such that rates are 64-bit numbers (`Prices`),
  currencies are worth something, requests are by the minute, and a bank quotes USD
  (`QuotedCurrencies`; one that leaves it out gives no rates, as one with 0 does).
  `ScaleAssumption`: ten times the largest rate is still a 64-bit number, as with 10^18
  and 2^64.

### Abstractions of `Monitor`

- The exchange rate canister is what it records of its requests; its answers are any
  of `Results`, or an error of the call.
- An entry is a pair, a minute and a result; what matters of its encoding is its size
  (`SizeOf`), and of the stable memory that an entry is appended whole or not at all.
- `UpgradeMonitor` waits for the monitor's own calls, `UpgradeXrc` for the calls it is
  handling: each canister is stopped before it is upgraded.

## 3. What is model-checked

### Request path

Every instance uses the assets BTC and USDT (privileged), XYZ (not), the stablecoins
USDC and USDS, EUR and USD; one ordinary caller and, unless noted, one privileged
caller. Two calls are what it takes for one to disturb another; the in-flight set
and the counter treat further calls the same way.

| Run | Instance | Properties |
|---|---|---|
| `CryptoPairs` | two calls, three requests that share BTC, one of them for a minute that has not come at first; one exchange, a cache of 2, a limit of 2, two minutes | `TypeOK`, `InflightHeld`, `CounterIsReserved`, `LimitedLoadBounded`, `CacheSound`, `OnlyCurrentMinuteFetched` |
| `Replies` | one call at a time, 15 requests: every class of pair with invalid symbols on either side, past and future minutes, with and without enough cycles | `ErrorsNameTheRightSide`, `FeeMatchesWork` |
| `OrdinaryOnly` | two calls of ordinary callers, pairs that share assets, one exchange, a cache of 1, too small for what a call fetches, a limit of 9 that is out of reach, with fairness | `OutcallsWithinCounter`, `AssetsFetchedOnce`, `ImplementsKeyLocks`, `CallsReturn`, `NothingStaysInflight` |

`ImplementsKeyLocks` is a refinement: with `held` the keys of the waiting calls and
`locked` the in-flight set, `GetExchangeRate` without privileged callers implements
`KeyLocks`, in which a call takes all its keys at once, only if they are free, and
gives back exactly its own. It says more than that the set is complete: a step that
took a key of another call, or left one behind, would be no step of `KeyLocks`.

`AssetsFetchedOnce` is about outcalls rather than keys: while a call has outcalls under
way for an asset that is not a stablecoin, no other call has, and the rate is not in the
cache. Lookup, validation and guard come on arrival, the quote asset is fetched after one
or two awaits, and the cache of 1 evicts in between; the property says that what was
found on arrival still holds then. It leaves out a pair of an asset with itself, which
fetches the asset once for each side, one after the other. Stablecoins are left out
because for them it is false (`DocStablecoinsTwice` below).

`FeeMatchesWork` is exact about refusals: the minimum fee, or nothing for a fiat pair that
fails the validation (see below).

One exchange is enough for `OutcallsWithinCounter`: the counter is in units of rates
to fetch, and what can go wrong is that a call fetches more assets than it reserved
for, stablecoins included.

Bounds: the slots for calls (`Calls`), the clock (`MaxTime`, `TimeSteps`), the
requests, the cycles attached. In the code the limit is 56 and the cache holds
`MAX_CACHE_SIZE` entries; the instances make both small enough to be hit.
Slots are symmetric in the runs that check no liveness.

Fairness: `WF_vars(Response(c))` for each call. The management canister answers
every HTTP outcall, with an error or a timeout if need be, so a suspended call
is resumed. Nothing else is assumed fair: no call has to arrive, no time has to pass.

### Background tasks

Two heartbeats can be under way together, one callback may trap (`MaxTraps`), the
canister may be upgraded at any time, and the clock takes any of five moments in order.
Wednesday is the second of October 2024.

| Run | Instance | Properties |
|---|---|---|
| `Listings` | two exchanges, one asset, answers with 101, 50 and 49 markets; Wednesday 23:00 and 23:30, Thursday 0:15 and 0:30, Sunday 1:00; one forex source, which never answers but may keep a heartbeat waiting | `FlagsHeld`, `StaleListingSoonRetried`, `RetriesSpaced`, `ListingsNeverGoBack`, `SilencedOnlyBySoundListing`, `DueExchangesAsked` |
| `Forex` | no exchanges; two sources an hour ahead of UTC and one eight hours behind, each with all of the basket and USD, or EUR and USD only, or nothing; Wednesday 0:00, 1:00 and 6:00, Thursday 0:00, Sunday 1:00 | `TypeOK`, `SourcesCountedOnce`, `StoreKeepsUp`, `BasketFound`, `ForexDayNeverGoesBack`, `OneForexRunPerPeriod`, `DueForexRefreshed` |

The moments of `Listings` lie within an hour, across a midnight and beyond the three
days after which a listing is stale; 50 is `MIN_TOTAL_MARKETS` and less than half
of 101, 49 is below both. Those of `Forex` lie in one period of six hours, in the
next, on the next day and on a weekend, on which no source has rates to ask for; the
collector's two days are filled and one is dropped.

The two are separate runs because the stores share only the heartbeats: `Listings`
keeps the forex wait, which is what makes a timestamp stale.

`RetriesSpaced` is about the timestamps of the heartbeats. A heartbeat that waited for
the forex sources carries an old one, so by the clock an hour between two attempts
can be shorter by the length of that wait.

Fairness: `WF_vars(\E h : Heartbeat(h))`, for the system calls `heartbeat` again and
again, and for each heartbeat weak fairness of its callback, for every HTTP outcall is
answered. Time need not pass.

### From trades to quotes

| Run | Instance | Properties |
|---|---|---|
| `Rates` | every exchange alone and two together, for a cryptocurrency; three for a stablecoin; 30 pairs of banks for four currencies; all combinations of received rates of the samples, for every kind of pair; two replicas that must agree | `TypeOK`, `ClosedWindowsAgree`, `RatesAreRecent`, `MetricsMatchRates`, `BankRatesMatchWorth`, `MajorityDecides`, `QuoteWithinSources`, `AgreementRequired`, `DeviationExact` |

- `DECIMALS` is 1: a rate unit is 10, the largest rate 100, and a word has 1844 values,
  which is to 10^2 as 2^64 is to 10^18. Every branch of the scaling in `Mul` and
  `inverted` is taken: products below and above the range, rates of one unit and of
  the maximum, medians of 0.
- The received rates have up to three sources per operand, five where the filter of
  `new` is looked at: two make up a majority or a minority of these.
- The requested minute begins at 600; the past has trades in any of three earlier
  minutes and one more than six minutes old; two more may be made while the replicas
  ask (`MaxTrades`), until 90 seconds later (`MaxTime`), so that the requested minute,
  the next one and the boundary between them are covered.
- Trades are at 5 and at about 100, where 10 is a rate of 0.1 and 100 one of 1: the
  inverse of the first is too high for a rate, the second is turned around exactly.
- A bank answers with the document asked for, one of the day before, one in which USD
  is worth 0, or one of which one item was not updated. Currencies change their worth
  from day to day, so that a wrong date, amount or unit shows, and few of the quotients
  are whole numbers.

The properties name the rounding. `QuoteWithinSources` bounds a quote from both sides:
one of two cryptocurrencies by the two divisions it goes through, a price in a fiat
currency by those into USD and from there, whose decimals depend on the rates.
`RatesAreRecent` says by how much a price turned around twice may exceed what was paid.
`BankRatesMatchWorth` is exact: it says which two divisions a rate is the result of. A
bank's price may be for a hundred units of a currency. Five banks say in their documents
for how many; the Central Bank of Myanmar does not, and its parser divides the price of the
yen by 100 and no other (`UnitsTaken`, `myanmar.rs:42`), although the bank's document in
`test-data/forex` prices the won, rupiah, dong, kip and riel in the same way
(`PerHundred`). So the property says that these come out a hundred times too high
(`Overstated`); the instance has the won and the yen.
`InvertedOrRefused` is the same question for fiat-crypto pairs, where the answer is
a violation (see below).

`MetricsMatchRates` has an exception. The comment at `lib.rs:1072` says that the gauge
tracks the last usable response; one of a stablecoin listed the other way around whose
rate is above `MAX_RATE` (in the code 10^18, a price of 10^9) is inverted to 0 after it
was counted as a success. The property allows for exactly that.

Deadlock is not checked in `Rates` and `DocInversion`, because a request that is
answered is the end of their behaviours.

### Monitor

| Run | Instance | Properties |
|---|---|---|
| `Monitor` | two of the four pairs, two heartbeats, a reader with pages of one entry or the default, a privileged caller with one request; one trap, one upgrade of either canister; a log with room for two or less than two entries; moments at 600, 840 and 930 seconds | `TypeOK`, `LogInOrder`, `PagesMatchLog`, `CountersMatchLogs`, `SamplingGoesOn` |

The three moments are the start of a batch, one at which no batch is due, and one after
which the next is due. Two slots for heartbeats suffice: a third would find the flag
as the second did. The logs of the exchange rate canister hold one entry each, so that
they overflow.

Fairness: the system calls the heartbeat again and again, and delivers and answers
every call, with an error if need be: `WF_vars` for the heartbeat, for the delivery or
failure of a call, for its reply, and for the callback. Time need not pass, and nobody
has to read.

`SamplingGoesOn` allows for one case in which sampling ends until the next upgrade:
a trap after an await, for which the flag has no guard that would clear it (`stuck`).

### Where a comment and the code differ

| Run | The comment | The code |
|---|---|---|
| `DocInflightOverlap` | `inflight.rs:12`: the set contains the pairs that are being requested | A privileged caller's call may overlap another for the same key; the set has the key once, the first of the two to return removes it |
| `DocStablecoinsTwice` | `inflight.rs:40`: the canister avoids sending similar requests | The outcalls of a crypto-fiat call are tracked under its base asset only (`api.rs:735`): two such calls of ordinary callers both fetch the stablecoins |
| `Replies` (passes) | `api.rs:537`: an invalid request is charged the minimum fee | `handle_fiat_pair` returns before it charges (`api.rs:821`): `FeeMatchesWork` says that it costs nothing |
| `DocPrivilegedCache` | `api.rs:33`: cached rates of too few sources are not used for privileged callers | The stablecoin lookups of the crypto-fiat handler skip that test (`api.rs:688`) |
| `DocForexDay` | `forex.rs:317`: a day is not used while it is not over for the western-most source | The smallest offset, -8 hours, is added to the end of the day instead of taken off (`forex.rs:327`): the day is used from 16:00 UTC, and is over in the west at 8:00 UTC of the next day. With the clock of the instance, rates of the sources further east are used at 0:00 |
| `DocInversion` | `utils.rs:184`: a rate that cannot be inverted gives `None` | Only 0 does. An inverse of more than 64 bits is cut (`utils.rs:187`): the quote of a fiat-crypto pair of a very cheap cryptocurrency is the remainder |

The first is why `AssetsFetchedOnce` and `ImplementsKeyLocks` are stated for an instance
without privileged callers, the second why the former leaves out stablecoins.

One difference is an error of the code rather than a matter of a comment: five of
Myanmar's currencies are read a hundred times too high (`forex/myanmar.rs:42`). The run is
`Rates`, which passes because `BankRatesMatchWorth` says what the code does.

## 4. What is proved

### Request path

For every number of calls, callers, symbols, requests and exchanges, any capacity
and any limit, from the named assumptions in `RateCache` and `GetExchangeRate`
(capacity positive, exchanges finite and not empty, callers of the two kinds
distinct, the privileged ones possibly none):

| Theorem | States |
|---|---|
| `TypeCorrect` | `Spec => []TypeOK`, with the bound on the cache |
| `NoKeyLeaks` | `Spec => []InflightHeld` |
| `NoDoubleFetch` | `Spec => []AssetsFetchedOnce` |
| `TrackingImplementsKeyLocks` | `Spec => KeyLocks`, under the refinement mapping |
| `CacheIsSound` | `Spec => []CacheSound` |
| `CounterExact` | `Spec => []CounterIsReserved` |
| `OutcallsAreReserved` | `Spec => []OutcallsWithinCounter` |
| `LimitHolds` | `Spec => []LimitedLoadBounded` |
| `CurrentMinuteFetched` | `Spec => OnlyCurrentMinuteFetched` |
| `ErrorsAreAboutTheRequest` | `Spec => []ErrorsNameTheRightSide` |
| `FeesAreFair` | `Spec => []FeeMatchesWork` |

The argument. `StepKinds` reduces a step to one of three kinds: a call goes on from
one of its awaits (`Resumes`), a call is admitted (`Starts`), or no call is touched.
`ProceedStep` then says what each does to the guards, and each invariant is shown
for the kinds rather than for the eleven actions.

- `InflightHeld` is inductive given `TypeOK`: keys are added with the call that
  holds them, and a call keeps its request and minute, and so its `Keys`, while it
  waits (`GuardsKept`).
- Neither `KeysDisjoint`, that no two waiting calls share a key, nor `InflightComplete`,
  that the keys of every waiting call are in the set, is inductive alone. A call
  that returns takes its keys out of the set, which leaves another call's keys in
  it only if the two share none; and a new call shares none with the waiting ones
  only if theirs are all in the set it was validated against. Their conjunction
  `Disjointness` is inductive; `AdmittedKeysFree` is its heart. From it the refinement
  follows step by step: a call that is admitted acquires, one that returns releases, and
  nothing else touches the set.
- `AssetsFetchedOnce` needs besides that what a call lacked on arrival stays out of the
  cache until the call fetches it (`LackedIsUncached`). The keys of other calls are not
  its own, so what they insert is not either, and an eviction only takes entries out.
- `CacheSound` needs `MinutesCome`: a suspended call will insert under the minute it
  was admitted with, so that minute must have come. `RateCacheProofs` shows that
  each operation of the cache keeps one entry per key.

`RateCacheProofs` holds the lemmas about the cache: a lookup finds the entry of its
key, no operation makes an entry up, and `Insert` never exceeds the capacity.

`RequestProofs` has the results about numbers and replies. Its `WorksCases` sharpens the
kinds of steps to what they do to the counter and to the sums over the waiting calls:

- `CounterIsReserved` is inductive with the finiteness of the set of waiting calls: a
  sum changes by the term of the one call that moved.
- `OutcallsWithinCounter` follows from it and from `SoundCalls`: a call that waits needs
  at least one rate and no fewer than the stablecoins it misses, and only of two crypto
  assets is a second one fetched. So what it has under way at any await is within what it
  reserved on arrival.
- `LimitedLoadBounded` compares with the counter at the moment of admission, of which the
  limited calls are a part; afterwards their sum only shrinks.
- `ErrorsNameTheRightSide` and `FeeMatchesWork` are about a reply, and follow handler by
  handler from what each may answer. `SoundCalls` is what carries the fee and the number
  of rates across the awaits.

### Background tasks

For every number of heartbeats, exchanges, sources and moments, from the named
assumptions of `ForexRates` and `PeriodicTasks` (moments are later than the third day
of 1970, answers are finite and of their type, no source is listed twice, a rate needs
at least one source):

| Theorem | States |
|---|---|
| `FlagsNeverLeak` | `Spec => []FlagsHeld` |
| `StaleListingsRetried` | `Spec => []StaleListingSoonRetried` |
| `RetriesKeepTheirDistance` | `Spec => RetriesSpaced` |
| `ListingsKeptInOrder` | `Spec => ListingsNeverGoBack` |
| `OnlySoundListingsSilence` | `Spec => SilencedOnlyBySoundListing` |
| `TypeCorrect` (`ForexProofs`) | `Spec => []TypeOK`, with the bound on the collector and the order of its days |
| `StoreIsUpToDate` | `Spec => []StoreKeepsUp` |
| `NoSourceCountsTwice` | `Spec => []SourcesCountedOnce` |
| `BasketIsFound` | `Spec => []BasketFound` |
| `ForexDayKeepsUp` | `Spec => ForexDayNeverGoesBack` |
| `OneRefreshPerPeriod` | `Spec => OneForexRunPerPeriod` |

The argument is one inductive invariant, `IInv` (theorem `Invariance`): the types,
`FlagsHeld`, and `ListingInv`, which relates the schedule to the listings. Its heart is
`StaleTasksHarmless`. A heartbeat may carry a timestamp from before other heartbeats
refreshed the listings; what keeps it from storing an older one is that every exchange
with a newer listing has its next attempt after that timestamp, so it is not due for
that heartbeat. `Scheduled` says when the next attempt is: an hour after the last one,
or the day after the last success. The flag is what makes both stable across the await
of the listings: no other heartbeat changes the schedule meanwhile.

The forex refresh adds `ForexInv`, and `FullInv == IInv /\ ForexInv` is inductive
(`ForexInvariance`). Its parts:

- `StoreInv`: the store has for a collected day what the collector has, and CXDR never
  claims more sources there than a currency of its basket. A response enters the
  collector source by source, for two days at a time, and may push a day out; then the
  days it touched are stored. `StoreKeepsUp` is restored because every day the fold
  changed is among those stored, and a day that was dropped from the collector asks
  nothing of the store.
- `CountInv`: a rate of a collected day counts at most its sources, and the sources a
  heartbeat waits for are not among those of the day it asked for. The second part is
  what a retry after a trap could break; that the flag admits one heartbeat at a time
  keeps it true across the await.
- `ForexScheduled`: the next refresh is in the period after the last one, and a heartbeat
  that waits began when it was due, so the stale timestamp it completes with still lies in
  a later period than the last completion.

What a fold over the sources computes is shown without an induction rule: the fold is a
function of the set of indices done so far, and if a claim failed for some number of
sources it would fail for a least one, which the step contradicts (`CollectedInduction`).
`SumTheorems` uses the same argument for sums over finite sets.

### Monitor

For every number of pairs, heartbeats and callers, any sizes of the logs and of the
entries, from `MonitorAssumption` (moments are later than the first minute of 1970, no
pair is listed twice, the heartbeats are callers of their own, logs hold at least one
entry, entries are not empty and the log is smaller than a `usize` can count):

| Theorem | States |
|---|---|
| `TypeCorrect` | `Spec => []TypeOK`, with the bound on the stable log |
| `LogIsInOrder` | `Spec => []LogInOrder` |
| `ReadersGetTheLog` | `Spec => []PagesMatchLog` |
| `CountersAgree` | `Spec => []CountersMatchLogs` |

- `LogInOrder` needs `OneBatch`, that the flag is up while a batch is under way, and
  `LogBehind`, that every entry lies behind what the batch under way and the next batch
  will add: of the same batch at an earlier pair, or of one at least five minutes
  earlier, or of a time before an upgrade.
- `PagesMatchLog` needs that the log only grows, and that the last page ends with it.
- `CountersMatchLogs` is restated as `RecordInv`, one group of callers at a time: a log has
  the latest `LogSize` of the answers; the errors in it were counted; and those that were
  counted and are not in it were pushed out. A trap between the two moments at which a
  request is recorded is what `dropped` accounts for.

### From trades to quotes

For every set of exchanges and banks asked, any replicas and quorum, any trades, any
number of rates of any size and any number of decimals, from `RatePathAssumption` and
`ScaleAssumption`:

| Theorem | States |
|---|---|
| `TypeCorrect` (`RatePathProofs`) | `Spec => []TypeOK`, with the range of a quote and of its decimals |
| `WindowsAreClosed` | `Spec => []ClosedWindowsAgree` |
| `MajorityPrevails` | `Spec => []MajorityDecides` |
| `AgreementEnforced` | `Spec => []AgreementRequired` |
| `QuotedWithinSources` | `Spec => []QuoteWithinSources` |
| `DeviationIsExact` | `Spec => []DeviationExact` |
| `RatesWerePaid` | `Spec => []RatesAreRecent` |
| `MetricsTellTheTruth` | `Spec => []MetricsMatchRates` |
| `WorthFromDocuments` | `Spec => []BankRatesMatchWorth`, with the factor of 100 for what Myanmar overstates |
| `BankRatesNearWorth` | `Spec => []RatesNearWorth`: the bounds that the two roundings of a bank's rate leave |

The inductive invariant is `IInv == TypeInv /\ ReplyInv /\ WindowInv /\ AnswerInv`:

- `TypeInv` is what the steps keep of the types. Every rate received is a 64-bit number:
  `PublishedNumbers` and `ExtractedRates` follow it through a bank's document and its
  normalisation, `TransformedType` and `OutcomeType` through an exchange's candle and the
  inversion of its pair.
- `ReplyInv`: a reply that was not refused for want of rates is about a product that is
  sorted and in range (`ProductInRange`, `InverseCalculable`).
- `WindowInv`: what a replica got from Coinbase or KuCoin is what it would get now. It is
  stable because every candle these two are asked for begins before the requested minute
  (`ClosedWindow`), and a trade is made in the current minute, which is not earlier.
- `AnswerInv`: a quote is still what its operands compose, for no rate is received after
  all of them were there.

Three more invariants are inductive given `TypeInv`, each about what was answered:

- `PaidInv`: what a replica got is the listed price of a trade within the window, and what
  `call_exchange` returned is paid. Trades are only added (`TradesStay`), so both last.
  `RecentWindow` goes through the windows of the six exchanges; `PriceTaken` says that the
  price of a candle is one of its prices, whichever the exchange takes; `TurnedTwice` is
  the arithmetic of a pair listed the other way around.
- `MetricsInv`: a settled outcome is still the function of what the replicas got that it was
  when it was recorded, for none of them fetches again, and the gauge was set if that
  outcome was a success; before an exchange answers its gauge is 0, so one never tells of
  another (`MeteredStays`). `OutcomeSettled` compares what is recorded with what is left
  after the pair is turned around.
- `BanksInv`: `MatchesWorth` of each bank's answer. It is `BankAnswer` that carries it: the
  items that count are those of the requested day, whichever of document, items or neither
  has a date (`UsableItem`, `RightDocument`); a price, an amount, a price for
  several units, comes to the same value (`ItemWorth`, `QuotientOfMultiples`), but for the
  prices that are taken to be for fewer units than they are (`UnitsOfPrice`); and what is
  extracted is that value divided by the one of USD (`ExtractedFrom`). Facts about the
  eleven banks, that each is read in the currency and under the date it publishes, are
  checked bank by bank (`SourceFacts`). `TwoQuotients` turns the two divisions into bounds.

The rest is about the arithmetic:

- *Sorting.* `SortedRanks` and `SortedOrder` show that the ranks define an ascending
  sequence with the values of the function; `RankTaken` that there is a k-th value.
- *Majority.* `MedianOfMajority`: a narrow interval with more than half of the values has
  the median. `MajorityStays`: none of them is filtered away, for each is within a fifth
  of that median, and what is filtered away is not of the majority.
- *Agreement.* `NarrowWindow`: half of the sorted rates and one more lie within a tenth of
  their least one if and only if the two ends of some window do.
- *Range.* `RescaledExact` and `ProductExact`: but for what is cut off, a rate of a product
  is the product of two rates, divided by the power of ten by which the decimals of the
  result are fewer. `InverseExact`: rates in range are inverted without added decimals
  and without overflow. `RatioExact` combines them, and in `RatioBounds`, `PriceBound` and
  `PriceBoundBelow` the scales cancel out (`PowersAdd`).
- *Square root.* `RootStep`: before each turn of the loop the digits found so far are the
  root in units of the current power of four, and `rest` is what is left of the number;
  the binary algorithm adds a digit. `SquareRootExact` is its end.

Powers and the root are iterations, and `Iteration` shows for any step and start that
there is such a function; `AllNumbers` is the induction, for a set of numbers rather
than for a predicate.

### Model-checked only

- Liveness (`CallsReturn`, `NothingStaysInflight`, `DueExchangesAsked`,
  `DueForexRefreshed`, `SamplingGoesOn`) rests on fairness, which the prover does not
  handle.
- The differences between comments and code that runs find violated are counterexamples,
  found by TLC. The two that `Replies` and `Rates` state are proved too (`FeesAreFair`,
  `WorthFromDocuments`).

## 5. Not modelled

- *Text*: URLs, JSON paths and XML, names and their cases, the encoding of the metrics,
  the dashboard's HTML. Nothing reads them back.
- *Gauges* of the forex and listing refreshes: copies of state that is modelled.
- *The value of CXDR*: a weighted sum over the basket; which rates it is made of is
  modelled (`BasketFound`).
- *Stable memory*: encoding and decoding of what an upgrade keeps, and of what an older
  version kept.
- *HTTP outcalls*: the cycles attached to them and the limits on the size of a response.
- *`is_available`*: a flag of the build decides whether exchanges and banks without IPv6
  are called. The exchanges and sources of the models are the available ones.
- *Mock canister, interface types, system tests*: canned answers, type definitions and
  a test harness, without behaviour of their own.

## 6. Plan

The parts of the system with behaviour of their own are modelled, and every safety
invariant, action property and refinement that a run checks is proved. Left are the
liveness properties, out of this prover's reach, and what section 5 lists. A change of
the code that keeps metrics or cached rates through an upgrade would belong in
`Telemetry` and `RateCache`: both lose their state in one now.
