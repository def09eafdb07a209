------------------------------ MODULE RateCache ------------------------------
(***************************************************************************)
(* The exchange rate cache (src/xrc/src/cache.rs) over an LRU map.  The    *)
(* cache is the sequence of its entries from the least to the most         *)
(* recently used.  A rate is abstracted to the number of source rates it   *)
(* is made of, the only part of it any decision of the canister looks at.  *)
(***************************************************************************)
EXTENDS Integers, SequencesExt

CONSTANTS
    Symbols,    \* sanitized asset symbols, "" standing for an invalid one
    Capacity    \* MAX_CACHE_SIZE

ASSUME CapacityAssumption == Capacity \in Nat \ {0}

USDT == "USDT"

ASSUME SymbolsAssumption == USDT \in Symbols

(* No rate: what a lookup that misses returns.  No entry has 0 rates. *)
NoRate == 0

CacheEntry == [symbol : Symbols, timestamp : Nat, rates : Nat]

Matches(entry, symbol, timestamp) ==
    entry.symbol = symbol /\ entry.timestamp = timestamp

Has(cache, symbol, timestamp) ==
    \E i \in 1..Len(cache) : Matches(cache[i], symbol, timestamp)

OneEntryPerKey(cache) ==
    \A i, j \in 1..Len(cache) :
        i # j => ~Matches(cache[i], cache[j].symbol, cache[j].timestamp)

Position(cache, symbol, timestamp) ==
    CHOOSE i \in 1..Len(cache) : Matches(cache[i], symbol, timestamp)

(* LruCache::get makes the entry it finds the most recently used one. *)
Touch(cache, symbol, timestamp) ==
    IF Has(cache, symbol, timestamp)
    THEN LET p == Position(cache, symbol, timestamp)
         IN  Append(RemoveAt(cache, p), cache[p])
    ELSE cache

(* Variants of an operator that make a plausible mistake stand before the  *)
(* operator, here and in the other modules: they are what the properties   *)
(* are tried against.  This one never evicts.                              *)
PutWithoutEviction(cache, entry) ==
    Append(IF Has(cache, entry.symbol, entry.timestamp)
           THEN RemoveAt(cache, Position(cache, entry.symbol, entry.timestamp))
           ELSE cache,
           entry)

(* LruCache::put replaces the entry of the key, or evicts the least        *)
(* recently used entry when the map is full.                               *)
Put(cache, entry) ==
    LET room == IF Has(cache, entry.symbol, entry.timestamp)
                THEN RemoveAt(cache, Position(cache, entry.symbol, entry.timestamp))
                ELSE IF Len(cache) = Capacity THEN Tail(cache) ELSE cache
    IN  Append(room, entry)

(* ExchangeRateCache::insert: a rate without source rates and a rate of    *)
(* USDT are never cached.                                                  *)
Insert(cache, symbol, timestamp, rates) ==
    IF rates > 0 /\ symbol # USDT
    THEN Put(cache, [symbol |-> symbol, timestamp |-> timestamp, rates |-> rates])
    ELSE cache

(* ExchangeRateCache::get: what it returns, and the cache it leaves.  The  *)
(* USDT/USDT rate is made up on the spot, from one source rate.            *)
Get(cache, symbol, timestamp) ==
    IF symbol = USDT THEN 1
    ELSE IF Has(cache, symbol, timestamp)
         THEN cache[Position(cache, symbol, timestamp)].rates
         ELSE NoRate

AfterGet(cache, symbol, timestamp) ==
    IF symbol = USDT THEN cache ELSE Touch(cache, symbol, timestamp)

=============================================================================
