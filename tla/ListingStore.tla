---------------------------- MODULE ListingStore ----------------------------
(***************************************************************************)
(* The discovered listings of src/xrc/src/listings.rs: what an exchange    *)
(* listed against USDT when it was last asked, and when that was. A name   *)
(* of an asset is compared as it is; the code folds its case first.        *)
(***************************************************************************)
EXTENDS Durations

CONSTANT Bases      \* the base assets an exchange may list

MIN_TOTAL_MARKETS == 50
MAX_LISTING_STALENESS_SECS == 3 * ONE_DAY_SECONDS

\* What an exchange's listing endpoint answers, once parsed.
ListedPairs == [bases : SUBSET Bases, total_markets : Nat]

\* The last accepted listing of an exchange, or NoListing. An accepted one
\* has at least MIN_TOTAL_MARKETS markets, so the two cannot be confused.
ExchangeListing ==
    [bases : SUBSET Bases, total_markets : Nat, last_success_secs : Nat]
NoListing == [bases |-> {}, total_markets |-> 0, last_success_secs |-> 0]

\* Variant: half of the markets, rounded down.
MinTotalTruncated(previous) == previous.total_markets \div 2

\* Half of the markets of the previous listing, rounded up.
MinTotal(previous) == (previous.total_markets + 1) \div 2

Accepts(previous, fetched) ==
    /\ fetched.total_markets >= MIN_TOTAL_MARKETS
    /\ fetched.total_markets >= MinTotal(previous)

\* The listing kept after the answer `fetched` to the refresh at `timestamp`.
Accept(previous, fetched, timestamp) ==
    IF Accepts(previous, fetched)
    THEN [bases |-> fetched.bases, total_markets |-> fetched.total_markets,
          last_success_secs |-> timestamp]
    ELSE previous

\* Is the exchange with this listing asked for the rate of `base`?
ShouldQuery(listing, base, timestamp) ==
    \/ listing = NoListing
    \/ timestamp - listing.last_success_secs > MAX_LISTING_STALENESS_SECS
    \/ base \in listing.bases

=============================================================================
