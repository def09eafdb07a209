\* Overlapping heartbeats that refresh the listings.
CONSTANTS
    h1 = h1
    h2 = h2
    e1 = e1
    e2 = e2
    Heartbeats = {h1, h2}
    Exchanges = {e1, e2}
    Bases = {"BTC"}
    ListingAnswers <- MCListingAnswers
    ForexAnswers = {}
    Moments <- ListingMoments
    MaxTraps = 1
    Currencies <- BasketOnly
    FOREX_SOURCES <- OneSource
    AvailableSources = {"EuropeanCentralBank"}
    UtcOffset <- NoOffset
    MIN_SOURCES_TO_REPORT = 1
SPECIFICATION FairSpec
INVARIANTS
    FlagsHeld
    StaleListingSoonRetried
PROPERTIES
    RetriesSpaced
    ListingsNeverGoBack
    SilencedOnlyBySoundListing
    DueExchangesAsked
