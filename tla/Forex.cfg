\* Refreshes of the forex store over several days.
CONSTANTS
    h1 = h1
    h2 = h2
    e1 = e1
    e2 = e2
    Heartbeats = {h1, h2}
    Exchanges = {}
    Bases = {}
    ListingAnswers = {}
    ForexAnswers <- MCForexAnswers
    Moments <- ForexMoments
    MaxTraps = 1
    Currencies <- BasketOnly
    FOREX_SOURCES <- ThreeSources
    AvailableSources <- Sources
    UtcOffset <- MCUtcOffset
    MIN_SOURCES_TO_REPORT = 2
SPECIFICATION FairSpec
INVARIANTS
    TypeOK
    SourcesCountedOnce
    StoreKeepsUp
    BasketFound
PROPERTIES
    ForexDayNeverGoesBack
    OneForexRunPerPeriod
    DueForexRefreshed
