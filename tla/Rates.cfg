\* From trades and documents to quotes.
CONSTANTS
    r1 = r1
    r2 = r2
    Replicas = {r1, r2}
    Quorum = 2
    DECIMALS <- MCDecimals
    WORD <- MCWord
    Requests <- MCRequests
    ReceivedRates <- MCReceivedRates
    PastTrades <- MCPastTrades
    LivePrices <- MCLivePrices
    MaxTrades = 2
    MaxTime = 690
    Worth <- MCWorth
SPECIFICATION Spec
INVARIANTS
    TypeOK
    ClosedWindowsAgree
    RatesAreRecent
    MetricsMatchRates
    BankRatesMatchWorth
    MajorityDecides
    QuoteWithinSources
    AgreementRequired
    DeviationExact
\* A request that is answered is the end.
CHECK_DEADLOCK FALSE
