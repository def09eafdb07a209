\* Two overlapping calls, all from ordinary callers.
CONSTANTS
    c1 = c1
    c2 = c2
    e1 = e1
    e2 = e2
    Calls = {c1, c2}
    OrdinaryCallers = {user}
    PrivilegedCallers = {}
    Anonymous = anonymous
    Requests <- OverlappingRequests
    Symbols <- MCSymbols
    CleanSymbol <- MCCleanSymbol
    NoTimestamp = NoTimestamp
    CyclesAttached = {1000000000}
    PrivilegedCryptoAssets <- MCPrivilegedCryptoAssets
    Exchanges = {e1}
    StablecoinsServed <- MCStablecoinsServed
    Capacity = 1
    RequestCounterLimit = 9
    MinRatesForPrivileged = 2
    StartTime = 90
    TimeSteps = {60}
    MaxTime = 90
SPECIFICATION FairSpec
INVARIANTS
    OutcallsWithinCounter
    AssetsFetchedOnce
PROPERTIES
    ImplementsKeyLocks
    CallsReturn
    NothingStaysInflight
