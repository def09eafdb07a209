\* Overlapping privileged calls remove each other's keys.
CONSTANTS
    c1 = c1
    c2 = c2
    e1 = e1
    e2 = e2
    Calls = {c1, c2}
    OrdinaryCallers = {user}
    PrivilegedCallers = {cmc}
    Anonymous = anonymous
    Requests <- SamePairTwice
    Symbols <- MCSymbols
    CleanSymbol <- MCCleanSymbol
    NoTimestamp = NoTimestamp
    CyclesAttached = {1000000000}
    PrivilegedCryptoAssets <- MCPrivilegedCryptoAssets
    Exchanges = {e1}
    StablecoinsServed <- MCStablecoinsServed
    Capacity = 3
    RequestCounterLimit = 2
    MinRatesForPrivileged = 2
    StartTime = 90
    TimeSteps = {60}
    MaxTime = 90
SPECIFICATION Spec
INVARIANT FetchedAssetsTracked
