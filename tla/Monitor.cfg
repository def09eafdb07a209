\* The monitor, a reader, and another caller of the exchange rate canister.
CONSTANTS
    h1 = h1
    h2 = h2
    cmc = cmc
    MonitoredPairs <- MCPairs
    Heartbeats = {h1, h2}
    Others = {cmc}
    PrivilegedCallers = {cmc}
    Results = {"Rate", "RateLimited"}
    MAX_PRIVILEGED_REQUEST_LOG_ENTRIES = 1
    MAX_NONPRIVILEGED_REQUEST_LOG_ENTRIES = 1
    SizeOf <- MCSizeOf
    LogCapacity = 5
    USIZE = 1000
    Limits <- MCLimits
    Moments <- MCMoments
    MaxOtherRequests = 1
    MaxTraps = 1
    MaxUpgrades = 1
SPECIFICATION FairSpec
INVARIANTS
    TypeOK
    LogInOrder
    PagesMatchLog
    CountersMatchLogs
PROPERTY SamplingGoesOn
