CONSTANTS
    Callers = {c1, c2}
    Readers = {r1}
    NoThread = NoThread
    MaxRetries <- MC_MaxRetries
    RefreshInterval <- MC_RefreshInterval
    RetryDelay <- MC_RetryDelay
    StaleMaxAge <- MC_StaleMaxAge
    FetchMax <- MC_FetchMax
    MaxLag <- MC_MaxLag
    MaxCount <- MC_MaxCount
SPECIFICATION FairSpec
INVARIANTS TypeOK StatusConsistent ExpiredOnlyAfterOutage
PROPERTIES ServedFresh RecoversForGood
