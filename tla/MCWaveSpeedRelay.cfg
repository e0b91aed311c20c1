\* WaveSpeed alone, without references, in units of half a second; a query is answered at
\* once, in 1.5 s, or just before the client times out (pool, connect, write, read).
SPECIFICATION Spec
CONSTANTS
    Providers = {"task"}
    MaxRefs = 0
    MaxOutputs = 1
    PollInitial = 4
    PollMax = 10
    Deadline = 360
    MaxPollErrors = 3
    FetchAttempts = 4
    QueryTimes = {0, 3, 570}
    QueryMax = 570
    RelayTimeout = 420
    Horizon = 941
INVARIANT TimesOutInTime
CHECK_DEADLOCK FALSE
