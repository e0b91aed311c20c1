\* Every kind of request on every route, one at a time, while two calls race to
\* inject the keys; no symmetry, since a liveness property is checked.
SPECIFICATION FairSpec
CONSTANTS
    Requests = {r1}
    Injectors = {i1, i2}
    NoOne = NoOne
    Threads = 2
    DirectKinds = {"chat", "stream", "search", "completion"}
    OhttpKinds = {"chat", "stream", "search"}
    Usages = {3}
    SearchPrice = 2
    Prices = {1, 2}
    Cap = 2
INVARIANTS
    NoSilentLoss LapseOnlyInFlight PaidAfterInjection InnerNeverChallenged InjectedOnce
PROPERTY EveryCallAnswered
CHECK_DEADLOCK FALSE
