\* A request against the injection of the keys.
SPECIFICATION Spec
CONSTANTS
    Requests = {r1}
    Injectors = {i1}
    NoOne = NoOne
    Threads = 2
    DirectKinds = {"chat"}
    OhttpKinds = {}
    Usages = {3}
    SearchPrice = 2
    Prices = {1}
    Cap = 4
INVARIANT NoUnpaidService
CHECK_DEADLOCK FALSE
