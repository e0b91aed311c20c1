\* Two OHTTP requests of one session.
SPECIFICATION Spec
CONSTANTS
    Requests = {r1, r2}
    Injectors = {i1}
    NoOne = NoOne
    Threads = 3
    DirectKinds = {}
    OhttpKinds = {"chat"}
    Usages = {3}
    SearchPrice = 2
    Prices = {1}
    Cap = 4
INVARIANT HeaderIsCharge
CHECK_DEADLOCK FALSE
