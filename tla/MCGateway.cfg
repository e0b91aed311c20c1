\* Two requests of one session against one injection; an answer costs 1 to 3,
\* so that a session of 4 holds one or two answers.
SPECIFICATION Spec
CONSTANTS
    Requests = {r1, r2}
    Injectors = {i1}
    NoOne = NoOne
    Threads = 3
    DirectKinds = {"search"}
    OhttpKinds = {"stream"}
    Usages = {3}
    SearchPrice = 2
    Prices = {1, 2}
    Cap = 4
SYMMETRY Permuted
INVARIANTS
    TypeOK Reconciled FailureIsFree
PROPERTY SettledOnce
CHECK_DEADLOCK FALSE
