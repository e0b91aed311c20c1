----------------------------- MODULE PriceFeed -----------------------------
(***************************************************************************)
(* The OPG/USD price feed: price_feed/feed.py, class OPGPriceFeed.          *)
(*                                                                         *)
(* Callers run start(), which may launch a background refresh thread; a    *)
(* thread is named after the call that created it.  Readers run            *)
(* get_price(), which the pricing gate and the cost calculation call.      *)
(*                                                                         *)
(* The price itself is abstracted to its age: the properties only tell     *)
(* apart how old the quote is that a request is billed at.  Time is        *)
(* discrete; a thread oversleeps, and a reader is preempted, by MaxLag     *)
(* units at most.                                                          *)
(***************************************************************************)
EXTENDS Naturals, FiniteSets

CONSTANTS
    Callers,          \* the calls of start()
    Readers,          \* the calls of get_price()
    NoThread,         \* self._thread is None
    MaxRetries,       \* DEFAULT_MAX_RETRIES: attempts in a refresh cycle
    RefreshInterval,  \* DEFAULT_REFRESH_INTERVAL: sleep between two cycles
    RetryDelay,       \* DEFAULT_RETRY_DELAY: sleep between two attempts
    StaleMaxAge,      \* STALE_PRICE_MAX_AGE: get_price() refuses older prices
    FetchMax,         \* bound: the longest one HTTP fetch takes
    MaxLag,           \* bound: the longest a due thread or a reader is held up
    MaxCount          \* bound: where the status counters saturate

VARIABLES
    thread,               \* self._thread
    startPc,              \* where each call of start() stands
    phase,                \* what each refresh thread does
    attempt,              \* the loop variable of _refresh_price
    timer,                \* time spent in the current phase
    hasPrice,             \* self._price is not None
    age,                  \* time since self.last_success (saturates at AgeCap)
    quoteLag,             \* how old the quote already was at last_success
    failed,               \* self.last_error is not None
    consecutiveFailures,  \* self.consecutive_failures
    totalFetches,         \* self.total_fetches
    totalErrors,          \* self.total_errors
    coingecko,            \* how CoinGecko answers at the moment
    preTGE,               \* the TGE cutover has not passed yet
    readPc, readLag,      \* a reader, and how long ago it read the clock
    answer                \* what its last get_price() returned

threadVars == <<thread, startPc>>
loopVars   == <<phase, attempt, timer>>
cacheVars  == <<hasPrice, age, quoteLag>>
statusVars == <<failed, consecutiveFailures, totalFetches, totalErrors>>
envVars    == <<coingecko, preTGE>>
readVars   == <<readPc, readLag, answer>>
vars == <<threadVars, loopVars, cacheVars, statusVars, envVars, readVars>>

----------------------------------------------------------------------------

Asleep == {"retry", "idle"}

\* How long a phase lasts: a fetch at most FetchMax, a sleep at least its delay.
Duration(p) == CASE p = "fetch" -> FetchMax
                 [] p = "retry" -> RetryDelay
                 [] p = "idle"  -> RefreshInterval

\* How long a phase may last before its thread must have moved on.
Limit(p) == IF p = "fetch" THEN FetchMax ELSE Duration(p) + MaxLag

\* One attempt and the sleep after it; the longest time between the ends of two cycles.
AttemptMax == FetchMax + RetryDelay + MaxLag
CycleMax   == RefreshInterval + MaxLag + MaxRetries * AttemptMax

AgeCap == StaleMaxAge + MaxLag + 1

ASSUME PriceFeedAssumption ==
    /\ Callers # {} /\ NoThread \notin Callers
    /\ MaxRetries \in Nat \ {0}
    /\ RefreshInterval \in Nat /\ RetryDelay \in Nat /\ StaleMaxAge \in Nat
    /\ FetchMax \in Nat /\ MaxLag \in Nat
    /\ MaxCount \in Nat
    /\ MaxCount * CycleMax > AgeCap  \* counters saturate after a price expires

Bump(n) == IF n < MaxCount THEN n + 1 ELSE n

Alive(t) == phase[t] # "none"

TypeOK ==
    /\ thread \in Callers \cup {NoThread}
    /\ startPc \in [Callers -> {"idle", "checked", "assigned", "done", "raised"}]
    /\ phase \in [Callers -> {"none", "fetch", "retry", "idle"}]
    /\ attempt \in [Callers -> 1..MaxRetries]
    /\ timer \in [Callers -> Nat]
    /\ hasPrice \in BOOLEAN
    /\ age \in 0..AgeCap
    /\ quoteLag \in Nat
    /\ failed \in BOOLEAN
    /\ consecutiveFailures \in 0..MaxCount
    /\ totalFetches \in 0..MaxCount
    /\ totalErrors \in 0..MaxCount
    /\ coingecko \in {"ok", "limit", "down"}
    /\ preTGE \in BOOLEAN
    /\ readPc \in [Readers -> {"idle", "clocked"}]
    /\ readLag \in [Readers -> 0..MaxLag]
    /\ answer \in [Readers -> {"none", "fallback", "price", "unavailable", "expired"}]

Init ==
    /\ thread = NoThread
    /\ startPc = [c \in Callers |-> "idle"]
    /\ phase = [c \in Callers |-> "none"]
    /\ attempt = [c \in Callers |-> 1]
    /\ timer = [c \in Callers |-> 0]
    /\ hasPrice = FALSE /\ age = 0 /\ quoteLag = 0
    /\ failed = FALSE
    /\ consecutiveFailures = 0 /\ totalFetches = 0 /\ totalErrors = 0
    /\ coingecko \in {"ok", "limit", "down"}
    /\ preTGE \in BOOLEAN
    /\ readPc = [r \in Readers |-> "idle"]
    /\ readLag = [r \in Readers |-> 0]
    /\ answer = [r \in Readers |-> "none"]

----------------------------------------------------------------------------
(* start(): the liveness check holds the lock, what follows it does not.    *)

StartCheck(c) ==
    /\ startPc[c] = "idle"
    /\ startPc' = [startPc EXCEPT ![c] =
                     IF thread # NoThread /\ Alive(thread) THEN "done" ELSE "checked"]
    /\ UNCHANGED <<thread, loopVars, cacheVars, statusVars, envVars, readVars>>

StartAssign(c) ==
    /\ startPc[c] = "checked"
    /\ thread' = c
    /\ startPc' = [startPc EXCEPT ![c] = "assigned"]
    /\ UNCHANGED <<loopVars, cacheVars, statusVars, envVars, readVars>>

Enter(t, p, a) ==
    /\ phase' = [phase EXCEPT ![t] = p]
    /\ attempt' = [attempt EXCEPT ![t] = a]
    /\ timer' = [timer EXCEPT ![t] = 0]

\* self._thread.start() reads the attribute again: it starts whichever thread
\* was assigned last, and raises RuntimeError when that one already runs.
StartRun(c) ==
    /\ startPc[c] = "assigned"
    /\ IF Alive(thread)
       THEN /\ startPc' = [startPc EXCEPT ![c] = "raised"]
            /\ UNCHANGED loopVars
       ELSE /\ startPc' = [startPc EXCEPT ![c] = "done"]
            /\ Enter(thread, "fetch", 1)
    /\ UNCHANGED <<thread, cacheVars, statusVars, envVars, readVars>>

----------------------------------------------------------------------------
(* _run_with_initial_fetch() and _refresh_price().                          *)

MutantFetchOk(t) ==     \* last_error survives a successful fetch
    /\ phase[t] = "fetch" /\ coingecko = "ok"
    /\ hasPrice' = TRUE /\ age' = 0
    /\ quoteLag' \in 0..timer[t]
    /\ consecutiveFailures' = 0
    /\ totalFetches' = Bump(totalFetches)
    /\ Enter(t, "idle", 1)
    /\ UNCHANGED <<failed, totalErrors, threadVars, envVars, readVars>>

FetchOk(t) ==
    /\ phase[t] = "fetch" /\ coingecko = "ok"
    /\ hasPrice' = TRUE /\ age' = 0
    /\ quoteLag' \in 0..timer[t]
    /\ failed' = FALSE
    /\ consecutiveFailures' = 0
    /\ totalFetches' = Bump(totalFetches)
    /\ Enter(t, "idle", 1)
    /\ UNCHANGED <<totalErrors, threadVars, envVars, readVars>>

\* The cycle is given up: the failure is recorded, the last known price kept.
RecordFailure(t) ==
    /\ failed' = TRUE
    /\ consecutiveFailures' = Bump(consecutiveFailures)
    /\ totalErrors' = Bump(totalErrors)
    /\ Enter(t, "idle", 1)
    /\ UNCHANGED <<totalFetches, cacheVars, threadVars, envVars, readVars>>

MutantFetchFail(t) ==     \* one attempt too many
    /\ phase[t] = "fetch" /\ coingecko = "down"
    /\ IF attempt[t] <= MaxRetries
       THEN /\ Enter(t, "retry", attempt[t])
            /\ UNCHANGED <<cacheVars, statusVars, threadVars, envVars, readVars>>
       ELSE RecordFailure(t)

FetchFail(t) ==
    /\ phase[t] = "fetch" /\ coingecko = "down"
    /\ IF attempt[t] < MaxRetries
       THEN /\ Enter(t, "retry", attempt[t])
            /\ UNCHANGED <<cacheVars, statusVars, threadVars, envVars, readVars>>
       ELSE RecordFailure(t)

MutantFetchRateLimited(t) ==     \* a 429 leaves the cycle without recording it
    /\ phase[t] = "fetch" /\ coingecko = "limit"
    /\ Enter(t, "idle", 1)
    /\ UNCHANGED <<cacheVars, statusVars, threadVars, envVars, readVars>>

MutantThreadDies(t) ==     \* a 429 escapes the loop and ends the thread
    /\ phase[t] = "fetch" /\ coingecko = "limit"
    /\ failed' = TRUE
    /\ consecutiveFailures' = Bump(consecutiveFailures)
    /\ totalErrors' = Bump(totalErrors)
    /\ Enter(t, "none", 1)
    /\ UNCHANGED <<totalFetches, cacheVars, threadVars, envVars, readVars>>

\* HTTP 429 breaks out of the attempts at once.
FetchRateLimited(t) ==
    /\ phase[t] = "fetch" /\ coingecko = "limit"
    /\ RecordFailure(t)

Wake(t) ==
    /\ phase[t] \in Asleep
    /\ timer[t] >= Duration(phase[t])
    /\ Enter(t, "fetch", IF phase[t] = "retry" THEN attempt[t] + 1 ELSE 1)
    /\ UNCHANGED <<cacheVars, statusVars, threadVars, envVars, readVars>>

----------------------------------------------------------------------------
(* get_price(): the clock is read first, the lock is taken after it.        *)

ReadClock(r) ==
    /\ readPc[r] = "idle"
    /\ IF preTGE
       THEN /\ answer' = [answer EXCEPT ![r] = "fallback"]
            /\ UNCHANGED <<readPc, readLag>>
       ELSE /\ readPc' = [readPc EXCEPT ![r] = "clocked"]
            /\ readLag' = [readLag EXCEPT ![r] = 0]
            /\ answer' = [answer EXCEPT ![r] = "none"]
    /\ UNCHANGED <<threadVars, loopVars, cacheVars, statusVars, envVars>>

MutantVerdict(r) ==     \* the age check only warns
    IF hasPrice THEN "price" ELSE "unavailable"

\* The age get_price() computes is age - readLag[r]: `now` is readLag[r] old.
Verdict(r) ==
    IF ~hasPrice THEN "unavailable"
    ELSE IF age > StaleMaxAge + readLag[r] THEN "expired" ELSE "price"

ReadPrice(r) ==
    /\ readPc[r] = "clocked"
    /\ answer' = [answer EXCEPT ![r] = Verdict(r)]
    /\ readPc' = [readPc EXCEPT ![r] = "idle"]
    /\ readLag' = [readLag EXCEPT ![r] = 0]
    /\ UNCHANGED <<threadVars, loopVars, cacheVars, statusVars, envVars>>

----------------------------------------------------------------------------
(* The environment: CoinGecko, the cutover date, and time.                  *)

CoinGeckoChanges ==
    /\ coingecko' \in {"ok", "limit", "down"} \ {coingecko}
    /\ UNCHANGED <<threadVars, loopVars, cacheVars, statusVars, preTGE, readVars>>

Cutover ==
    /\ preTGE /\ preTGE' = FALSE
    /\ UNCHANGED <<threadVars, loopVars, cacheVars, statusVars, coingecko, readVars>>

Tick ==
    /\ \A t \in Callers : Alive(t) => timer[t] < Limit(phase[t])
    /\ \A r \in Readers : readPc[r] = "clocked" => readLag[r] < MaxLag
    /\ timer' = [t \in Callers |-> IF Alive(t) THEN timer[t] + 1 ELSE timer[t]]
    /\ age' = IF hasPrice /\ age < AgeCap THEN age + 1 ELSE age
    /\ readLag' = [r \in Readers |->
                     IF readPc[r] = "clocked" THEN readLag[r] + 1 ELSE readLag[r]]
    /\ UNCHANGED <<threadVars, phase, attempt, hasPrice, quoteLag, statusVars, envVars,
                   readPc, answer>>

Start(c)   == StartCheck(c) \/ StartAssign(c) \/ StartRun(c)
Refresh(t) == FetchOk(t) \/ FetchFail(t) \/ FetchRateLimited(t) \/ Wake(t)
Read(r)    == ReadClock(r) \/ ReadPrice(r)

Next ==
    \/ \E c \in Callers : Start(c) \/ Refresh(c)
    \/ \E r \in Readers : Read(r)
    \/ CoinGeckoChanges
    \/ Cutover
    \/ Tick

Spec == Init /\ [][Next]_vars

\* The application calls start() when it is imported, its threads are scheduled
\* time passes and a get_price() that has begun returns; nothing is promised of
\* new readers, of CoinGecko or of the date.
Fairness ==
    /\ \A c \in Callers : WF_vars(Start(c)) /\ WF_vars(Refresh(c))
    /\ \A r \in Readers : WF_vars(ReadPrice(r))
    /\ WF_vars(Tick)

FairSpec == Spec /\ Fairness

----------------------------------------------------------------------------

\* The status /health reports is consistent, whatever threads race: an error is
\* shown exactly while the newest finished cycle failed, a price exactly after a
\* successful fetch, and the running count never exceeds the total
\* (_refresh_price updates each group under one lock).
StatusConsistent ==
    /\ failed <=> consecutiveFailures > 0
    /\ hasPrice <=> totalFetches > 0
    /\ consecutiveFailures <= totalErrors
    /\ totalErrors > 0 /\ ~failed => hasPrice

\* A price expires only at the end of an outage: while cycles keep succeeding
\* now and then, no schedule of sleeps, retries and 429s lets the price outlive
\* StaleMaxAge, so requests are refused for "expired" only after as many whole
\* failed cycles as fit into StaleMaxAge (get_price's age check against
\* _refresh_price's recording of failures).
ExpiredOnlyAfterOutage ==
    hasPrice => age <= (consecutiveFailures + 1) * CycleMax

\* What a request is billed at is never older than StaleMaxAge, plus the time the
\* fetch of the quote took, plus the time get_price() waited for the lock after
\* reading the clock (get_price reads `now` before `with self._lock`).
ServedFresh ==
    [][\A r \in Readers :
         readPc[r] = "clocked" /\ readPc'[r] = "idle" /\ answer'[r] = "price"
           => hasPrice /\ age + quoteLag <= StaleMaxAge + MaxLag + FetchMax]_vars

\* The feed recovers: once CoinGecko answers for good, prices are available for
\* good, whatever happened before, racing start() calls included.
RecoversForGood ==
    <>[](coingecko = "ok") => <>[](hasPrice /\ age <= StaleMaxAge)

\* start() says (feed.py, its docstring) that it is idempotent and that "the
\* check-and-start is performed under _lock": so one thread refreshes at most.
OneRefreshThread == Cardinality({t \in Callers : Alive(t)}) <= 1
=============================================================================
