-------------------------- MODULE PriceFeedProofs --------------------------
(***************************************************************************)
(* What PriceFeed guarantees for every number of start() calls and readers *)
(* and every choice of intervals, delays and bounds.                       *)
(***************************************************************************)
EXTENDS PriceFeed, TLAPS

\* The time a refresh thread can at most have spent since its last cycle ended.
Elapsed(t) ==
    CASE phase[t] = "idle"  -> timer[t]
      [] phase[t] = "fetch" -> RefreshInterval + MaxLag
                                 + (attempt[t] - 1) * AttemptMax + timer[t]
      [] phase[t] = "retry" -> RefreshInterval + MaxLag
                                 + (attempt[t] - 1) * AttemptMax + FetchMax + timer[t]

TimersInLimit ==
    \A t \in Callers : Alive(t) => timer[t] <= Limit(phase[t])

RetriesLeft ==
    \A t \in Callers : phase[t] = "retry" => attempt[t] < MaxRetries

\* Thread t vouches for the age of the price: every cycle that ended since the
\* last success failed and was counted.
Vouches(t) ==
    Alive(t) /\ age <= consecutiveFailures * CycleMax + Elapsed(t)

SomeThreadVouches == hasPrice => \E t \in Callers : Vouches(t)


----------------------------------------------------------------------------

\* The constants are naturals, and so are the durations built from them.
LEMMA ConstantTypes ==
    /\ MaxRetries \in Nat /\ 1 \in 1..MaxRetries
    /\ RefreshInterval \in Nat /\ RetryDelay \in Nat /\ StaleMaxAge \in Nat
    /\ FetchMax \in Nat /\ MaxLag \in Nat /\ MaxCount \in Nat
    /\ AttemptMax \in Nat /\ CycleMax \in Nat /\ AgeCap \in Nat
<1>1. AttemptMax \in Nat
  BY PriceFeedAssumption DEF AttemptMax
<1>2. MaxRetries * AttemptMax \in Nat
  BY <1>1, PriceFeedAssumption
<1>3. CycleMax \in Nat /\ AgeCap \in Nat
  BY <1>2, PriceFeedAssumption DEF CycleMax, AgeCap
<1> QED  BY <1>1, <1>3, PriceFeedAssumption

\* A counter that is capped stays within its bound.
LEMMA BumpType == \A n \in 0..MaxCount : Bump(n) \in 0..MaxCount
  BY ConstantTypes DEF Bump

----------------------------------------------------------------------------

\* What the types need to be inductive: a retry follows only an attempt that was
\* not the last, and time does not pass a phase's limit.
TypeInv == TypeOK /\ RetriesLeft /\ TimersInLimit

\* Every reachable state satisfies it (price_feed.py 91-246).
LEMMA TypeInvariant == Spec => []TypeInv
<1> USE ConstantTypes DEF TypeInv
<1>1. Init => TypeInv
  <2> SUFFICES ASSUME Init PROVE TypeInv
    OBVIOUS
  <2>1. \A t \in Callers : phase[t] = "none"
    BY DEF Init
  <2>2. hasPrice \in BOOLEAN /\ failed \in BOOLEAN /\ preTGE \in BOOLEAN
    BY Zenon DEF Init
  <2>3. TypeOK
    BY <2>2 DEF Init, TypeOK
  <2> QED  BY <2>1, <2>3 DEF RetriesLeft, TimersInLimit, Alive
<1>2. TypeInv /\ [Next]_vars => TypeInv'
  <2> SUFFICES ASSUME TypeInv, [Next]_vars PROVE TypeInv'
    OBVIOUS
  <2> USE DEF TypeOK, RetriesLeft, TimersInLimit, Alive, Enter,
              threadVars, loopVars, cacheVars, statusVars, envVars, readVars
  <2>1. ASSUME NEW c \in Callers, Start(c) PROVE TypeInv'
    <3>1. CASE StartCheck(c)
      BY <3>1 DEF StartCheck
    <3>2. CASE StartAssign(c)
      BY <3>2 DEF StartAssign
    <3>3. CASE StartRun(c)
      BY <3>3 DEF StartRun, Limit
    <3> QED  BY <2>1, <3>1, <3>2, <3>3 DEF Start
  <2>2. ASSUME NEW t \in Callers, FetchOk(t) PROVE TypeInv'
    <3>1. quoteLag' \in Nat
      BY <2>2 DEF FetchOk
    <3>2. 0 <= Limit("idle")
      BY DEF Limit, Duration
    <3>3. hasPrice' \in BOOLEAN /\ failed' \in BOOLEAN
      BY <2>2, Zenon DEF FetchOk
    <3>4. TypeOK'
      BY <2>2, <3>1, <3>3, BumpType DEF FetchOk
    <3>5. RetriesLeft' /\ TimersInLimit'
      BY <2>2, <3>2 DEF FetchOk
    <3> QED  BY <3>4, <3>5
  <2>3. ASSUME NEW t \in Callers, FetchFail(t) \/ FetchRateLimited(t) PROVE TypeInv'
    <3>1. 0 <= Limit("idle") /\ 0 <= Limit("retry")
      BY DEF Limit, Duration
    <3> USE DEF FetchFail, FetchRateLimited, RecordFailure
    <3>2. failed' \in BOOLEAN
      BY <2>3, Zenon
    <3>3. TypeOK'
      BY <2>3, <3>2, BumpType
    <3>4. RetriesLeft' /\ TimersInLimit'
      BY <2>3, <3>1
    <3> QED  BY <3>3, <3>4
  <2>4. ASSUME NEW t \in Callers, Wake(t) PROVE TypeInv'
    BY <2>4 DEF Wake, Asleep, Limit
  <2>5. ASSUME NEW r \in Readers, Read(r) PROVE TypeInv'
    BY <2>5 DEF Read, ReadClock, ReadPrice, Verdict
  <2>6. CASE CoinGeckoChanges \/ Cutover
    BY <2>6 DEF CoinGeckoChanges, Cutover
  <2>7. CASE Tick
    <3>1. \A p \in {"fetch", "retry", "idle"} : Limit(p) \in Nat
      BY DEF Limit, Duration
    <3> QED  BY <2>7, <3>1 DEF Tick
  <2>8. CASE UNCHANGED vars
    BY <2>8 DEF vars
  <2> QED
    BY <2>1, <2>2, <2>3, <2>4, <2>5, <2>6, <2>7, <2>8 DEF Next, Refresh
<1> QED  BY <1>1, <1>2, PTL DEF Spec

\* Every variable keeps its type, whatever races with whatever.
THEOREM TypeCorrect == Spec => []TypeOK
  BY TypeInvariant, PTL DEF TypeInv

----------------------------------------------------------------------------

\* The status fields of /health agree with each other after every step, because
\* _refresh_price changes the ones an outcome concerns under one lock.
THEOREM StatusIsConsistent == Spec => []StatusConsistent
<1> USE ConstantTypes DEF StatusConsistent
<1>1. Init => StatusConsistent
  BY DEF Init
<1>2. TypeInv /\ StatusConsistent /\ [Next]_vars => StatusConsistent'
  <2> SUFFICES ASSUME TypeInv, StatusConsistent, [Next]_vars PROVE StatusConsistent'
    OBVIOUS
  <2> USE DEF TypeInv, TypeOK
  <2>1. ASSUME NEW t \in Callers, FetchOk(t) PROVE StatusConsistent'
    BY <2>1, PriceFeedAssumption DEF FetchOk, Bump
  <2>2. ASSUME NEW t \in Callers, RecordFailure(t) PROVE StatusConsistent'
    BY <2>2, PriceFeedAssumption DEF RecordFailure, Bump, cacheVars
  <2>3. CASE UNCHANGED <<statusVars, hasPrice>>
    BY <2>3 DEF statusVars
  <2>4. [Next]_vars =>
          \/ \E t \in Callers : FetchOk(t) \/ RecordFailure(t)
          \/ UNCHANGED <<statusVars, hasPrice>>
    BY DEF Next, Start, StartCheck, StartAssign, StartRun, Refresh, FetchFail,
           FetchRateLimited, Wake, Read, ReadClock, ReadPrice, CoinGeckoChanges,
           Cutover, Tick, cacheVars, vars
  <2> QED  BY <2>1, <2>2, <2>3, <2>4
<1> QED  BY <1>1, <1>2, TypeInvariant, PTL DEF Spec

----------------------------------------------------------------------------

\* What the outcome of a step is, for the argument about the price's age.
LEMMA CycleEnd ==
    TypeInv => \A t \in Callers : Alive(t) => Elapsed(t) \in Nat /\ Elapsed(t) <= CycleMax
<1> SUFFICES ASSUME TypeInv, NEW t \in Callers, Alive(t)
             PROVE  Elapsed(t) \in Nat /\ Elapsed(t) <= CycleMax
  OBVIOUS
<1> USE ConstantTypes DEF TypeInv, TypeOK
<1> DEFINE done == (attempt[t] - 1) * AttemptMax
<1>1. timer[t] \in Nat /\ timer[t] <= Limit(phase[t])
  BY DEF TimersInLimit
<1>2. attempt[t] - 1 \in Nat /\ attempt[t] <= MaxRetries
  OBVIOUS
<1>3. done \in Nat /\ done + AttemptMax = attempt[t] * AttemptMax
  BY <1>2
<1>4. attempt[t] * AttemptMax <= MaxRetries * AttemptMax /\ MaxRetries * AttemptMax \in Nat
  BY <1>2
<1>5. AttemptMax = FetchMax + RetryDelay + MaxLag
  BY DEF AttemptMax
<1>6. CycleMax = RefreshInterval + MaxLag + MaxRetries * AttemptMax
  BY DEF CycleMax
<1> HIDE DEF done
<1>7. CASE phase[t] = "idle"
  BY <1>1, <1>4, <1>6, <1>7 DEF Elapsed, Limit, Duration
<1>8. CASE phase[t] = "fetch"
  <2>1. Elapsed(t) = RefreshInterval + MaxLag + done + timer[t]
    BY <1>8 DEF Elapsed, done
  <2>2. timer[t] <= FetchMax
    BY <1>1, <1>8 DEF Limit
  <2> QED  BY <2>1, <2>2, <1>1, <1>3, <1>4, <1>5, <1>6
<1>9. CASE phase[t] = "retry"
  <2>1. Elapsed(t) = RefreshInterval + MaxLag + done + FetchMax + timer[t]
    BY <1>9 DEF Elapsed, done
  <2>2. timer[t] <= RetryDelay + MaxLag
    BY <1>1, <1>9 DEF Limit, Duration
  <2> QED  BY <2>1, <2>2, <1>1, <1>3, <1>4, <1>5, <1>6
<1> QED  BY <1>7, <1>8, <1>9 DEF Alive

\* A step in which no fetch succeeds and no cycle ends lets no voucher lapse.
LEMMA VoucherKept ==
    ASSUME TypeInv, NEW t \in Callers, Vouches(t), consecutiveFailures' = consecutiveFailures,
           \/ UNCHANGED <<loopVars, age>>
           \/ \E u \in Callers : Wake(u)
           \/ \E u \in Callers : Enter(u, "retry", attempt[u]) /\ phase[u] = "fetch"
                                   /\ UNCHANGED age
           \/ \E c \in Callers : StartRun(c)
           \/ Tick
    PROVE  Vouches(t)'
<1> USE ConstantTypes DEF TypeInv, TypeOK, Vouches
<1> DEFINE sum == consecutiveFailures * CycleMax
           done == (attempt[t] - 1) * AttemptMax
<1>1. sum \in Nat /\ sum' = sum
  OBVIOUS
<1>2. done \in Nat /\ done + AttemptMax = attempt[t] * AttemptMax
  OBVIOUS
<1>3. timer[t] \in Nat /\ timer[t] <= Limit(phase[t]) /\ Elapsed(t) \in Nat
  BY CycleEnd DEF TimersInLimit
<1>4. AttemptMax = FetchMax + RetryDelay + MaxLag
  BY DEF AttemptMax
<1>5. age <= sum + Elapsed(t) /\ Alive(t)
  OBVIOUS
<1>6. SUFFICES Alive(t)' /\ age' <= sum + Elapsed(t)'
  BY <1>1
<1> HIDE DEF sum
<1>7. CASE UNCHANGED <<loopVars, age>>
  BY <1>5, <1>7 DEF Alive, Elapsed, loopVars
<1>8. ASSUME NEW u \in Callers, Wake(u) PROVE Alive(t)' /\ age' <= sum + Elapsed(t)'
  <2>1. age' = age /\ (u # t => UNCHANGED <<phase[t], attempt[t], timer[t]>>)
    BY <1>8 DEF Wake, Enter, cacheVars
  <2>2. CASE u # t
    BY <2>1, <2>2, <1>5 DEF Alive, Elapsed
  <2>3. CASE u = t /\ phase[t] = "idle"
    <3>1. timer[t] <= RefreshInterval + MaxLag /\ Elapsed(t) = timer[t]
      BY <2>3, <1>3 DEF Limit, Duration, Elapsed
    <3>2. phase'[t] = "fetch" /\ attempt'[t] = 1 /\ timer'[t] = 0
      BY <1>8, <2>3 DEF Wake, Enter
    <3>3. Elapsed(t)' = RefreshInterval + MaxLag
      BY <3>2 DEF Elapsed
    <3> QED  BY <2>1, <3>1, <3>2, <3>3, <1>1, <1>5 DEF Alive
  <2>4. CASE u = t /\ phase[t] = "retry"
    <3>1. timer[t] <= RetryDelay + MaxLag
      BY <2>4, <1>3 DEF Limit, Duration
    <3>2. Elapsed(t) = RefreshInterval + MaxLag + done + FetchMax + timer[t]
      BY <2>4 DEF Elapsed
    <3>3. phase'[t] = "fetch" /\ attempt'[t] = attempt[t] + 1 /\ timer'[t] = 0
      BY <1>8, <2>4 DEF Wake, Enter
    <3>4. Elapsed(t)' = RefreshInterval + MaxLag + attempt[t] * AttemptMax
      BY <3>3 DEF Elapsed
    <3>5. attempt[t] * AttemptMax = done + FetchMax + RetryDelay + MaxLag
      BY <1>2, <1>4
    <3> HIDE DEF done
    <3> QED  BY <2>1, <3>1, <3>2, <3>3, <3>4, <3>5, <1>1, <1>2, <1>3, <1>5 DEF Alive
  <2> QED  BY <2>2, <2>3, <2>4, <1>8 DEF Wake, Asleep
<1>9. ASSUME NEW u \in Callers, Enter(u, "retry", attempt[u]), phase[u] = "fetch", UNCHANGED age
      PROVE  Alive(t)' /\ age' <= sum + Elapsed(t)'
  <2>1. CASE u # t
    BY <1>9, <2>1, <1>5 DEF Enter, Alive, Elapsed
  <2>2. CASE u = t
    <3>1. timer[t] <= FetchMax /\ Elapsed(t) = RefreshInterval + MaxLag + done + timer[t]
      BY <1>9, <2>2, <1>3 DEF Limit, Elapsed
    <3>2. phase'[t] = "retry" /\ attempt'[t] = attempt[t] /\ timer'[t] = 0
      BY <1>9, <2>2 DEF Enter
    <3>3. Elapsed(t)' = RefreshInterval + MaxLag + done + FetchMax
      BY <3>2 DEF Elapsed
    <3> HIDE DEF done
    <3> QED  BY <3>1, <3>2, <3>3, <1>1, <1>2, <1>3, <1>5, <1>9 DEF Alive
  <2> QED  BY <2>1, <2>2
<1>10. ASSUME NEW c \in Callers, StartRun(c) PROVE Alive(t)' /\ age' <= sum + Elapsed(t)'
  <2>1. age' = age /\ UNCHANGED <<phase[t], attempt[t], timer[t]>>
    BY <1>10, <1>5 DEF StartRun, Enter, Alive, cacheVars, loopVars
  <2> QED  BY <2>1, <1>5 DEF Alive, Elapsed
<1>11. CASE Tick
  <2>1. phase' = phase /\ attempt' = attempt /\ timer'[t] = timer[t] + 1
    BY <1>5, <1>11 DEF Tick
  <2>2. age' <= age + 1 /\ age' \in Nat
    BY <1>11 DEF Tick
  <2>3. Elapsed(t)' = Elapsed(t) + 1
    <3>1. CASE phase[t] = "idle"
      BY <3>1, <2>1 DEF Elapsed
    <3>2. CASE phase[t] = "fetch"
      <4>1. Elapsed(t) = RefreshInterval + MaxLag + done + timer[t]
        BY <3>2 DEF Elapsed
      <4>2. Elapsed(t)' = RefreshInterval + MaxLag + done + timer'[t]
        BY <3>2, <2>1 DEF Elapsed
      <4> HIDE DEF done
      <4> QED  BY <4>1, <4>2, <2>1, <1>2, <1>3
    <3>3. CASE phase[t] = "retry"
      <4>1. Elapsed(t) = RefreshInterval + MaxLag + done + FetchMax + timer[t]
        BY <3>3 DEF Elapsed
      <4>2. Elapsed(t)' = RefreshInterval + MaxLag + done + FetchMax + timer'[t]
        BY <3>3, <2>1 DEF Elapsed
      <4> HIDE DEF done
      <4> QED  BY <4>1, <4>2, <2>1, <1>2, <1>3
    <3> QED  BY <3>1, <3>2, <3>3, <1>5 DEF Alive
  <2> QED  BY <2>1, <2>2, <2>3, <1>1, <1>3, <1>5 DEF Alive
<1> QED  BY <1>7, <1>8, <1>9, <1>10, <1>11

\* Every step leaves some thread that vouches for the price.
LEMMA SomeThreadVouchesStep ==
    TypeInv /\ SomeThreadVouches /\ [Next]_vars => SomeThreadVouches'
<1> SUFFICES ASSUME TypeInv, SomeThreadVouches, [Next]_vars, hasPrice'
             PROVE  \E t \in Callers : Vouches(t)'
  BY DEF SomeThreadVouches
<1> USE ConstantTypes DEF TypeInv, TypeOK
<1>1. ASSUME NEW t \in Callers, FetchOk(t) PROVE Vouches(t)'
  BY <1>1 DEF FetchOk, Enter, Vouches, Alive, Elapsed
<1>2. ASSUME ~ \E t \in Callers : FetchOk(t) PROVE \E t \in Callers : Vouches(t)'
  <2>1. hasPrice' = hasPrice
    BY <1>2 DEF Next, Start, StartCheck, StartAssign, StartRun, Refresh, FetchFail,
           FetchRateLimited, RecordFailure, Wake, Read, ReadClock, ReadPrice,
           CoinGeckoChanges, Cutover, Tick, cacheVars, vars
  <2>2. PICK t \in Callers : Vouches(t)
    BY <2>1 DEF SomeThreadVouches
  <2>3. ASSUME NEW u \in Callers, RecordFailure(u), phase[u] = "fetch" PROVE Vouches(t)'
    <3> DEFINE sum == consecutiveFailures * CycleMax
    <3>1. age <= sum + Elapsed(t) /\ Alive(t) /\ Elapsed(t) \in Nat /\ Elapsed(t) <= CycleMax
      BY <2>2, CycleEnd DEF Vouches
    <3>2. age' = age /\ consecutiveFailures' = Bump(consecutiveFailures)
      BY <2>3 DEF RecordFailure, cacheVars
    <3>3. Alive(t)' /\ Elapsed(t)' \in Nat /\ (u # t => Elapsed(t)' = Elapsed(t))
      <4>1. CASE u # t
        BY <2>3, <4>1, <3>1 DEF RecordFailure, Enter, Alive, Elapsed
      <4>2. CASE u = t
        BY <2>3, <4>2 DEF RecordFailure, Enter, Alive, Elapsed
      <4> QED  BY <4>1, <4>2
    <3>4. CASE consecutiveFailures < MaxCount
      <4>1. consecutiveFailures' = consecutiveFailures + 1
        BY <3>2, <3>4 DEF Bump
      <4>2. consecutiveFailures' * CycleMax = sum + CycleMax /\ sum \in Nat
        BY <4>1
      <4> HIDE DEF sum
      <4> QED  BY <4>2, <3>1, <3>2, <3>3 DEF Vouches
    <3>5. CASE consecutiveFailures = MaxCount
      <4>1. consecutiveFailures' = MaxCount
        BY <3>2, <3>5 DEF Bump
      <4>2. consecutiveFailures' * CycleMax > AgeCap /\ consecutiveFailures' * CycleMax \in Nat
        BY <4>1, PriceFeedAssumption
      <4> QED  BY <4>2, <3>2, <3>3 DEF Vouches
    <3> QED  BY <3>4, <3>5
  <2>4. ASSUME ~ \E u \in Callers : phase[u] = "fetch" /\ RecordFailure(u)
        PROVE  Vouches(t)'
    <3>1. consecutiveFailures' = consecutiveFailures
      BY <1>2, <2>4 DEF Next, Start, StartCheck, StartAssign, StartRun, Refresh, FetchFail,
             FetchRateLimited, Wake, Read, ReadClock, ReadPrice, CoinGeckoChanges,
             Cutover, Tick, statusVars, vars
    <3>2. \/ UNCHANGED <<loopVars, age>>
          \/ \E u \in Callers : Wake(u)
          \/ \E u \in Callers : Enter(u, "retry", attempt[u]) /\ phase[u] = "fetch"
                                  /\ UNCHANGED age
          \/ \E c \in Callers : StartRun(c)
          \/ Tick
      BY <1>2, <2>4 DEF Next, Start, StartCheck, StartAssign, Refresh, FetchFail,
             FetchRateLimited, Read, ReadClock, ReadPrice, CoinGeckoChanges,
             Cutover, cacheVars, loopVars, vars
    <3> QED  BY <2>2, <3>1, <3>2, VoucherKept
  <2> QED  BY <2>2, <2>3, <2>4
<1> QED  BY <1>1, <1>2

\* A price expires only after as many consecutive failed cycles as fit into its
\* age: requests are refused as unpriceable only in a real, recorded outage.
THEOREM ExpiryNeedsOutage == Spec => []ExpiredOnlyAfterOutage
<1>1. Init => SomeThreadVouches
  BY DEF Init, SomeThreadVouches
<1>2. TypeInv /\ SomeThreadVouches => ExpiredOnlyAfterOutage
  <2> SUFFICES ASSUME TypeInv, SomeThreadVouches, hasPrice
               PROVE  age <= (consecutiveFailures + 1) * CycleMax
    BY DEF ExpiredOnlyAfterOutage
  <2> USE ConstantTypes DEF TypeInv, TypeOK
  <2>1. PICK t \in Callers : Vouches(t)
    BY DEF SomeThreadVouches
  <2>2. Elapsed(t) \in Nat /\ Elapsed(t) <= CycleMax
    BY <2>1, CycleEnd DEF Vouches
  <2>3. (consecutiveFailures + 1) * CycleMax = consecutiveFailures * CycleMax + CycleMax
    OBVIOUS
  <2>4. consecutiveFailures * CycleMax \in Nat
    OBVIOUS
  <2> QED  BY <2>1, <2>2, <2>3, <2>4 DEF Vouches
<1> QED  BY <1>1, <1>2, SomeThreadVouchesStep, TypeInvariant, PTL DEF Spec

----------------------------------------------------------------------------

\* No request is billed at a quote older than StaleMaxAge plus the two delays
\* get_price() cannot see: the fetch of the quote and the wait for the lock.
THEOREM PricesAreFresh == Spec => ServedFresh
<1> DEFINE QuoteInv == quoteLag \in Nat /\ quoteLag <= FetchMax
           Fresh == \A r \in Readers :
                       readPc[r] = "clocked" /\ readPc'[r] = "idle" /\ answer'[r] = "price"
                         => hasPrice /\ age + quoteLag <= StaleMaxAge + MaxLag + FetchMax
<1> USE ConstantTypes
<1>1. Init => QuoteInv
  BY DEF Init
<1>2. TypeInv /\ QuoteInv /\ [Next]_vars => QuoteInv'
  <2> SUFFICES ASSUME TypeInv, QuoteInv, [Next]_vars PROVE QuoteInv'
    OBVIOUS
  <2>1. ASSUME NEW t \in Callers, FetchOk(t) PROVE QuoteInv'
    BY <2>1 DEF FetchOk, TypeInv, TypeOK, TimersInLimit, Alive, Limit
  <2>2. ASSUME ~ \E t \in Callers : FetchOk(t) PROVE UNCHANGED quoteLag
    BY <2>2 DEF Next, Start, StartCheck, StartAssign, StartRun, Refresh, FetchFail,
           FetchRateLimited, RecordFailure, Wake, Read, ReadClock, ReadPrice,
           CoinGeckoChanges, Cutover, Tick, cacheVars, vars
  <2> QED  BY <2>1, <2>2
<1>3. TypeInv /\ QuoteInv /\ [Next]_vars => [Fresh]_vars
  <2> SUFFICES ASSUME TypeInv, QuoteInv, Next, NEW r \in Readers, readPc[r] = "clocked",
                      readPc'[r] = "idle", answer'[r] = "price"
               PROVE  hasPrice /\ age + quoteLag <= StaleMaxAge + MaxLag + FetchMax
    BY DEF vars
  <2>1. ReadPrice(r)
    BY DEF Next, Start, StartCheck, StartAssign, StartRun, Refresh, FetchOk, FetchFail,
           FetchRateLimited, RecordFailure, Wake, Read, ReadClock, ReadPrice,
           CoinGeckoChanges, Cutover, Tick, readVars, TypeInv, TypeOK
  <2>2. hasPrice /\ age <= StaleMaxAge + readLag[r]
    BY <2>1 DEF ReadPrice, Verdict, TypeInv, TypeOK
  <2> QED  BY <2>2 DEF TypeInv, TypeOK
<1> QED  BY <1>1, <1>2, <1>3, TypeInvariant, PTL DEF Spec, ServedFresh
=============================================================================
