-------------------------- MODULE WaveSpeedProofs --------------------------
(***************************************************************************)
(* What a request for images guarantees for all delays, deadlines, retry    *)
(* counts and durations of a query.                                        *)
(***************************************************************************)
EXTENDS WaveSpeed, TLAPS

\* What the proofs use of the assumption on the constants.
LEMMA ConstantTypes ==
    /\ Providers \subseteq {"task", "call"}
    /\ MaxRefs \in Nat /\ MaxOutputs \in Nat /\ Deadline \in Nat /\ QueryMax \in Nat
    /\ Horizon \in Nat /\ PollInitial \in Nat /\ PollMax \in Nat /\ PollInitial <= PollMax
    /\ MaxPollErrors \in Nat \ {0} /\ FetchAttempts \in Nat \ {0}
    /\ QueryTimes \subseteq 0..QueryMax
  BY WaveSpeedAssumption

\* What \div means for 2.
LEMMA Halves ==
    ASSUME NEW a \in Nat
    PROVE  a \div 2 \in Nat
  OBVIOUS

\* The next delay is at most PollMax.
LEMMA DelayType ==
    ASSUME NEW d \in Nat
    PROVE  Least((d * 3) \div 2, PollMax) \in 0..PollMax
  BY ConstantTypes, Halves DEF Least

----------------------------------------------------------------------------

\* Before there is a prediction nothing has happened; while it is polled, nobody
\* has left.
StageInv ==
    /\ pc \in {"upload", "post"} =>
         now = 0 /\ streak = 0 /\ prediction = "none"
    /\ pc \notin {"fetch", "delete", "done"} => usable = 0
    /\ pc = "upload" => refs > 0
    /\ pc \in {"upload", "sleep", "query", "delete"} => provider = "task"
    /\ pc \notin {"delete", "done"} => result = "none"
    /\ pc # "done" => why \subseteq {"polls", "refused"}
    /\ pc \notin {"delete", "done"} => why = {}

ClockInv ==
    /\ pc = "sleep" => now <= Deadline
    /\ pc = "query" => now <= Deadline + PollMax
    /\ WaitBounded

ErrorInv ==
    /\ pollErrors = streak
    /\ pc \in {"upload", "post", "sleep", "query"} => streak < MaxPollErrors
    /\ BlipsForgiven

RemoteInv ==
    /\ provider = "call" => prediction = "none"
    /\ prediction = "deleted" => pc = "done"
    /\ NothingKeptSilently

OutputInv ==
    /\ images <= usable /\ usable - images <= outputs
    /\ result = "images" => outputs = 0 /\ pc \in {"delete", "done"}

Inv == TypeOK /\ StageInv /\ ClockInv /\ ErrorInv /\ RemoteInv /\ OutputInv

\* The invariant holds throughout: one step per action.
LEMMA Invariant == Spec => []Inv
<1> USE ConstantTypes
<1>1. Init => Inv
  <2> SUFFICES ASSUME Init PROVE Inv
    OBVIOUS
  <2>1. closed \in BOOLEAN
    BY Zenon DEF Init
  <2>2. TypeOK
    BY <2>1 DEF Init, TypeOK, Marks
  <2> QED
    BY <2>2 DEF Init, Inv, StageInv, ClockInv, WaitBounded, ErrorInv, BlipsForgiven, RemoteInv,
                NothingKeptSilently, OutputInv, TypeOK
<1>2. Inv /\ [Next]_vars => Inv'
  <2> SUFFICES ASSUME Inv, [Next]_vars PROVE Inv'
    OBVIOUS
  <2> USE DEF Inv, TypeOK, Marks, StageInv, ClockInv, WaitBounded, ErrorInv, BlipsForgiven,
              RemoteInv, NothingKeptSilently, OutputInv, Leave, Gather, Pass, Least,
              pollVars, fetchVars
  <2>1. CASE UploadRef
    BY <2>1 DEF UploadRef
  <2>2. CASE Submit
    <3>1. TypeOK'
      BY <2>2 DEF Submit
    <3>2. StageInv'
      BY <2>2 DEF Submit
    <3>3. ClockInv' /\ ErrorInv' /\ OutputInv'
      BY <2>2 DEF Submit
    <3>4. RemoteInv'
      BY <2>2 DEF Submit
    <3> QED  BY <3>1, <3>2, <3>3, <3>4
  <2>3. CASE Call
    BY <2>3 DEF Call
  <2>4. CASE Sleep
    BY <2>4 DEF Sleep
  <2>5. ASSUME Query, GoOn
        PROVE  /\ now' \in 0..Horizon /\ now' <= Deadline + PollMax + QueryMax
               /\ delay' \in 0..PollMax
               /\ \/ pc' = "sleep" /\ result' = result /\ now' <= Deadline
                  \/ pc' = "delete" /\ result' = "timeout"
    BY <2>5, DelayType DEF Query, GoOn
  <2>6. CASE QueryAnswered
    <3>1. TypeOK'
      BY <2>5, <2>6 DEF QueryAnswered, Query
    <3>2. StageInv'
      BY <2>5, <2>6 DEF QueryAnswered, Query
    <3>3. ClockInv'
      BY <2>5, <2>6 DEF QueryAnswered, Query
    <3>5. ErrorInv'
      BY <2>6 DEF QueryAnswered, Query
    <3>6. OutputInv'
      BY <2>5, <2>6 DEF QueryAnswered, Query
    <3>4. RemoteInv'
      BY <2>5, <2>6 DEF QueryAnswered, Query
    <3> QED  BY <3>1, <3>2, <3>3, <3>4, <3>5, <3>6
  <2>7. CASE QueryTransient
    <3>1. TypeOK'
      <4>1. pollErrors' \in 0..MaxPollErrors /\ streak' \in 0..MaxPollErrors
        BY <2>7 DEF QueryTransient, Query
      <4>2. /\ now' \in 0..Horizon /\ delay' \in 0..PollMax
            /\ pc' \in {"sleep", "delete"} /\ result' \in {"none", "error", "timeout"}
        BY <2>5, <2>7 DEF QueryTransient, Query
      <4> QED  BY <2>7, <4>1, <4>2 DEF QueryTransient
    <3>2. StageInv'
      BY <2>5, <2>7 DEF QueryTransient, Query
    <3>3. ClockInv' /\ ErrorInv' /\ OutputInv'
      BY <2>5, <2>7 DEF QueryTransient, Query
    <3>4. RemoteInv'
      BY <2>5, <2>7 DEF QueryTransient, Query
    <3> QED  BY <3>1, <3>2, <3>3, <3>4
  <2>8. CASE QueryRefused
    BY <2>8 DEF QueryRefused, Query
  <2>9. CASE Fetch
    <3>1. TypeOK'
      <4>1. CASE FetchOk
        BY <4>1 DEF FetchOk, AtImage
      <4>4. CASE FetchSkip
        BY <4>4 DEF FetchSkip, AtDud
      <4>2. CASE FetchTransient
        BY <4>2 DEF FetchTransient, AtImage, AfterFetch
      <4>3. CASE FetchRefused \/ FetchDone
        BY <4>3 DEF FetchRefused, FetchDone, AtImage, AfterFetch
      <4> QED  BY <2>9, <4>1, <4>2, <4>3, <4>4 DEF Fetch
    <3>2. StageInv'
      BY <2>9 DEF Fetch, FetchOk, FetchSkip, FetchTransient, FetchRefused, FetchDone, AtImage, AtDud,
                  AfterFetch
    <3>3. ClockInv' /\ ErrorInv' /\ OutputInv'
      BY <2>9 DEF Fetch, FetchOk, FetchSkip, FetchTransient, FetchRefused, FetchDone, AtImage, AtDud,
                  AfterFetch
    <3>4. RemoteInv'
      BY <2>9 DEF Fetch, FetchOk, FetchSkip, FetchTransient, FetchRefused, FetchDone, AtImage, AtDud,
                  AfterFetch
    <3> QED  BY <3>1, <3>2, <3>3, <3>4
  <2>10. CASE Delete
    BY <2>10 DEF Delete
  <2>11. CASE PredictionEnds
    BY <2>11 DEF PredictionEnds
  <2>12. CASE CloseClient
    BY <2>12 DEF CloseClient
  <2>13. CASE UNCHANGED vars
    BY <2>13 DEF vars
  <2> QED
    BY <2>1, <2>2, <2>3, <2>4, <2>6, <2>7, <2>8, <2>9, <2>10, <2>11, <2>12, <2>13
    DEF Next, Work, Poll
<1> QED  BY <1>1, <1>2, PTL DEF Spec

\* Every variable keeps its type; poll_errors never passes its limit.
THEOREM TypeCorrect == Spec => []TypeOK
  BY Invariant, PTL DEF Inv

\* Whatever fails, the prediction is deleted or the reason why not is known.
THEOREM Forgotten == Spec => []NothingKeptSilently
  BY Invariant, PTL DEF Inv, RemoteInv

\* Polling is given up for errors only after MaxPollErrors in a row.
THEOREM BlipsAreForgiven == Spec => []BlipsForgiven
  BY Invariant, PTL DEF Inv, ErrorInv

\* The wait is bounded by the deadline, one sleep and one query.
THEOREM WaitIsBounded == Spec => []WaitBounded
  BY Invariant, PTL DEF Inv, ClockInv

\* An answer, and the bill, leaves out entries without an image only, and none
\* for a fetch that failed, whatever the list holds (image_generation.py 604-611
\* and 715-728).
THEOREM NoImageIsLost == Spec => []OnlyDudsLeftOut
<1>1. Inv => OnlyDudsLeftOut
  BY DEF Inv, OutputInv, TypeOK, OnlyDudsLeftOut
<1> QED  BY <1>1, Invariant, PTL
=============================================================================
