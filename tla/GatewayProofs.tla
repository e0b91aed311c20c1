--------------------------- MODULE GatewayProofs ---------------------------
(***************************************************************************)
(* What Gateway guarantees for every number of requests, injections and    *)
(* worker threads, every price, usage and cap.                             *)
(***************************************************************************)
EXTENDS Gateway, Integers, TLAPS

\* What \div and % mean for a positive divisor.
LEMMA DivisionByPositive ==
    ASSUME NEW a \in Nat, NEW p \in Nat \ {0}
    PROVE  /\ a \div p \in Int
           /\ a = (p * (a \div p)) + (a % p)
           /\ a % p \in 0..(p - 1)
  OBVIOUS

\* A factor of a positive product is positive if the other one is.
LEMMA PositiveFactor ==
    ASSUME NEW q \in Int, NEW p \in Nat \ {0}, p * q > 0 PROVE q > 0
  OBVIOUS

\* A cost that is due is never rounded down to nothing.
LEMMA CeilPositive ==
    ASSUME NEW u \in Nat \ {0}, NEW p \in Nat \ {0}
    PROVE  Ceil(u, p) \in Nat \ {0}
<1> DEFINE a == u + p - 1
           q == a \div p
<1>1. a \in Nat /\ a >= p
  OBVIOUS
<1> HIDE DEF a
<1>2. q \in Int /\ a = (p * q) + (a % p) /\ a % p \in 0..(p - 1)
  BY <1>1, DivisionByPositive
<1> HIDE DEF q
<1>3. p * q \in Int
  BY <1>2
<1>4. p * q > 0
  BY <1>1, <1>2, <1>3
<1>5. q > 0
  BY <1>2, <1>4, PositiveFactor
<1>6. q = Ceil(u, p)
  BY DEF q, a, Ceil
<1> QED  BY <1>2, <1>5, <1>6

\* What the proofs use of the assumption on the constants.
LEMMA ConstantTypes ==
    /\ NoOne \notin Injectors
    /\ DirectKinds \subseteq {"chat", "stream", "search", "completion"}
    /\ OhttpKinds \subseteq {"chat", "stream", "search"}
    /\ Usages \subseteq Nat \ {0} /\ SearchPrice \in Nat \ {0}
    /\ Prices \subseteq Nat \ {0} /\ Cap \in Nat
  BY GatewayAssumption

\* An answer, its cost block and its marks have their types.
LEMMA AnswerType ==
    ASSUME TypeOK, NEW r \in Requests, NEW usd \in Nat, Answer(r, usd)
    PROVE  /\ outcome' \in [Requests -> {"none", "unpaid", "unavailable", "bad", "failed", "broken", "ok"}]
           /\ block' \in [Requests -> Nat]
           /\ why' \in [Requests ->
                  SUBSET {"early", "outage", "noUsage", "lapsed", "challenged", "left", "overCap"}]
<1>1. CASE usd = 0
  BY <1>1 DEF TypeOK, Answer, Note
<1>2. CASE usd # 0 /\ price = 0
  BY <1>2 DEF TypeOK, Answer, Note
<1>3. CASE usd # 0 /\ price # 0
  <2>1. Ceil(usd, price) \in Nat
    BY <1>3, CeilPositive, ConstantTypes DEF TypeOK
  <2> QED  BY <1>3, <2>1 DEF TypeOK, Answer
<1> QED  BY <1>1, <1>2, <1>3

\* Marking a request as delivered keeps the type of the marks.
LEMMA DeliveredType ==
    ASSUME TypeOK, NEW r \in Requests,
           delivered' = [delivered EXCEPT ![r] = TRUE] \/ delivered' = delivered
    PROVE  delivered' \in [Requests -> BOOLEAN]
<1>1. delivered \in [Requests -> BOOLEAN]
  BY DEF TypeOK
<1>2. [delivered EXCEPT ![r] = TRUE] \in [Requests -> BOOLEAN]
  BY <1>1, Zenon
<1> QED  BY <1>1, <1>2, Zenon

\* No step breaks a type.
LEMMA TypeStep == TypeOK /\ [Next]_vars => TypeOK'
<1> SUFFICES ASSUME TypeOK, [Next]_vars PROVE TypeOK'
  OBVIOUS
<1> USE ConstantTypes DEF GoTo, Note, Refuse, Proceed, SetContext, KeysTo, requestVars,
    keyVars, entryVars, answerVars, streamVars, sentVars, x402Vars
<1>1. ASSUME NEW i \in Injectors, Inject(i) PROVE TypeOK'
  <2> USE DEF Inject, Install, TypeOK
  <2>1. CASE KeysArrive(i)
    BY <2>1 DEF KeysArrive, Injecting
  <2>2. CASE KeysAcquire(i)
    BY <2>2 DEF KeysAcquire, Injecting
  <2>3. CASE KeysConfigure(i)
    BY <2>3 DEF KeysConfigure, Injecting
  <2>4. CASE KeysSave(i)
    BY <2>4 DEF KeysSave, Injecting
  <2>5. CASE KeysAttach(i)
    BY <2>5 DEF KeysAttach, Injecting
  <2>6. CASE KeysFinish(i)
    BY <2>6 DEF KeysFinish, Injecting
  <2>7. CASE KeysFail(i)
    BY <2>7 DEF KeysFail, Injecting
  <2> QED  BY <1>1, <2>1, <2>2, <2>3, <2>4, <2>5, <2>6, <2>7
<1>2. ASSUME NEW r \in Requests, EnterWsgi(r) PROVE TypeOK'
  BY <1>2 DEF EnterWsgi, TypeOK
<1>3. ASSUME NEW r \in Requests, Verify(r) \/ Gate(r) \/ Decap(r) \/ Dispatch(r) \/ Handler(r)
      PROVE  TypeOK'
  BY <1>3 DEF Verify, Gate, Decap, Dispatch, Handler, TypeOK, Yields
<1>4. ASSUME NEW r \in Requests, CompleteChat(r) \/ CompleteCompletion(r) \/ CompleteSearch(r)
      PROVE  TypeOK'
  <2>1. PICK usd \in Nat : Answer(r, usd)
    BY <1>4 DEF CompleteChat, CompleteCompletion, CompleteSearch
  <2> QED  BY <1>4, <2>1, AnswerType
           DEF CompleteChat, CompleteCompletion, CompleteSearch, AfterInvoke, TypeOK
<1>5. ASSUME NEW r \in Requests, InvokeFails(r) \/ Seal(r) \/ Send(r) PROVE TypeOK'
  <2>1. CASE InvokeFails(r)
    BY <2>1 DEF InvokeFails, TypeOK
  <2>2. CASE Seal(r)
    BY <2>2 DEF Seal, TypeOK
  <2>3. CASE Send(r)
    <3>1. delivered' = [delivered EXCEPT ![r] = TRUE] \/ delivered' = delivered
      BY <2>3 DEF Send
    <3>2. delivered' \in [Requests -> BOOLEAN]
      BY <3>1, DeliveredType
    <3>3. /\ UNCHANGED <<keyVars, price, entryVars, answerVars, streamVars, x402Vars>>
          /\ pc' = [pc EXCEPT ![r] = "close"]
          /\ ctx' = ctx \/ ctx' = [ctx EXCEPT ![r] = block[r]]
          /\ evidence' = evidence \/ evidence' = [evidence EXCEPT ![r] = block[r]]
          /\ why' = why \/ Note(r, "left")
      BY <2>3 DEF Send
    <3> QED  BY <3>2, <3>3 DEF TypeOK
  <2> QED  BY <1>5, <2>1, <2>2, <2>3
<1>6. ASSUME NEW r \in Requests, Stream(r) PROVE TypeOK'
  <2> USE DEF Take, Seen, Yields
  <2>1. CASE StreamHeader(r)
    BY <2>1 DEF StreamHeader, TypeOK
  <2>2. CASE PullDelta(r)
    BY <2>2 DEF PullDelta, TypeOK
  <2>3. CASE PullFinal(r)
    <3>1. PICK usd \in Nat : Answer(r, usd)
      BY <2>3 DEF PullFinal
    <3> QED  BY <2>3, <3>1, AnswerType DEF PullFinal, TypeOK
  <2>4. CASE PullDone(r)
    BY <2>4 DEF PullDone, TypeOK
  <2>5. CASE PullError(r)
    BY <2>5 DEF PullError, TypeOK
  <2>6. CASE Exhausted(r)
    BY <2>6 DEF Exhausted, TypeOK
  <2>7. CASE Push(r)
    <3>1. delivered' = [delivered EXCEPT ![r] = TRUE] \/ delivered' = delivered
      BY <2>7 DEF Push
    <3>2. delivered' \in [Requests -> BOOLEAN]
      BY <3>1, DeliveredType
    <3>3. /\ UNCHANGED <<keyVars, price, entryVars, answerVars, last, ctx, x402Vars, why>>
          /\ pc' = [pc EXCEPT ![r] = "pull"]
          /\ pend' = pend \/ pend' = [pend EXCEPT ![r] = last[r]]
          /\ evidence' = evidence \/ evidence' = [evidence EXCEPT ![r] = block[r]]
      BY <2>7 DEF Push
    <3> QED  BY <3>2, <3>3 DEF TypeOK
  <2>8. CASE StreamBill(r)
    BY <2>8 DEF StreamBill, TypeOK
  <2>9. CASE StreamLast(r)
    BY <2>9 DEF StreamLast, TypeOK
  <2> QED  BY <1>6, <2>1, <2>2, <2>3, <2>4, <2>5, <2>6, <2>7, <2>8, <2>9 DEF Stream
<1>7. ASSUME NEW r \in Requests, Close(r) PROVE TypeOK'
  BY <1>7 DEF Close, SessionCostCalculator, TypeOK
<1>8. ASSUME NEW r \in Requests, Disconnect(r) PROVE TypeOK'
  BY <1>8 DEF Disconnect, TypeOK, Yields
<1>9. CASE PriceChanges
  BY <1>9 DEF PriceChanges, TypeOK
<1>10. CASE UNCHANGED vars
  BY <1>10 DEF vars, TypeOK
<1> QED
  BY <1>1, <1>2, <1>3, <1>4, <1>5, <1>6, <1>7, <1>8, <1>9, <1>10 DEF Next, Serve

\* Every variable keeps its type; in particular the session's spending stays
\* within its cap (close() checks it again when it adds the cost).
THEOREM TypeCorrect == Spec => []TypeOK
<1>1. Init => TypeOK
  <2>1. ASSUME Init PROVE /\ configured \in BOOLEAN /\ innerSaved \in BOOLEAN
                          /\ middleware \in BOOLEAN /\ initialized \in BOOLEAN
                          /\ paid \in [Requests -> BOOLEAN]
                          /\ delivered \in [Requests -> BOOLEAN]
    BY <2>1, Zenon DEF Init
  <2>2. ASSUME Init
        PROVE  /\ lock = NoOne /\ injPc = [i \in Injectors |-> "new"]
               /\ price \in Prices \cup {0} /\ pc = [r \in Requests |-> "new"]
               /\ route = [r \in Requests |-> "none"] /\ kind = [r \in Requests |-> "none"]
               /\ outcome = [r \in Requests |-> "none"] /\ block = [r \in Requests |-> 0]
               /\ last = [r \in Requests |-> "none"] /\ pend = [r \in Requests |-> "none"]
               /\ ctx = [r \in Requests |-> 0] /\ evidence = [r \in Requests |-> 0]
               /\ charged = [r \in Requests |-> 0] /\ spent = 0
               /\ why = [r \in Requests |-> {}]
    BY <2>2 DEF Init
  <2> QED  BY <2>1, <2>2, ConstantTypes DEF TypeOK
<1> QED  BY <1>1, TypeStep, PTL DEF Spec

----------------------------------------------------------------------------

RequestStep(r) == EnterWsgi(r) \/ Serve(r) \/ Disconnect(r)

\* A request's step leaves the keys, the price and the other requests alone.
LEMMA RequestFrame ==
    ASSUME TypeOK, NEW r \in Requests, RequestStep(r)
    PROVE  /\ UNCHANGED <<keyVars, price>>
           /\ \A q \in Requests \ {r} :
                UNCHANGED <<pc[q], route[q], kind[q], paid[q], outcome[q], block[q], last[q],
                            pend[q], ctx[q], evidence[q], delivered[q], charged[q], why[q]>>
<1> USE DEF GoTo, Note, Refuse, Proceed, SetContext, entryVars, answerVars, streamVars,
            sentVars, x402Vars, TypeOK
<1>1. CASE EnterWsgi(r)
  BY <1>1 DEF EnterWsgi
<1>2. CASE Verify(r) \/ Gate(r) \/ Decap(r) \/ Dispatch(r) \/ Handler(r)
  BY <1>2 DEF Verify, Gate, Decap, Dispatch, Handler
<1>3. CASE CompleteChat(r) \/ CompleteCompletion(r) \/ CompleteSearch(r)
  BY <1>3 DEF CompleteChat, CompleteCompletion, CompleteSearch, Answer
<1>4. CASE InvokeFails(r) \/ Seal(r) \/ Send(r) \/ Close(r)
  BY <1>4 DEF InvokeFails, Seal, Send, Close
<1>5. CASE Stream(r)
  BY <1>5 DEF Stream, StreamHeader, PullDelta, PullFinal, PullDone, PullError, Exhausted,
              Push, StreamBill, StreamLast, Take, Answer
<1>6. CASE Disconnect(r)
  BY <1>6 DEF Disconnect
<1> QED  BY <1>1, <1>2, <1>3, <1>4, <1>5, <1>6 DEF RequestStep, Serve

----------------------------------------------------------------------------
(* Keys are injected once.                                                  *)

Holding == {"held", "configured", "saved", "attached"}

\* The lock has one holder, what is installed is installed in order, and the
\* flag is set exactly when a call has answered 200.
KeysInv ==
    /\ \A i \in Injectors : injPc[i] \in Holding <=> lock = i
    /\ \A i \in Injectors : injPc[i] \in {"saved", "attached"} => innerSaved
    /\ \A i \in Injectors : injPc[i] = "attached" => middleware
    /\ middleware => innerSaved
    /\ initialized => middleware
    /\ initialized => lock = NoOne
    /\ initialized <=> \E i \in Injectors : injPc[i] = "ok"
    /\ InjectedOnce

\* No step of an injection, and no request, breaks the order of the injection.
LEMMA KeysStep == TypeOK /\ KeysInv /\ [Next]_vars => KeysInv'
<1> SUFFICES ASSUME TypeOK, KeysInv, [Next]_vars PROVE KeysInv'
  OBVIOUS
<1>1. ASSUME NEW i \in Injectors, Inject(i) PROVE KeysInv'
  <2> USE ConstantTypes DEF KeysTo, TypeOK, KeysInv, Holding, InjectedOnce, Injecting
  <2>1. CASE KeysArrive(i)
    BY <2>1 DEF KeysArrive
  <2>2. CASE KeysAcquire(i)
    BY <2>2 DEF KeysAcquire
  <2>3. CASE KeysConfigure(i)
    BY <2>3 DEF KeysConfigure
  <2>4. CASE KeysSave(i)
    BY <2>4 DEF KeysSave
  <2>5. CASE KeysAttach(i)
    BY <2>5 DEF KeysAttach
  <2>6. CASE KeysFinish(i)
    BY <2>6 DEF KeysFinish
  <2>7. CASE KeysFail(i)
    BY <2>7 DEF KeysFail
  <2> QED  BY <1>1, <2>1, <2>2, <2>3, <2>4, <2>5, <2>6, <2>7 DEF Inject, Install
<1>2. CASE UNCHANGED keyVars
  BY <1>2 DEF keyVars, KeysInv, Holding, InjectedOnce
<1>3. CASE \E r \in Requests : RequestStep(r)
  BY <1>2, <1>3, RequestFrame
<1> QED
  BY <1>1, <1>2, <1>3 DEF Next, RequestStep, PriceChanges, vars

\* One call answers 200 at most, and 409 only after it, with any number of calls.
THEOREM KeysInjectedOnce == Spec => []InjectedOnce
<1>1. Init => KeysInv
  BY ConstantTypes DEF Init, KeysInv, Holding, InjectedOnce
<1>2. KeysInv => InjectedOnce
  BY DEF KeysInv
<1> QED  BY <1>1, <1>2, KeysStep, TypeCorrect, PTL DEF Spec

----------------------------------------------------------------------------

\* A request that did not go through x402 came early.
AdmissionInv ==
    /\ InnerNeverChallenged
    /\ \A r \in Requests : pc[r] = "new" => outcome[r] = "none"
    /\ \A r \in Requests : pc[r] # "new" /\ ~paid[r] => "early" \in why[r]

Entering == {"new", "verify", "gate", "decap", "dispatch", "innergate", "handler",
             "invoke", "header"}

\* Where a request stands tells how far its answer has come.
StageInv(r) ==
    /\ pc[r] # "new" => route[r] # "none"
    /\ pc[r] \in Entering => outcome[r] = "none" /\ last[r] = "none"
    /\ pc[r] \in {"pull", "push", "bill", "last"} =>
         /\ last[r] \in {"none", "delta"} => outcome[r] = "none"
         /\ last[r] \in {"final", "done"} => outcome[r] = "ok"
         /\ last[r] = "error" => outcome[r] = "broken"
    /\ pc[r] \in {"bill", "last"} => route[r] = "ohttp" /\ last[r] \in {"done", "error"}
    /\ pc[r] = "seal" => outcome[r] = "ok"
    /\ pc[r] = "send" => outcome[r] # "none"

\* Every request stands where its answer says.
StagesInv == \A r \in Requests : StageInv(r)

\* No step lets an answer and its request's place disagree.
LEMMA StageStep == TypeOK /\ StagesInv /\ [Next]_vars => StagesInv'
<1> SUFFICES ASSUME TypeOK, StagesInv, [Next]_vars PROVE StagesInv'
  OBVIOUS
<1> USE DEF StagesInv, StageInv, Entering
<1>1. ASSUME NEW r \in Requests, RequestStep(r) PROVE StagesInv'
  <2>1. SUFFICES StageInv(r)'
    BY <1>1, RequestFrame
  <2>2. StageInv(r)
    OBVIOUS
  <2> USE DEF GoTo, Note, Refuse, Proceed, SetContext, entryVars, answerVars, streamVars, TypeOK
  <2>3. CASE EnterWsgi(r)
    BY <2>2, <2>3 DEF EnterWsgi
  <2>4. CASE Verify(r) \/ Gate(r) \/ Decap(r) \/ Dispatch(r) \/ Handler(r)
    BY <2>2, <2>4 DEF Verify, Gate, Decap, Dispatch, Handler
  <2>5. CASE CompleteChat(r) \/ CompleteCompletion(r) \/ CompleteSearch(r)
    BY <2>2, <2>5 DEF CompleteChat, CompleteCompletion, CompleteSearch, Answer, AfterInvoke
  <2>6. CASE InvokeFails(r) \/ Seal(r) \/ Send(r) \/ Close(r)
    BY <2>2, <2>6 DEF InvokeFails, Seal, Send, Close
  <2>7. CASE StreamHeader(r) \/ PullDelta(r) \/ PullFinal(r) \/ PullDone(r) \/ PullError(r)
    BY <2>2, <2>7
    DEF StreamHeader, PullDelta, PullFinal, PullDone, PullError, Take, Answer, Streaming
  <2>8. CASE Exhausted(r) \/ Push(r) \/ StreamBill(r) \/ StreamLast(r) \/ Disconnect(r)
    BY <2>2, <2>8 DEF Exhausted, Push, StreamBill, StreamLast, Disconnect, Yields
  <2> QED
    BY <1>1, <2>3, <2>4, <2>5, <2>6, <2>7, <2>8 DEF RequestStep, Serve, Stream
<1>2. CASE UNCHANGED <<pc, entryVars, answerVars, streamVars>>
  BY <1>2 DEF entryVars, answerVars, streamVars
<1> QED
  BY <1>1, <1>2
  DEF Next, RequestStep, Inject, Install, KeysArrive, KeysAcquire, KeysConfigure, KeysSave,
      KeysAttach, KeysFinish, KeysFail, PriceChanges, vars, requestVars

\* The stage invariant holds throughout.
LEMMA Stages == Spec => [](TypeOK /\ StagesInv)
<1>1. Init => StagesInv
  BY DEF Init, StagesInv, StageInv, Entering
<1> QED  BY <1>1, StageStep, TypeCorrect, PTL DEF Spec

----------------------------------------------------------------------------

\* Past the gate there is a price, or an outage was noted.
LapseInv ==
    /\ LapseOnlyInFlight
    /\ \A r \in Requests :
         InFlight(r) /\ pc[r] \notin {"verify", "gate"} /\ outcome[r] = "none"
           => price > 0 \/ "outage" \in why[r]

\* No step lets a request past x402 without its mark.
LEMMA AdmissionStep ==
    TypeOK /\ KeysInv /\ AdmissionInv /\ [Next]_vars => AdmissionInv'
<1> SUFFICES ASSUME TypeOK, KeysInv, AdmissionInv, [Next]_vars PROVE AdmissionInv'
  OBVIOUS
<1> USE DEF AdmissionInv, InnerNeverChallenged
<1>1. ASSUME NEW r \in Requests, RequestStep(r) PROVE AdmissionInv'
  <2>1. SUFFICES /\ "challenged" \notin why'[r]
                 /\ pc'[r] # "new"
                 /\ ~paid'[r] => "early" \in why'[r]
    BY <1>1, RequestFrame
  <2> USE DEF GoTo, Note, Refuse, Proceed, SetContext, entryVars, TypeOK
  <2>2. CASE EnterWsgi(r)
    BY <2>2 DEF EnterWsgi, KeysInv
  <2>3. CASE Dispatch(r)
    BY <2>3 DEF Dispatch, KeysInv
  <2>4. CASE Verify(r) \/ Gate(r) \/ Decap(r) \/ Handler(r)
    BY <2>4 DEF Verify, Gate, Decap, Handler
  <2>5. CASE CompleteChat(r) \/ CompleteCompletion(r) \/ CompleteSearch(r)
    BY <2>5 DEF CompleteChat, CompleteCompletion, CompleteSearch, Answer, AfterInvoke
  <2>6. CASE InvokeFails(r) \/ Seal(r) \/ Send(r) \/ Close(r)
    BY <2>6 DEF InvokeFails, Seal, Send, Close
  <2>7. CASE Stream(r)
    BY <2>7 DEF Stream, StreamHeader, PullDelta, PullFinal, PullDone, PullError, Exhausted,
                Push, StreamBill, StreamLast, Take, Answer, Streaming
  <2>8. CASE Disconnect(r)
    BY <2>8 DEF Disconnect, Yields
  <2> QED  BY <1>1, <2>2, <2>3, <2>4, <2>5, <2>6, <2>7, <2>8 DEF RequestStep, Serve
<1>2. CASE UNCHANGED requestVars
  BY <1>2 DEF requestVars, entryVars, answerVars
<1>3. CASE PriceChanges
  BY <1>3 DEF PriceChanges, entryVars, answerVars, TypeOK
<1> QED
  BY <1>1, <1>2, <1>3
  DEF Next, RequestStep, Inject, Install, KeysArrive, KeysAcquire, KeysConfigure, KeysSave,
      KeysAttach, KeysFinish, KeysFail, vars, requestVars

\* The invariants on keys and admission hold throughout.
LEMMA Admission == Spec => [](TypeOK /\ KeysInv /\ AdmissionInv)
<1>1. Init => KeysInv /\ AdmissionInv
  BY ConstantTypes
  DEF Init, KeysInv, Holding, InjectedOnce, AdmissionInv, InnerNeverChallenged
<1> QED  BY <1>1, KeysStep, AdmissionStep, TypeCorrect, PTL DEF Spec

\* Whoever is served without paying entered before the middleware was installed.
THEOREM NobodySlipsIn == Spec => []PaidAfterInjection
<1>1. TypeOK /\ AdmissionInv => PaidAfterInjection
  BY DEF AdmissionInv, PaidAfterInjection, TypeOK
<1> QED  BY <1>1, Admission, PTL

\* The saved inner app is there whenever the middleware is.
THEOREM NoInnerChallenge == Spec => []InnerNeverChallenged
<1>1. AdmissionInv => InnerNeverChallenged
  BY DEF AdmissionInv
<1> QED  BY <1>1, Admission, PTL

----------------------------------------------------------------------------

\* No step reaches an answer without a price unless an outage was noted.
LEMMA LapseStep == TypeOK /\ StagesInv /\ LapseInv /\ [Next]_vars => LapseInv'
<1> SUFFICES ASSUME TypeOK, StagesInv, LapseInv, [Next]_vars PROVE LapseInv'
  OBVIOUS
<1> USE DEF LapseInv, LapseOnlyInFlight, InFlight
<1>1. ASSUME NEW r \in Requests, RequestStep(r) PROVE LapseInv'
  <2>1. SUFFICES /\ "lapsed" \in why'[r] => "outage" \in why'[r]
                 /\ InFlight(r)' /\ pc'[r] \notin {"verify", "gate"} /\ outcome'[r] = "none"
                      => price > 0 \/ "outage" \in why'[r]
    BY <1>1, RequestFrame
  <2>0. (pc[r] = "invoke" \/ Streaming(r)) => outcome[r] = "none"
    BY DEF StagesInv, StageInv, Entering, Streaming
  <2> USE ConstantTypes DEF GoTo, Note, Refuse, Proceed, SetContext, entryVars, answerVars, TypeOK
  <2>2. CASE EnterWsgi(r)
    BY <2>2 DEF EnterWsgi
  <2>3. CASE Verify(r) \/ Gate(r) \/ Decap(r) \/ Dispatch(r) \/ Handler(r)
    BY <2>3 DEF Verify, Gate, Decap, Dispatch, Handler
  <2>4. CASE CompleteChat(r) \/ CompleteCompletion(r) \/ CompleteSearch(r)
    <3>1. PICK usd \in Nat : Answer(r, usd)
      BY <2>4 DEF CompleteChat, CompleteCompletion, CompleteSearch
    <3> QED  BY <2>4, <3>1, <2>0 DEF CompleteChat, CompleteCompletion, CompleteSearch, Answer, AfterInvoke
  <2>5. CASE InvokeFails(r) \/ Seal(r) \/ Send(r) \/ Close(r)
    BY <2>5 DEF InvokeFails, Seal, Send, Close
  <2>6. CASE Stream(r)
    BY <2>6, <2>0 DEF Stream, StreamHeader, PullDelta, PullFinal, PullDone, PullError, Exhausted,
                Push, StreamBill, StreamLast, Take, Answer, Streaming
  <2>7. CASE Disconnect(r)
    BY <2>7 DEF Disconnect, Yields
  <2> QED  BY <1>1, <2>2, <2>3, <2>4, <2>5, <2>6, <2>7 DEF RequestStep, Serve
<1>2. CASE UNCHANGED <<price, requestVars>>
  BY <1>2 DEF requestVars, entryVars, answerVars
<1>3. CASE PriceChanges
  BY <1>3, ConstantTypes DEF PriceChanges, entryVars, answerVars, TypeOK
<1> QED
  BY <1>1, <1>2, <1>3
  DEF Next, RequestStep, Inject, Install, KeysArrive, KeysAcquire, KeysConfigure, KeysSave,
      KeysAttach, KeysFinish, KeysFail, vars, requestVars

\* An answer goes unpriced only through an outage while it was in flight.
THEOREM LapseNeedsOutage == Spec => []LapseOnlyInFlight
<1>1. Init => LapseInv
  BY DEF Init, LapseInv, LapseOnlyInFlight, InFlight
<1>2. LapseInv => LapseOnlyInFlight
  BY DEF LapseInv
<1> QED  BY <1>1, <1>2, LapseStep, Stages, PTL DEF Spec

----------------------------------------------------------------------------

\* The cost block is the one source of what is recorded, told and charged.
CostInv(r) ==
    /\ outcome[r] # "ok" => block[r] = 0
    /\ ctx[r] \in {0, block[r]} /\ evidence[r] \in {0, block[r]}
    /\ charged[r] \in {0, block[r]}
    /\ pc[r] # "done" => charged[r] = 0
    /\ pc[r] = "done" /\ paid[r] /\ "overCap" \notin why[r] => charged[r] = ctx[r]
    /\ outcome[r] = "ok" /\ block[r] = 0 => "noUsage" \in why[r] \/ "lapsed" \in why[r]

\* A cost is recorded for x402 before it is told, and told by the time it is
\* recorded unless the client left.
ToldInv(r) ==
    /\ paid[r] /\ evidence[r] > 0 => ctx[r] = block[r]
    /\ paid[r] /\ pc[r] \in {"bill", "last"} => ctx[r] = block[r]
    /\ paid[r] /\ pc[r] = "send" /\ route[r] = "ohttp" => ctx[r] = block[r]
    /\ paid[r] /\ route[r] = "direct" /\ pc[r] = "push" => ctx[r] = block[r]
    /\ route[r] = "direct" /\ pc[r] \in {"pull", "push"} /\ last[r] = "done"
         => evidence[r] = block[r]
    /\ route[r] = "direct" /\ pc[r] = "pull" /\ last[r] = "final" => evidence[r] = block[r]
    /\ pc[r] = "last" => evidence[r] = block[r]
    /\ pc[r] \in {"close", "done"} /\ ctx[r] > 0 => evidence[r] = block[r] \/ "left" \in why[r]
    /\ delivered[r] => outcome[r] # "none"
    /\ delivered[r] /\ outcome[r] = "ok" => evidence[r] = block[r]

\* Every request\'s costs agree.
MoneyInv == \A r \in Requests : CostInv(r) /\ ToldInv(r)

\* An answer without a cost block says why it has none.
LEMMA AnswerCost ==
    ASSUME TypeOK, NEW r \in Requests, NEW usd \in Nat, Answer(r, usd), block[r] = 0
    PROVE  /\ outcome'[r] = "ok" /\ block'[r] \in Nat
           /\ block'[r] = 0 => "noUsage" \in why'[r] \/ "lapsed" \in why'[r]
           /\ "left" \in why'[r] <=> "left" \in why[r]
<1>1. CASE usd = 0 \/ price = 0
  BY <1>1 DEF TypeOK, Answer, Note
<1>2. CASE usd # 0 /\ price # 0
  <2>1. Ceil(usd, price) \in Nat \ {0}
    BY <1>2, CeilPositive, ConstantTypes DEF TypeOK
  <2> QED  BY <1>2, <2>1 DEF TypeOK, Answer
<1> QED  BY <1>1, <1>2

\* No step breaks the agreement of recorded, told and charged costs.
LEMMA MoneyStep == TypeOK /\ StagesInv /\ MoneyInv /\ [Next]_vars => MoneyInv'
<1> SUFFICES ASSUME TypeOK, StagesInv, MoneyInv, [Next]_vars PROVE MoneyInv'
  OBVIOUS
<1>1. ASSUME NEW r \in Requests, RequestStep(r) PROVE MoneyInv'
  <2>1. SUFFICES CostInv(r)' /\ ToldInv(r)'
    BY <1>1, RequestFrame DEF MoneyInv, CostInv, ToldInv
  <2>2. StageInv(r) /\ CostInv(r) /\ ToldInv(r)
    BY DEF StagesInv, MoneyInv
  <2> USE DEF GoTo, Note, Refuse, Proceed, SetContext, entryVars, answerVars, streamVars,
              sentVars, x402Vars, TypeOK, StageInv, CostInv, ToldInv, Entering
  <2>3. CASE EnterWsgi(r)
    BY <2>2, <2>3 DEF EnterWsgi
  <2>4. CASE Verify(r) \/ Gate(r) \/ Decap(r) \/ Dispatch(r) \/ Handler(r) \/ InvokeFails(r)
    BY <2>2, <2>4 DEF Verify, Gate, Decap, Dispatch, Handler, InvokeFails
  <2>5. CASE CompleteChat(r) \/ CompleteCompletion(r) \/ CompleteSearch(r)
    <3>1. PICK usd \in Nat : Answer(r, usd)
      BY <2>5, ConstantTypes DEF CompleteChat, CompleteCompletion, CompleteSearch
    <3>2. pc[r] = "invoke"
      BY <2>5 DEF CompleteChat, CompleteCompletion, CompleteSearch
    <3>3. pc'[r] = IF route[r] = "ohttp" THEN "seal" ELSE "send"
      BY <2>5 DEF CompleteChat, CompleteCompletion, CompleteSearch, AfterInvoke
    <3>4. UNCHANGED <<entryVars, streamVars, sentVars, x402Vars>>
      BY <2>5 DEF CompleteChat, CompleteCompletion, CompleteSearch
    <3>5. block[r] = 0 /\ ctx[r] = 0 /\ evidence[r] = 0 /\ charged[r] = 0 /\ ~delivered[r]
      BY <2>2, <3>2
    <3>6. outcome'[r] = "ok" /\ block'[r] \in Nat
          /\ (block'[r] = 0 => "noUsage" \in why'[r] \/ "lapsed" \in why'[r])
      BY <3>1, <3>5, AnswerCost
    <3> QED  BY <3>2, <3>3, <3>4, <3>5, <3>6
  <2>6. CASE Seal(r)
    BY <2>2, <2>6 DEF Seal
  <2>7. CASE Send(r)
    BY <2>2, <2>7 DEF Send
  <2>8. CASE StreamHeader(r) \/ PullDelta(r) \/ PullDone(r) \/ PullError(r)
    BY <2>2, <2>8
    DEF StreamHeader, PullDelta, PullDone, PullError, Take, Seen, Streaming
  <2>9. CASE PullFinal(r)
    <3>1. PICK usd \in Nat : Answer(r, usd)
      BY <2>9, ConstantTypes DEF PullFinal
    <3>2. block[r] = 0 /\ ctx[r] = 0 /\ evidence[r] = 0 /\ charged[r] = 0 /\ ~delivered[r]
      BY <2>2, <2>9 DEF PullFinal, Streaming
    <3>3. outcome'[r] = "ok" /\ block'[r] \in Nat
          /\ (block'[r] = 0 => "noUsage" \in why'[r] \/ "lapsed" \in why'[r])
      BY <3>1, <3>2, AnswerCost
    <3>4. Take(r, "final") /\ pc[r] = "pull"
      BY <2>9 DEF PullFinal, Streaming
    <3> QED  BY <3>2, <3>3, <3>4 DEF Take, Seen
  <2>10. CASE Exhausted(r)
    BY <2>2, <2>10 DEF Exhausted
  <2>11. CASE Push(r)
    BY <2>2, <2>11 DEF Push
  <2>12. CASE StreamBill(r) \/ StreamLast(r)
    BY <2>2, <2>12 DEF StreamBill, StreamLast
  <2>13. CASE Close(r)
    BY <2>2, <2>13 DEF Close, SessionCostCalculator
  <2>14. CASE Disconnect(r)
    BY <2>2, <2>14 DEF Disconnect, Yields
  <2> QED
    BY <1>1, <2>3, <2>4, <2>5, <2>6, <2>7, <2>8, <2>9, <2>10, <2>11, <2>12, <2>13, <2>14
    DEF RequestStep, Serve, Stream
<1>2. CASE UNCHANGED requestVars
  BY <1>2
  DEF MoneyInv, CostInv, ToldInv, requestVars, entryVars, answerVars, streamVars, sentVars, x402Vars
<1>3. CASE PriceChanges
  BY <1>3
  DEF PriceChanges, MoneyInv, CostInv, ToldInv, entryVars, answerVars, streamVars, sentVars,
      x402Vars, TypeOK
<1> QED
  BY <1>1, <1>2, <1>3
  DEF Next, RequestStep, Inject, Install, KeysArrive, KeysAcquire, KeysConfigure, KeysSave,
      KeysAttach, KeysFinish, KeysFail, vars, requestVars

\* The invariants on costs hold throughout.
LEMMA Money == Spec => [](TypeOK /\ StagesInv /\ MoneyInv)
<1>1. Init => MoneyInv
  BY DEF Init, MoneyInv, CostInv, ToldInv
<1> QED  BY <1>1, MoneyStep, Stages, PTL DEF Spec

\* What failed is free, on every path through the gateway.
THEOREM FailuresAreFree == Spec => []FailureIsFree
<1>1. MoneyInv => FailureIsFree
  BY DEF MoneyInv, CostInv, FailureIsFree
<1> QED  BY <1>1, Money, PTL

\* What the payer was told is what x402 charges.
THEOREM CostsReconcile == Spec => []Reconciled
<1>1. TypeOK /\ MoneyInv => Reconciled
  BY DEF MoneyInv, CostInv, ToldInv, Reconciled, TypeOK
<1> QED  BY <1>1, Money, PTL

\* A paid answer delivered whole is charged for unless a known reason was noted.
THEOREM NothingLostSilently == Spec => []NoSilentLoss
<1>1. TypeOK /\ MoneyInv => NoSilentLoss
  BY DEF MoneyInv, CostInv, ToldInv, NoSilentLoss, TypeOK
<1> QED  BY <1>1, Money, PTL

----------------------------------------------------------------------------
(* The gateway implements Billing.                                          *)

\* Where Billing sees a request stand.
StageOf(r) == IF pc[r] = "done" THEN "closed" ELSE IF outcome[r] = "ok" THEN "quoted" ELSE "open"

\* An answer changes the outcome and the cost block of its own request only.
LEMMA AnswerIsOnce ==
    ASSUME TypeOK, NEW r \in Requests, NEW usd \in Nat, Answer(r, usd)
    PROVE  /\ outcome' = [outcome EXCEPT ![r] = "ok"]
           /\ block'[r] \in Nat /\ block' = [block EXCEPT ![r] = block'[r]]
<1>1. CASE usd = 0 \/ price = 0
  BY <1>1 DEF TypeOK, Answer
<1>2. CASE usd # 0 /\ price # 0
  <2>1. Ceil(usd, price) \in Nat
    BY <1>2, CeilPositive, ConstantTypes DEF TypeOK
  <2> QED  BY <1>2, <2>1 DEF TypeOK, Answer
<1> QED  BY <1>1, <1>2

\* What a request's step means to Billing.
LEMMA BillingView ==
    ASSUME TypeOK, StagesInv, MoneyInv, NEW r \in Requests, RequestStep(r)
    PROVE  \/ StageOf(r)' = StageOf(r) /\ UNCHANGED <<block, charged, spent>>
           \/ /\ StageOf(r) = "open" /\ StageOf(r)' = "quoted"
              /\ block'[r] \in Nat /\ block' = [block EXCEPT ![r] = block'[r]]
              /\ UNCHANGED <<charged, spent>>
           \/ /\ StageOf(r) # "closed" /\ StageOf(r)' = "closed"
              /\ UNCHANGED <<block, charged, spent>>
           \/ /\ StageOf(r) = "quoted" /\ StageOf(r)' = "closed"
              /\ block[r] > 0 /\ spent + block[r] <= Cap
              /\ charged' = [charged EXCEPT ![r] = block[r]]
              /\ spent' = spent + block[r] /\ UNCHANGED block
<1>1. StageInv(r) /\ CostInv(r)
  BY DEF StagesInv, MoneyInv
<1> USE DEF StageOf, StageInv, CostInv, Entering, GoTo, Refuse, Proceed, TypeOK, entryVars,
            answerVars, streamVars, sentVars, x402Vars
<1>2. CASE EnterWsgi(r) \/ Verify(r) \/ Gate(r) \/ Decap(r) \/ Dispatch(r) \/ Handler(r)
  BY <1>1, <1>2 DEF EnterWsgi, Verify, Gate, Decap, Dispatch, Handler
<1>3. CASE CompleteChat(r) \/ CompleteCompletion(r) \/ CompleteSearch(r)
  <2>1. PICK usd \in Nat : Answer(r, usd)
    BY <1>3, ConstantTypes DEF CompleteChat, CompleteCompletion, CompleteSearch
  <2> QED
    BY <1>1, <1>3, <2>1, AnswerIsOnce
    DEF CompleteChat, CompleteCompletion, CompleteSearch, AfterInvoke
<1>4. CASE InvokeFails(r) \/ Seal(r) \/ Send(r)
  BY <1>1, <1>4 DEF InvokeFails, Seal, Send
<1>5. CASE PullFinal(r)
  <2>1. PICK usd \in Nat : Answer(r, usd)
    BY <1>5, ConstantTypes DEF PullFinal
  <2> QED  BY <1>1, <1>5, <2>1, AnswerIsOnce DEF PullFinal, Take, Streaming
<1>6. CASE StreamHeader(r) \/ PullDelta(r) \/ PullDone(r) \/ PullError(r) \/ Exhausted(r)
           \/ Push(r) \/ StreamBill(r) \/ StreamLast(r) \/ Disconnect(r)
  BY <1>1, <1>6 DEF StreamHeader, PullDelta, PullDone, PullError, Exhausted, Push, StreamBill,
                    StreamLast, Disconnect, Take, Streaming, Yields
<1>7. CASE Close(r)
  <2>1. ctx[r] = 0 \/ (ctx[r] = block[r] /\ outcome[r] = "ok")
    BY <1>1
  <2>2. pc[r] = "close" /\ pc'[r] = "done" /\ UNCHANGED block
    BY <1>7 DEF Close
  <2>3. CASE UNCHANGED x402Vars
    BY <2>2, <2>3
  <2>4. CASE ctx[r] # 0 /\ ~(spent + ctx[r] > Cap)
             /\ charged' = [charged EXCEPT ![r] = ctx[r]] /\ spent' = spent + ctx[r]
    <3>1. ctx[r] = block[r] /\ outcome[r] = "ok" /\ outcome' = outcome
      BY <2>1, <2>4, <1>7 DEF Close
    <3>2. block[r] \in Nat /\ spent \in Nat /\ Cap \in Nat
      BY ConstantTypes
    <3>3. block[r] > 0 /\ spent + block[r] <= Cap
      BY <2>4, <3>1, <3>2
    <3>4. StageOf(r) = "quoted" /\ StageOf(r)' = "closed"
      BY <2>2, <3>1
    <3> QED  BY <2>2, <2>4, <3>1, <3>3, <3>4
  <2> QED  BY <2>3, <2>4, <1>7 DEF Close, SessionCostCalculator
<1> QED  BY <1>2, <1>3, <1>4, <1>5, <1>6, <1>7 DEF RequestStep, Serve, Stream

\* A request is quoted once, with its answer, and settled once, for its quote
\* or for nothing, within the session's cap.
THEOREM ImplementsBilling == Spec => SettledOnce
<1> DEFINE view == [r \in Requests |-> StageOf(r)]
<1>1. Init => Bill!Init
  BY DEF Init, Bill!Init
<1>2. TypeOK /\ StagesInv /\ MoneyInv /\ [Next]_vars => [Bill!Next]_(Bill!vars)
  <2> SUFFICES ASSUME TypeOK, StagesInv, MoneyInv, [Next]_vars PROVE [Bill!Next]_(Bill!vars)
    OBVIOUS
  <2>1. ASSUME NEW r \in Requests, RequestStep(r) PROVE [Bill!Next]_(Bill!vars)
    <3>1. \A q \in Requests \ {r} : StageOf(q)' = StageOf(q)
      BY <2>1, RequestFrame DEF StageOf
    <3>2. view' = [view EXCEPT ![r] = StageOf(r)'] /\ view[r] = StageOf(r)
      BY <3>1
    <3>3. CASE StageOf(r)' = StageOf(r) /\ UNCHANGED <<block, charged, spent>>
      <4>1. view' = view
        BY <3>1, <3>3
      <4> QED  BY <3>3, <4>1 DEF Bill!vars, StageOf
    <3>4. CASE /\ StageOf(r) = "open" /\ StageOf(r)' = "quoted"
               /\ block'[r] \in Nat /\ block' = [block EXCEPT ![r] = block'[r]]
               /\ UNCHANGED <<charged, spent>>
      <4>1. Bill!Quote(r)
        BY <3>2, <3>4 DEF Bill!Quote, StageOf
      <4> QED  BY <4>1 DEF Bill!Next
    <3>5. CASE /\ StageOf(r) # "closed" /\ StageOf(r)' = "closed"
               /\ UNCHANGED <<block, charged, spent>>
      <4>1. Bill!Waive(r)
        BY <3>2, <3>5 DEF Bill!Waive, StageOf
      <4> QED  BY <4>1 DEF Bill!Next
    <3>6. CASE /\ StageOf(r) = "quoted" /\ StageOf(r)' = "closed"
               /\ block[r] > 0 /\ spent + block[r] <= Cap
               /\ charged' = [charged EXCEPT ![r] = block[r]]
               /\ spent' = spent + block[r] /\ UNCHANGED block
      <4>1. Bill!Settle(r)
        BY <3>2, <3>6 DEF Bill!Settle, StageOf
      <4> QED  BY <4>1 DEF Bill!Next
    <3> QED  BY <2>1, <3>3, <3>4, <3>5, <3>6, BillingView
  <2>2. CASE UNCHANGED <<pc, outcome, block, charged, spent>>
    BY <2>2 DEF Bill!vars
  <2> QED
    BY <2>1, <2>2
    DEF Next, RequestStep, Inject, Install, KeysArrive, KeysAcquire, KeysConfigure, KeysSave,
        KeysAttach, KeysFinish, KeysFail, PriceChanges, vars, requestVars, answerVars, x402Vars
<1> QED  BY <1>1, <1>2, Money, PTL DEF Spec, SettledOnce, Bill!Spec
=============================================================================
