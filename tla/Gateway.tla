------------------------------ MODULE Gateway ------------------------------
(***************************************************************************)
(* The life of a paid request in the gateway, from the WSGI entry point to  *)
(* x402's settlement, composed with the one-time injection of keys that     *)
(* installs the payment middleware and with a price feed that may expire.   *)
(*                                                                         *)
(* A request comes directly or through the OHTTP relay; the kind says which *)
(* controller answers it.  Its steps are those between which other worker   *)
(* threads, or the client's disconnect, can be seen.  An answer, a usage    *)
(* and a price are abstracted to what they cost; 0 stands for "none" where  *)
(* a cost, a usage or a price is absent.  x402's session is external.       *)
(***************************************************************************)
EXTENDS Naturals, FiniteSets

CONSTANTS
    Requests,    \* the requests of one payment session
    Injectors,   \* the POSTs to /v1/keys
    NoOne,       \* nobody holds _keys_lock
    Threads,     \* gunicorn's worker threads
    DirectKinds, \* what comes directly: "chat", "stream", "search", "completion"
    OhttpKinds,  \* what comes through OHTTP: the endpoints of _INNER_ENDPOINT_PATHS
    Usages,      \* what an answer may have consumed, in USD units
    SearchPrice, \* WEB_SEARCH_PRICE_USD
    Prices,      \* the OPG prices the feed may report
    Cap          \* the session's maximum spend

VARIABLES
    configured,  \* _provider_config is set
    innerSaved,  \* OHTTP_INNER_WSGI_APP is set
    middleware,  \* application.wsgi_app goes through x402
    initialized, \* _keys_initialized
    lock,        \* the holder of _keys_lock
    injPc,       \* where each POST to /v1/keys stands, or its answer
    price,       \* what get_price() returns; 0: it raises
    pc,          \* where each request stands
    route, kind, \* how it came, and what it asks for
    paid,        \* it went through x402
    outcome,     \* its answer: "ok" is a signed answer
    block,       \* the cost block embedded in the answer
    last,        \* the last event taken from the chat stream
    pend,        \* _stream()'s look-ahead
    ctx,         \* the cost x402 will find in cost_context
    evidence,    \* the cost the payer was told
    delivered,   \* the whole answer was sent
    charged,     \* what x402 took for the request
    spent,       \* what x402 took from the session
    why          \* what happened on the way (marks the properties read)

keyVars    == <<configured, innerSaved, middleware, initialized, lock, injPc>>
entryVars  == <<route, kind, paid>>
answerVars == <<outcome, block>>
streamVars == <<last, pend>>
sentVars   == <<ctx, evidence, delivered>>
x402Vars   == <<charged, spent>>
vars == <<keyVars, price, pc, entryVars, answerVars, streamVars, sentVars, x402Vars, why>>

ASSUME GatewayAssumption ==
    /\ NoOne \notin Injectors
    /\ Threads \in Nat \ {0}
    /\ DirectKinds \subseteq {"chat", "stream", "search", "completion"}
    /\ OhttpKinds \subseteq {"chat", "stream", "search"}
    /\ Usages \subseteq Nat \ {0}
    /\ SearchPrice \in Nat \ {0}
    /\ Prices \subseteq Nat \ {0}
    /\ Cap \in Nat

----------------------------------------------------------------------------

Injecting == {"waiting", "held", "configured", "saved", "attached"}
Yields    == {"header", "push", "bill", "last"}   \* where _stream()/generate() yields

InFlight(r) == pc[r] \notin {"new", "done"}

Busy == Cardinality({r \in Requests : InFlight(r)})
        + Cardinality({i \in Injectors : injPc[i] \in Injecting})

TypeOK ==
    /\ configured \in BOOLEAN /\ innerSaved \in BOOLEAN
    /\ middleware \in BOOLEAN /\ initialized \in BOOLEAN
    /\ lock \in Injectors \cup {NoOne}
    /\ injPc \in [Injectors -> Injecting \cup {"new", "ok", "conflict", "rejected", "failed"}]
    /\ price \in Prices \cup {0}
    /\ pc \in [Requests -> Yields \cup
                 {"new", "verify", "gate", "decap", "dispatch", "innergate", "handler",
                  "invoke", "pull", "seal", "send", "close", "done"}]
    /\ route \in [Requests -> {"none", "direct", "ohttp"}]
    /\ kind \in [Requests -> {"none", "chat", "stream", "search", "completion"}]
    /\ paid \in [Requests -> BOOLEAN]
    /\ outcome \in [Requests -> {"none", "unpaid", "unavailable", "bad", "failed", "broken", "ok"}]
    /\ block \in [Requests -> Nat]
    /\ last \in [Requests -> {"none", "delta", "final", "done", "error"}]
    /\ pend \in [Requests -> {"none", "delta", "final", "done", "error"}]
    /\ ctx \in [Requests -> Nat]
    /\ evidence \in [Requests -> Nat]
    /\ delivered \in [Requests -> BOOLEAN]
    /\ charged \in [Requests -> Nat]
    /\ spent \in 0..Cap
    /\ why \in [Requests ->
                  SUBSET {"early", "outage", "noUsage", "lapsed", "challenged", "left", "overCap"}]

Init ==
    /\ configured = FALSE /\ innerSaved = FALSE /\ middleware = FALSE /\ initialized = FALSE
    /\ lock = NoOne
    /\ injPc = [i \in Injectors |-> "new"]
    /\ price \in Prices \cup {0}
    /\ pc = [r \in Requests |-> "new"]
    /\ route = [r \in Requests |-> "none"] /\ kind = [r \in Requests |-> "none"]
    /\ paid = [r \in Requests |-> FALSE]
    /\ outcome = [r \in Requests |-> "none"] /\ block = [r \in Requests |-> 0]
    /\ last = [r \in Requests |-> "none"] /\ pend = [r \in Requests |-> "none"]
    /\ ctx = [r \in Requests |-> 0] /\ evidence = [r \in Requests |-> 0]
    /\ delivered = [r \in Requests |-> FALSE]
    /\ charged = [r \in Requests |-> 0] /\ spent = 0
    /\ why = [r \in Requests |-> {}]

GoTo(r, p) == pc' = [pc EXCEPT ![r] = p]
Note(r, m) == why' = [why EXCEPT ![r] = @ \cup {m}]

----------------------------------------------------------------------------
(* set_provider_keys() and _init_payment_middleware().                      *)

requestVars == <<pc, entryVars, answerVars, streamVars, sentVars, x402Vars, why>>

KeysTo(i, p) == injPc' = [injPc EXCEPT ![i] = p]

KeysArrive(i) ==
    /\ injPc[i] = "new" /\ Busy < Threads
    /\ KeysTo(i, "waiting")
    /\ UNCHANGED <<configured, innerSaved, middleware, initialized, lock, price, requestVars>>

\* The 409 and the 400 are answered, and the lock released, in the same breath.
KeysAcquire(i) ==
    /\ injPc[i] = "waiting" /\ lock = NoOne
    /\ \/ /\ KeysTo(i, IF initialized THEN "conflict" ELSE "rejected")
          /\ UNCHANGED lock
       \/ /\ ~initialized
          /\ KeysTo(i, "held")
          /\ lock' = i
    /\ UNCHANGED <<configured, innerSaved, middleware, initialized, price, requestVars>>

MutantKeysConfigure(i) ==     \* the flag is set as soon as the provider keys are
    /\ injPc[i] = "held"
    /\ configured' = TRUE /\ initialized' = TRUE
    /\ KeysTo(i, "configured")
    /\ UNCHANGED <<innerSaved, middleware, lock, price, requestVars>>

KeysConfigure(i) ==
    /\ injPc[i] = "held"
    /\ configured' = TRUE
    /\ KeysTo(i, "configured")
    /\ UNCHANGED <<innerSaved, middleware, initialized, lock, price, requestVars>>

MutantKeysSave(i) ==     \* the inner app is not saved
    /\ injPc[i] = "configured"
    /\ KeysTo(i, "saved")
    /\ UNCHANGED <<configured, innerSaved, middleware, initialized, lock, price, requestVars>>

KeysSave(i) ==
    /\ injPc[i] = "configured"
    /\ innerSaved' = TRUE
    /\ KeysTo(i, "saved")
    /\ UNCHANGED <<configured, middleware, initialized, lock, price, requestVars>>

KeysAttach(i) ==
    /\ injPc[i] = "saved"
    /\ middleware' = TRUE
    /\ KeysTo(i, "attached")
    /\ UNCHANGED <<configured, innerSaved, initialized, lock, price, requestVars>>

MutantKeysFinish(i) ==   \* the flag is never set
    /\ injPc[i] = "attached"
    /\ lock' = NoOne
    /\ KeysTo(i, "ok")
    /\ UNCHANGED <<configured, innerSaved, middleware, initialized, price, requestVars>>

KeysFinish(i) ==
    /\ injPc[i] = "attached"
    /\ initialized' = TRUE
    /\ lock' = NoOne
    /\ KeysTo(i, "ok")
    /\ UNCHANGED <<configured, innerSaved, middleware, price, requestVars>>

MutantKeysFail(i) ==     \* the exception leaves the lock behind
    /\ injPc[i] \in {"held", "configured", "saved"}
    /\ KeysTo(i, "failed")
    /\ UNCHANGED <<configured, innerSaved, middleware, initialized, lock, price, requestVars>>

\* An exception anywhere before the middleware is attached: 500, what was set
\* stays set, and the keys may be injected again.
KeysFail(i) ==
    /\ injPc[i] \in {"held", "configured", "saved"}
    /\ lock' = NoOne
    /\ KeysTo(i, "failed")
    /\ UNCHANGED <<configured, innerSaved, middleware, initialized, price, requestVars>>

Install(i) == \/ KeysConfigure(i) \/ KeysSave(i) \/ KeysAttach(i) \/ KeysFinish(i) \/ KeysFail(i)
Inject(i)  == KeysArrive(i) \/ KeysAcquire(i) \/ Install(i)

----------------------------------------------------------------------------
(* From the WSGI entry point to the controller.                             *)

\* The request is over without an answer of the model; x402 still closes it.
Refuse(r, o) ==
    /\ GoTo(r, "send")
    /\ outcome' = [outcome EXCEPT ![r] = o]
    /\ UNCHANGED <<keyVars, price, entryVars, block, streamVars, sentVars, x402Vars, why>>

Proceed(r, p) ==
    /\ GoTo(r, p)
    /\ UNCHANGED <<keyVars, price, entryVars, answerVars, streamVars, sentVars, x402Vars, why>>

\* application.wsgi_app is read once, when the worker thread takes the request.
EnterWsgi(r) ==
    /\ pc[r] = "new" /\ Busy < Threads
    /\ \/ /\ route' = [route EXCEPT ![r] = "direct"]
          /\ \E k \in DirectKinds : kind' = [kind EXCEPT ![r] = k]
       \/ /\ route' = [route EXCEPT ![r] = "ohttp"]
          /\ \E k \in OhttpKinds : kind' = [kind EXCEPT ![r] = k]
    /\ paid' = [paid EXCEPT ![r] = middleware]
    /\ GoTo(r, IF middleware THEN "verify" ELSE "gate")
    /\ IF middleware \/ initialized THEN UNCHANGED why ELSE Note(r, "early")
    /\ UNCHANGED <<keyVars, price, answerVars, streamVars, sentVars, x402Vars>>

\* x402 opens or continues the session, or answers 402 by itself.
Verify(r) ==
    /\ pc[r] = "verify"
    /\ \/ Proceed(r, "gate")
       \/ /\ GoTo(r, "done")
          /\ outcome' = [outcome EXCEPT ![r] = "unpaid"]
          /\ UNCHANGED <<keyVars, price, entryVars, block, streamVars, sentVars, x402Vars, why>>

MutantGate(r) ==     \* /v1/web_search is missing from the gated paths
    /\ pc[r] \in {"gate", "innergate"}
    /\ \/ /\ price = 0
          /\ Refuse(r, "unavailable")
       \/ /\ price > 0 /\ kind[r] # "search" /\ (pc[r] = "innergate" \/ route[r] = "direct")
          /\ Refuse(r, "bad")
       \/ /\ price > 0 \/ (kind[r] = "search" /\ route[r] = "direct")
          /\ Proceed(r, IF pc[r] = "gate" /\ route[r] = "ohttp" THEN "decap" ELSE "handler")

\* The before_request hook runs for the outer and again for the inner request.
Gate(r) ==
    /\ pc[r] \in {"gate", "innergate"}
    /\ \/ /\ price = 0
          /\ Refuse(r, "unavailable")
       \/ /\ price > 0 /\ kind[r] # "search" /\ (pc[r] = "innergate" \/ route[r] = "direct")
          /\ Refuse(r, "bad")
       \/ /\ price > 0
          /\ Proceed(r, IF pc[r] = "gate" /\ route[r] = "ohttp" THEN "decap" ELSE "handler")

Decap(r) ==
    /\ pc[r] = "decap"
    /\ \/ Refuse(r, "bad")
       \/ Proceed(r, "dispatch")

\* The inner request carries no payment: should it meet x402, it is challenged.
Dispatch(r) ==
    /\ pc[r] = "dispatch"
    /\ IF middleware /\ ~innerSaved
       THEN /\ GoTo(r, "send")
            /\ outcome' = [outcome EXCEPT ![r] = "unpaid"]
            /\ Note(r, "challenged")
            /\ UNCHANGED <<keyVars, price, entryVars, block, streamVars, sentVars, x402Vars>>
       ELSE Proceed(r, "innergate")

\* Validation and moderation, then the model: without keys there is none.
Handler(r) ==
    /\ pc[r] = "handler"
    /\ \/ Refuse(r, "bad")
       \/ Refuse(r, "failed")
       \/ /\ configured
          /\ Proceed(r, IF kind[r] # "stream" THEN "invoke"
                        ELSE IF route[r] = "ohttp" THEN "header" ELSE "pull")

----------------------------------------------------------------------------
(* The answer and its cost.                                                 *)

\* cost_opg, rounded up: ROUND_CEILING of usd / price.
Ceil(usd, p) == (usd + p - 1) \div p

\* The answer is signed; its cost is computed at the price of this moment, and
\* the block is left out when the feed has none or the provider told no usage.
Answer(r, usd) ==
    /\ outcome' = [outcome EXCEPT ![r] = "ok"]
    /\ IF usd = 0 THEN Note(r, "noUsage") /\ UNCHANGED block
       ELSE IF price = 0 THEN Note(r, "lapsed") /\ UNCHANGED block
       ELSE block' = [block EXCEPT ![r] = Ceil(usd, price)] /\ UNCHANGED why

AfterInvoke(r) == IF route[r] = "ohttp" THEN "seal" ELSE "send"

CompleteChat(r) ==
    /\ pc[r] = "invoke" /\ kind[r] = "chat"
    /\ \E usd \in Usages \cup {0} : Answer(r, usd)
    /\ GoTo(r, AfterInvoke(r))
    /\ UNCHANGED <<keyVars, price, entryVars, streamVars, sentVars, x402Vars>>

CompleteCompletion(r) ==
    /\ pc[r] = "invoke" /\ kind[r] = "completion"
    /\ \E usd \in Usages \cup {0} : Answer(r, usd)
    /\ GoTo(r, AfterInvoke(r))
    /\ UNCHANGED <<keyVars, price, entryVars, streamVars, sentVars, x402Vars>>

CompleteSearch(r) ==
    /\ pc[r] = "invoke" /\ kind[r] = "search"
    /\ Answer(r, SearchPrice)
    /\ GoTo(r, AfterInvoke(r))
    /\ UNCHANGED <<keyVars, price, entryVars, streamVars, sentVars, x402Vars>>

\* The provider or Exa failed: an error without a cost block.
InvokeFails(r) ==
    /\ pc[r] = "invoke"
    /\ Refuse(r, "failed")

----------------------------------------------------------------------------
(* The cost context, and answers sent in one piece.                         *)

\* Only a request that went through x402 has a cost_context.
SetContext(r, cost) == ctx' = IF paid[r] THEN [ctx EXCEPT ![r] = cost] ELSE ctx

MutantSeal(r) ==     \* the inner answer is not put into the cost context
    /\ pc[r] = "seal"
    /\ GoTo(r, "send")
    /\ UNCHANGED <<keyVars, price, entryVars, answerVars, streamVars, sentVars, x402Vars, why>>

\* The sub-request is drained, its cost recorded, its body encrypted.
Seal(r) ==
    /\ pc[r] = "seal"
    /\ SetContext(r, block[r])
    /\ GoTo(r, "send")
    /\ UNCHANGED <<keyVars, price, entryVars, answerVars, streamVars, evidence, delivered,
                   x402Vars, why>>

\* x402 parses a direct answer as it passes; the payer reads the cost in the
\* body, or in the outer headers.
Send(r) ==
    /\ pc[r] = "send"
    /\ IF route[r] = "direct" THEN SetContext(r, block[r]) ELSE UNCHANGED ctx
    /\ GoTo(r, "close")
    /\ \/ /\ evidence' = [evidence EXCEPT ![r] = block[r]]
          /\ delivered' = [delivered EXCEPT ![r] = TRUE]
          /\ UNCHANGED why
       \/ /\ Note(r, "left")
          /\ UNCHANGED <<evidence, delivered>>
    /\ UNCHANGED <<keyVars, price, entryVars, answerVars, streamVars, x402Vars>>

----------------------------------------------------------------------------
(* The chat stream: generate(), and _stream() around it for OHTTP.          *)

StreamHeader(r) ==
    /\ pc[r] = "header"
    /\ Proceed(r, "pull")

\* The cost _parse_final_sse_json finds in what was taken from the stream.
Seen(r, l) == IF l \in {"final", "done"} THEN block'[r] ELSE 0

\* An event e comes out of generate(): x402 or _stream() takes it; _stream()
\* holds one event back, so the first one is not followed by a yield.
Take(r, e) ==
    /\ last' = [last EXCEPT ![r] = e]
    /\ IF route[r] = "direct"
       THEN GoTo(r, "push") /\ SetContext(r, Seen(r, e)) /\ UNCHANGED pend
       ELSE IF pend[r] = "none"
       THEN UNCHANGED <<pc, ctx>> /\ pend' = [pend EXCEPT ![r] = e]
       ELSE GoTo(r, "push") /\ UNCHANGED <<pend, ctx>>
    /\ UNCHANGED <<keyVars, price, entryVars, evidence, delivered, x402Vars>>

Streaming(r) == pc[r] = "pull" /\ last[r] \in {"none", "delta"}

PullDelta(r) ==
    /\ Streaming(r)
    /\ UNCHANGED <<answerVars, why>>
    /\ Take(r, "delta")

PullFinal(r) ==
    /\ Streaming(r)
    /\ \E usd \in Usages \cup {0} : Answer(r, usd)
    /\ Take(r, "final")

PullDone(r) ==
    /\ pc[r] = "pull" /\ last[r] = "final"
    /\ UNCHANGED <<answerVars, why>>
    /\ Take(r, "done")

\* Any exception becomes an error event, the last one of the stream.
PullError(r) ==
    /\ Streaming(r)
    /\ outcome' = [outcome EXCEPT ![r] = "broken"]
    /\ UNCHANGED <<block, why>>
    /\ Take(r, "error")

MutantExhausted(r) ==     \* the cost is left to the finally block
    /\ pc[r] = "pull" /\ last[r] \in {"done", "error"}
    /\ GoTo(r, IF route[r] = "direct" THEN "close" ELSE "bill")
    /\ UNCHANGED <<keyVars, price, entryVars, answerVars, streamVars, sentVars, x402Vars, why>>

\* The sub-request has ended: _stream() records the cost before it yields more.
Exhausted(r) ==
    /\ pc[r] = "pull" /\ last[r] \in {"done", "error"}
    /\ GoTo(r, IF route[r] = "direct" THEN "close" ELSE "bill")
    /\ IF route[r] = "ohttp" THEN SetContext(r, IF last[r] = "done" THEN block[r] ELSE 0)
                             ELSE UNCHANGED ctx
    /\ UNCHANGED <<keyVars, price, entryVars, answerVars, streamVars, evidence, delivered,
                   x402Vars, why>>

\* A direct client reads the cost in the final event.
Push(r) ==
    /\ pc[r] = "push"
    /\ GoTo(r, "pull")
    /\ IF route[r] = "ohttp"
       THEN pend' = [pend EXCEPT ![r] = last[r]] /\ UNCHANGED <<evidence, delivered>>
       ELSE /\ UNCHANGED pend
            /\ IF last[r] = "final"
               THEN /\ evidence' = [evidence EXCEPT ![r] = block[r]]
                    /\ delivered' = [delivered EXCEPT ![r] = TRUE]
               ELSE UNCHANGED <<evidence, delivered>>
    /\ UNCHANGED <<keyVars, price, entryVars, answerVars, last, ctx, x402Vars, why>>

\* The billing frame tells the relay the cost; without a cost there is no frame.
StreamBill(r) ==
    /\ pc[r] = "bill"
    /\ evidence' = [evidence EXCEPT ![r] = IF last[r] = "done" THEN block[r] ELSE 0]
    /\ GoTo(r, "last")
    /\ UNCHANGED <<keyVars, price, entryVars, answerVars, streamVars, ctx, delivered,
                   x402Vars, why>>

\* The chunk with AAD "final" ends the stream; the finally block sets the
\* cost context once more, to the same cost.
StreamLast(r) ==
    /\ pc[r] = "last"
    /\ delivered' = [delivered EXCEPT ![r] = (last[r] = "done")]
    /\ SetContext(r, IF last[r] = "done" THEN block[r] ELSE 0)
    /\ GoTo(r, "close")
    /\ UNCHANGED <<keyVars, price, entryVars, answerVars, streamVars, evidence, x402Vars, why>>

\* The client is gone: the generator is closed at its yield.  Past the header
\* _stream()'s finally block sets the cost context from what was taken so far;
\* whether x402 reads it before or after that is x402's affair.
Disconnect(r) ==
    /\ pc[r] \in Yields
    /\ Note(r, "left")
    /\ GoTo(r, "close")
    /\ \/ UNCHANGED ctx
       \/ /\ route[r] = "ohttp" /\ pc[r] # "header"
          /\ SetContext(r, IF last[r] \in {"final", "done"} THEN block[r] ELSE 0)
    /\ UNCHANGED <<keyVars, price, entryVars, answerVars, streamVars, evidence, delivered,
                   x402Vars>>

----------------------------------------------------------------------------
(* x402's close(): _session_cost_calculator, then the session's add_cost.   *)

MutantFallback(r) ==     \* without a cost block, the static estimate is charged
    IF ctx[r] > 0 THEN ctx[r] ELSE 1

\* The cost parsed back from the answer; 0: it raises and nothing is charged.
SessionCostCalculator(r) == ctx[r]

MutantClose(r) ==     \* what the cap leaves is charged of a cost over the cap
    /\ pc[r] = "close"
    /\ GoTo(r, "done")
    /\ LET cost == IF spent + SessionCostCalculator(r) <= Cap
                   THEN SessionCostCalculator(r) ELSE Cap - spent
       IN  /\ charged' = [charged EXCEPT ![r] = IF paid[r] THEN cost ELSE 0]
           /\ spent' = IF paid[r] THEN spent + cost ELSE spent
           /\ UNCHANGED why
    /\ UNCHANGED <<keyVars, price, entryVars, answerVars, streamVars, sentVars>>

MutantUncapped(r) ==     \* the cap is not checked again when a request is settled
    /\ pc[r] = "close"
    /\ GoTo(r, "done")
    /\ charged' = [charged EXCEPT ![r] = IF paid[r] THEN ctx[r] ELSE 0]
    /\ spent' = spent + charged'[r]
    /\ UNCHANGED <<keyVars, price, entryVars, answerVars, streamVars, sentVars, why>>

\* A cost the session cannot hold is rejected as a whole.
Close(r) ==
    /\ pc[r] = "close"
    /\ GoTo(r, "done")
    /\ LET cost == SessionCostCalculator(r)
       IN  IF ~paid[r] \/ cost = 0
           THEN UNCHANGED <<x402Vars, why>>
           ELSE IF spent + cost > Cap
           THEN Note(r, "overCap") /\ UNCHANGED x402Vars
           ELSE /\ charged' = [charged EXCEPT ![r] = cost]
                /\ spent' = spent + cost
                /\ UNCHANGED why
    /\ UNCHANGED <<keyVars, price, entryVars, answerVars, streamVars, sentVars>>

----------------------------------------------------------------------------

\* The feed's price moves, expires or recovers; those without an answer
\* yet may feel it.
PriceChanges ==
    /\ price' \in (Prices \cup {0}) \ {price}
    /\ why' = [r \in Requests |->
                 IF price' = 0 /\ InFlight(r) /\ outcome[r] = "none" THEN why[r] \cup {"outage"} ELSE why[r]]
    /\ UNCHANGED <<keyVars, pc, entryVars, answerVars, streamVars, sentVars, x402Vars>>

Stream(r) == \/ StreamHeader(r) \/ PullDelta(r) \/ PullFinal(r) \/ PullDone(r) \/ PullError(r)
             \/ Exhausted(r) \/ Push(r) \/ StreamBill(r) \/ StreamLast(r)

\* What the worker thread does with a request once it has taken it.
Serve(r) == \/ Verify(r) \/ Gate(r) \/ Decap(r) \/ Dispatch(r) \/ Handler(r)
            \/ CompleteChat(r) \/ CompleteCompletion(r) \/ CompleteSearch(r) \/ InvokeFails(r)
            \/ Seal(r) \/ Send(r) \/ Stream(r) \/ Close(r)

Next ==
    \/ \E i \in Injectors : Inject(i)
    \/ \E r \in Requests : EnterWsgi(r) \/ Serve(r) \/ Disconnect(r)
    \/ PriceChanges

Spec == Init /\ [][Next]_vars

\* Worker threads run, the lock goes to a waiting thread in the end, and a
\* provider ends its stream (max_tokens bounds it).  Nobody has to call, and no
\* client has to leave.
Fairness ==
    /\ \A i \in Injectors : SF_vars(KeysAcquire(i)) /\ WF_vars(Install(i))
    /\ \A r \in Requests : WF_vars(Serve(r)) /\ SF_vars(PullFinal(r) \/ PullError(r))

FairSpec == Spec /\ Fairness

----------------------------------------------------------------------------

\* The payer is told what it pays: a cost reported to it - in the body, the
\* outer headers, the final event or the billing frame - is what x402 charges,
\* and nothing is charged unreported unless the client left first; a cost the
\* session cannot hold is the one exception (_build_billing_frame and
\* _extract_cost_headers against _session_cost_calculator).
Reconciled ==
    \A r \in Requests :
      pc[r] = "done" /\ paid[r] /\ "overCap" \notin why[r] =>
        /\ evidence[r] > 0 => charged[r] = evidence[r]
        /\ charged[r] > 0 => evidence[r] = charged[r] \/ "left" \in why[r]

\* A paid answer delivered whole is charged for, on every route and for every
\* kind, unless the provider told no usage, the feed had no price when the cost
\* was due, or the session was exhausted (the cost context set by the OHTTP
\* controller against x402's close).
NoSilentLoss ==
    \A r \in Requests :
      pc[r] = "done" /\ paid[r] /\ delivered[r] /\ outcome[r] = "ok" /\ charged[r] = 0 =>
        why[r] \cap {"noUsage", "lapsed", "overCap"} # {}

\* What failed is free: neither a refused request, nor an error of a provider,
\* nor a stream that broke after half an answer takes anything from the session
\* (the cost block is the only way to a charge).
FailureIsFree == \A r \in Requests : outcome[r] # "ok" => charged[r] = 0

\* An answer is given away for want of a price only if the feed lost it while
\* the request was in flight: the gate lets no request in without a price, the
\* OHTTP envelope included (_check_pricing_ready).
LapseOnlyInFlight ==
    \A r \in Requests : "lapsed" \in why[r] => "outage" \in why[r]

\* Once POST /v1/keys has answered 200, nobody is served without paying
\* (set_provider_keys sets _keys_initialized last).
PaidAfterInjection ==
    \A r \in Requests : outcome[r] = "ok" /\ ~paid[r] => "early" \in why[r]

\* The inner request of an OHTTP request never meets the payment middleware it
\* could not satisfy, also while the middleware is being installed
\* (OHTTP_INNER_WSGI_APP is saved before the middleware is attached).
InnerNeverChallenged == \A r \in Requests : "challenged" \notin why[r]

\* Keys are injected once: one call answers 200 at most, and 409 is answered
\* only after it, however many calls race and fail (_keys_lock).
InjectedOnce ==
    /\ \A i, j \in Injectors : injPc[i] = "ok" /\ injPc[j] = "ok" => i = j
    /\ \A i \in Injectors : injPc[i] = "conflict" => \E j \in Injectors : injPc[j] = "ok"

\* Every call that got a worker thread is answered and gives the thread back,
\* with any number of threads: neither the key lock nor the OHTTP sub-request,
\* which runs in the thread of its outer request, can hang one (_wsgi_subrequest).
EveryCallAnswered ==
    /\ \A r \in Requests : InFlight(r) ~> pc[r] = "done"
    /\ \A i \in Injectors : injPc[i] = "waiting" ~> injPc[i] \notin Injecting

\* The gateway keeps Billing's promise: a request is quoted once, when its
\* answer is signed, and closed once, for its quote or for nothing.
Bill == INSTANCE Billing WITH
    stage <- [r \in Requests |-> IF pc[r] = "done" THEN "closed"
                                 ELSE IF outcome[r] = "ok" THEN "quoted" ELSE "open"],
    quote <- block, charge <- charged, spent <- spent

SettledOnce == Bill!Spec

\* "Callers pay per request via EVM micropayments" (security_controller.py):
\* no request is answered by a model without going through x402.
NoUnpaidService == \A r \in Requests : outcome[r] = "ok" => paid[r]

\* X-Inference-Cost-OPG is "the integer x402 actually charged"
\* (ohttp_controller.py, its module comment).
HeaderIsCharge ==
    \A r \in Requests :
      pc[r] = "done" /\ paid[r] /\ route[r] = "ohttp" /\ kind[r] # "stream" /\ evidence[r] > 0
        => charged[r] = evidence[r]
=============================================================================
