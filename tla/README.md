# TLA+ models of the TEE gateway

The gateway runs inside an enclave and sells model answers: a client, or a relay that
forwards an encrypted (OHTTP) request, pays per request through x402; the answer is
signed with a key only the enclave holds. These modules model the parts of the gateway
whose correctness depends on the order in which threads, clients and services act, and the
arithmetic and the classifications its answers and its prices rest on.

## Inventory

| Part (`src/tee_gateway/...`) | State it keeps | Operations | What is hard | What makes it correct |
|---|---|---|---|---|
| Price feed, `price_feed/` | `_thread`, `_price`, `last_success`, error counters | `start`, refresh loop, `get_price`, `get_status` | racing starts, outages, 429s, time | a price is fresh or refused, it recovers, the status is consistent |
| Key injection, `__main__.py` 403-566 | `_keys_initialized`, `_keys_lock`, the provider config, the saved inner app, `application.wsgi_app` | `POST /v1/keys` | races, exceptions between its effects, requests meanwhile | once only; repeatable after a failure; nobody is served unpaid after it |
| Gate and settlement, `__main__.py` 150-400, 674-699 | x402's sessions (external) | pricing gate, cost callback | price lost in flight, sessions with a cap | charge = reported cost, once, or nothing |
| OHTTP controller, `controllers/ohttp_controller.py` | per request: look-ahead, cost context | decrypt, inner request, seal, billing frame | disconnects at each yield, look-ahead | the payer is told what it is charged |
| Chat, completions, web search, `controllers/` | none shared | answer or stream events, sign, price | errors in mid-stream, missing usage | failures are free, answers are not lost to billing |
| Pricing, `pricing.py`, `model_registry.py` | tables | cost of an answer | rounding, dual rates, tiers, usage reported by others | covers the work at the registry's rates, and exceeds it by less than a unit |
| OHTTP encapsulation, `ohttp.py` | chunk counter, `_finalized` | varints, chunk sealing | one final chunk on every way out | truncation is evident, nonces are unique |
| Heartbeat, `heartbeat/` | thread, stop event, `_running` | `start`, `stop`, send with retries | stop against a slow relay, lost replies, repeated injections | one thread; one acknowledged relay per beat; goes on until stopped |
| TEE keys, `tee_manager.py`, `gunicorn_conf.py` | the singleton | create, register, sign, worker exit | lazily created without a lock | one signing key, the registered one |
| Image generation, `image_generation.py` | none shared | WaveSpeed submit, poll, fetch, delete; references | deadlines, retries, cleanup | ends by the deadline; deletes on every way out; bills what was sent |
| Moderation, `moderation.py`; errors, `errors.py`; body pre-read, `body_preread.py` | HTTP client | classify | odd inputs, several ways out | fail-open; the right status; nothing spent on what is refused |
| Provider backend, `llm_backend.py` | clients, config, model cache | configure, get a model | replaced under look-ups in flight | no stale model stays cached |
| Generated API layer, facilitator types, scripts, examples | none | - | - | not modelled |

A request enters through gunicorn's one process and its worker threads. Before keys are
injected it goes straight to the Flask application; `POST /v1/keys` wraps the application in
x402's middleware. The pricing gate (a `before_request` hook) asks the price feed. The OHTTP
controller decrypts and issues the inner request in the same thread, to the application as
it was before the middleware, so the gate runs a second time. The controller answers, signs
and embeds a cost block; x402 finds that block in the response (direct routes) or in a
request-local cost context the OHTTP controller fills (`/v1/ohttp`), and settles it when the
response is closed.

`PROJECT.json` lists each hazard at the line where it bites, with the properties that would
catch it going wrong.

## Modules

**`PriceFeed`** is `OPGPriceFeed` as a timed state machine. `StartCheck`, `StartAssign` and
`StartRun` are the three steps of `start()`: the check holds the lock, the other two do not,
and `self._thread` is read again before it is started. `FetchOk`, `FetchFail`,
`FetchRateLimited` and `Wake` are a refresh thread's attempts and sleeps; `ReadClock` and
`ReadPrice` are `get_price()`, which reads the clock before it has the lock. `Tick` is time:
a thread may be late by `MaxLag`, never more, and a fetch lasts `FetchMax` at most. The price
is abstracted to its age, since nothing else of it is visible to the properties.

**`Gateway`** is the life of a paid request composed with the injection of keys and a price
that may be lost. `KeysArrive` ... `KeysFail` are `set_provider_keys` cut at the effects a
request can see: the provider config (437), the saved inner application (379), the middleware
(383-397), the flag (539). An exception between two of them is `KeysFail`. A request is
taken by a worker thread (`EnterWsgi`, which reads `application.wsgi_app` once), passes x402
(`Verify`, external) and the gate (`Gate`), and for OHTTP `Decap`, `Dispatch` and the gate
again. `Handler` is validation, moderation and the look-up of a model. `CompleteChat`,
`CompleteCompletion` and `CompleteSearch` are the answers in one piece, `PullDelta`,
`PullFinal`, `PullDone` and `PullError` the events of `generate()`, images included, which
produce the same events in fewer pieces; `Take`, `Push`, `Exhausted`, `StreamBill` and
`StreamLast` are `_stream()` with its look-ahead, one step per `yield`, and `Disconnect` is the
client leaving at one of them. `Close` is x402's settlement with `_session_cost_calculator`.
Whether x402 computes the cost before or after it closes the response iterator is not in this
repository, so `Disconnect` allows both. A usage, a cost and a price are small numbers, 0
standing for "none"; texts, tools, hashes and signatures are one outcome, `"ok"`.

**`Billing`** is the abstract specification of settlement: open, quoted, closed. `Gateway`'s
`Bill` maps an `"ok"` outcome to quoted and the end of the request to closed; the property
`SettledOnce` is `Billing`'s specification under that mapping.

**`WaveSpeed`** is one request for images in `image_generation.py`, for WaveSpeed (`"task"`) and
for the providers that answer in one call (`"call"`). `UploadRef` and `Submit` come before there
is a prediction; `Sleep`, `QueryAnswered`, `QueryTransient` and `QueryRefused` are
`_wavespeed_wait()`, with `GoOn` for its deadline and back-off; `FetchOk` ... `FetchDone` are the
look at every entry of the answer's list and `_fetch_url_as_data_uri()`; a list has `usable` entries, which
hold an image or its URL, and others, which `FetchSkip` leaves out as the code does (605-610 with a line in the
log, 718-726 without); `Delete` is the `finally` block.
`PredictionEnds` is WaveSpeed, which may also never end, and `CloseClient` an injection repeated
after a failed one. Time passes only in the polls, where the code measures it. Two variables are
not in the code: `streak` counts the failed queries in a row independently of `poll_errors`, and
`why` notes the reasons the properties ask for.

**`ChatStream`** is the generator behind a streamed answer. A provider sends texts, pieces of
tool calls and usage in any order; `TextChunk`, `CallChunk` and `UsageChunk` relay or keep them by
the provider's kind (calls buffered or not, usage as increments or running totals), `InvokeOnce` is
an answer that comes whole, `Flush`, `SignFinal`, `SayDone` and `Break` end the stream. A piece is
its number, so that a lost, repeated or reordered one shows. The generator runs only while its
consumer waits for an event, as in the code.

**`Varint`** has the length encoding of `ohttp.py`, in both directions. **`OhttpStream`** composes
both: `TakeEvent`, `Exhausted`, `SendBill`, `SealLast` and `Leave` are `_stream()` with its event
of look-ahead, `EncryptChunk` is the encrypter with its counter and its final chunk. Sealing is
abstracted to what it binds: a chunk opens under its nonce, as final or not. `Opened` and
`Complete` are a client's reading of the bytes.

**`SealedChannel`** is the abstract specification of that stream: events open one by one, in order,
never the last one known so far, and the end comes with the last. `ImplementsChannel` is the
refinement.

**`TeeKeys`** is the key manager with its unlocked creation (`SeeNone`, `Make`, `Assign`: a check,
a construction, an assignment) and the worker it lives in, with gunicorn's hook on its exit.
**`Heartbeat`** is the service's thread (`Begin`, `Loop`, `Post`, `Relay`, `Retry`, `Wake`), `start()`,
and `stop()` in two steps, since its join may give up. **`ProviderBackend`** is the configuration, the
shared clients and the model cache; a key, a client and a configuration are the number of the
injection they came with, so that a stale one shows. **`Lifecycle`** composes the three: a worker from
its start to its exit, `set_provider_keys` call by call (`InjectClients` ... `InjectPayment`) while
other threads look models up and sign. The lock of `set_provider_keys` is `step`; who holds and who
waits is modelled in `Gateway`.

**`Errors`** classifies an exception, **`Pricing`** computes costs. **`Admission`** runs a request through
them, payment aside: `ReadBody`, `Gate`, `Open` (the envelope, the inner dispatch), `Validate`,
`Moderate`, then `CallFails` or `CallAnswers`, or `Search`. What a client sends or a service answers is
chosen at the step that first looks at it. `truth` is what the provider really used, `usage` what it
reports of it: only their difference tells a covering cost from one that is merely computed. `Listed` is the
work at the registry's rates, `Charged` what the provider itself charges: it differs where the registry says that
it does, for a model priced by the length of the prompt (`Surcharge`).

**`MCPriceFeed`**, **`MCGateway`**, **`MCOhttpStream`** and **`MCAdmission`** give the constants values
(`WaveSpeed`'s and `Lifecycle`'s are all in their `.cfg` files). The modules named `...Proofs` hold the
theorems. Operators named `Mutant...` are variants of the definition that follows them, each a plausible bug
that breaks one property.

## Runs

| Run | Checks | Bounds |
|---|---|---|
| `price_feed` | `TypeOK`, `StatusConsistent`, `ExpiredOnlyAfterOutage`, `ServedFresh`, `RecoversForGood` | two `start()` calls, one reader; two attempts per cycle; the counters saturate after the price expires |
| `price_feed_start` | `OneRefreshThread`, violated | the same |
| `gateway` | `TypeOK`, `Reconciled`, `FailureIsFree`, `SettledOnce` | two requests (direct search, OHTTP stream) of a session that holds one or two answers, prices 1, 2 and none, one injection |
| `gateway_kinds` | `NoSilentLoss`, `LapseOnlyInFlight`, `PaidAfterInjection`, `InnerNeverChallenged`, `InjectedOnce`, `EveryCallAnswered` | one request of each kind and route, two injections, two worker threads |
| `gateway_window` | `NoUnpaidService`, violated | one request, one injection |
| `gateway_header` | `HeaderIsCharge`, violated | two OHTTP requests of one session |
| `wavespeed` | `TypeOK`, `NothingKeptSilently`, `BlipsForgiven`, `WaitBounded`, `OnlyDudsLeftOut`, `AnsweredInTheEnd` | the code's own delays, deadline and retry counts, in half seconds; two references, a list of up to two entries with or without an image, three durations of a query |
| `wavespeed_relay` | `TimesOutInTime`, violated | the same, without references |
| `ohttp_stream` | `TypeOK`, `SignedAsAssembled`, `NothingLost`, `UsageCounted`, `EndsOnce`, `FramesDecode`, `CutShowsItself`, `ImplementsChannel` | the three kinds of provider, the three modes; two texts, two calls of two pieces, two tokens; chunk lengths on both sides of 2^6, 2^14 and 2^30 |
| `lifecycle` | `TypeOK`, `OneSigningKey`, `OncePerBeat`, `LastWord`, `FreshModels`, `OneHeartbeat`, `KeepsBeating` | two threads, one of them serving inference; two key managers, two injections, two models of which one shares a client, a cache of one, three attempts per beat |
| `admission` | `ProviderSpared`, `ClientNotBlamed`, `CoversListed`, `FlagReachesRelay` | six models, one for each way of asking, sending references, billing and charging (one token is a long prompt); bodies of 0 to 2 bytes against a cap of 1; two parts, two images, one token of each sort; sixteen provider statuses; prices none and 3 |
| `admission_outage` | `ModerationFailsOpen`, violated | the same |

Two requests are enough for what they share: the session's spending, the price, the
middleware and the worker threads. A third would only repeat a conflict over the cap. Two
injections show the winner with a loser, and a failure with a retry. A stream may have any number
of deltas: they leave the state unchanged after the second. The session of the `gateway` run
holds an answer at either price, or one and a cheap one, so that charges fit, exhaust and
exceed it. Deadlock is not checked in the `gateway` runs because every call may be over; that a
call in flight never hangs is `EveryCallAnswered`.

`WaveSpeed` needs no scaled-down time: delays and deadline are the code's, a query is immediate,
takes 1.5 s (so that sums fall between the deadline's steps) or as long as the client's pool,
connect, write and read time-outs allow together (`QueryMax`). httpx applies them to each operation, so an answer that
trickles in could last longer: `WaitBounded` assumes that a query does not. Requests share nothing but the HTTP client,
so one is enough.

Two calls of two pieces in any order with two texts show every interleaving that can go wrong:
pieces of one call, pieces of two, text between them; the third of anything takes the same
branches. Two managers are what a race for the keys can produce and two threads what it takes;
one caller is enough for the cache, since look-ups share nothing else and the injection is its
rival; the cache of one shows eviction. Two injections are a failure and a retry. The token counts and
rates of `admission` are small so that the differences between the rates, the rounding
(`Scale = 2`, price 3: quotients with and without a remainder) and every clamp occur; the statuses are
those the code names, some it does not (404, 407, 413, 422, 451) and a redirect. `CHECK_DEADLOCK FALSE`
stands in `ohttp_stream`, `lifecycle` and the `admission` runs because a stream ends, a process exits and a
request is answered.

The five violated properties quote the repository's own words (see `findings` in
`PROJECT.json`): `start()`'s docstring claims the check-and-start is under the lock;
`security_controller.py` calls x402 the access control, while providers are usable before the
middleware is attached, for good if the injection fails in between; `ohttp_controller.py`
calls the cost header what x402 actually charged, while a cost over the session's cap is
charged nothing; `image_generation.py` wants its time-out reported before the relay stops
listening, while one hanging query, checked only afterwards, may outlast the relay; and
`moderate_messages` says it never raises, while an answer whose `results[0]` is no object, or a client
that a repeated injection has closed, raises what no `except` clause names.

Also met while modelling, without a run of their own: `stop()` of the heartbeat says it waits for
the thread, and gives up after 10 s (`LastWord` is what remains true); "blocked implies flagged"
(`moderation.py` 142) is not enforced on the verdict; `run_web_search` says it never raises, and a body of
Exa that is no object makes it; text beside tool calls is relayed but not signed
(`SignedAsAssembled` states it as it is); 409 and 425 are called retryable and yet passed on as the
caller's 4xx; a provider's own 451 looks like the gateway's; and a flagged request whose call then fails
in one piece carries no flag (`FlagReachesRelay` claims it of answers and blocks only).

Two races are in `Lifecycle` and outside its properties, which name them as their exceptions. After an
initialization that failed at startup two requests may each make a key manager, since `get_tee_keys()` checks, creates
and assigns without a lock, and answers are signed with both: `OneSigningKey` presupposes `booted`. And
a look-up that overlaps a repeated injection may put a model of the earlier keys into the cache after it was
cleared, where it stays: `FreshModels` exempts a `raced` look-up of a second injection, and no other.

Three more concern what is left out or left behind. A provider's list of images may hold entries without one: an
output that is no http(s) URL (WaveSpeed), an item without data or URL (the others). The code leaves them out,
without a word to the client, and bills what is left, so an answer may be short of what was asked for, or hold no
image at all; `OnlyDudsLeftOut` says that nothing else is left out, above all no image whose fetch
failed. Claude Haiku 5.5 costs five times as much for prompts over 100k tokens, and the registry, which has one rate
per model, bills them at the lower rate (`model_registry.py` 624-630 says so): for such a prompt a cost
covers a fifth of what the provider charges. `CoversListed` states the shortfall: a cost covers the work at the registry's
rates always, what the provider charges whenever the prompt is not a long one, and otherwise that divided by
the factor. References uploaded to WaveSpeed are never deleted: `NothingKeptSilently` is about predictions.

## Fairness

`PriceFeed`: the application calls `start()` at import, the refresh thread is a daemon thread
that runs and time passes; nothing is assumed of CoinGecko except what `RecoversForGood` states
in its premise. `Gateway`: a worker thread that has a request goes on (weak fairness of
`Serve`); `_keys_lock` goes to a waiting thread in the end (strong fairness of `KeysAcquire`);
a provider ends its stream, as `max_tokens` bounds it (strong fairness of the last event).
Nobody has to send a request or to leave. `WaveSpeed`: the worker thread that runs the request
goes on (every call it makes has a time-out); nothing is assumed of WaveSpeed, which need not
ever end a prediction. `Lifecycle`: the heartbeat's daemon thread runs, its waits and its relays time
out (weak fairness of `HeartbeatSteps`); nothing is assumed of requests, injections or the relay's answers.
`OhttpStream` and `Admission` state no fairness: a client or a provider may stop at any point.

## Proofs

TLAPS proves, for every value of the constants that satisfies the named assumptions
(`PriceFeedAssumption`, `GatewayAssumption`, `CatalogueAssumption` and the like), what the runs show on
small instances: every safety property of every passing run, and both refinements.

**`PriceFeedProofs`** rests on two invariants. `TypeInv` adds to the types what time needs: a
retry follows only an attempt that was not the last one, and no thread is past the limit of
its phase. `SomeThreadVouches` is the argument about staleness: as long as there is a price,
some live refresh thread can account for the price's whole age by the failed cycles it has
counted and the time it spent in its present one. With several threads (a lost race in
`start()`) no fixed thread can: another thread's success resets the counter, so the witness
changes, and only the existential is inductive. `ExpiryNeedsOutage` and `PricesAreFresh` follow.

**`GatewayProofs`** builds one invariant in layers, each inductive relative to those below.

| Layer | What it says | What follows |
|---|---|---|
| `TypeOK` | types, spending within the cap | `TypeCorrect` |
| `KeysInv` | one holder of the lock; the inner app before the middleware before the flag; the flag exactly when a call answered 200 | `KeysInjectedOnce`, `NoInnerChallenge` |
| `AdmissionInv` | who did not go through x402 entered early | `NobodySlipsIn` |
| `StagesInv` | where a request stands tells how far its answer has come | the layers below |
| `LapseInv` | past the gate there is a price, or an outage was noted | `LapseNeedsOutage` |
| `MoneyInv` | the cost block is the one source of what is recorded, told and charged, and a cost is recorded before it is told | `FailuresAreFree`, `CostsReconcile`, `NothingLostSilently` |

`Reconciled` alone is not inductive: it speaks of finished requests only. What makes it so is
`ToldInv`, which says of every stage in between which of context, evidence and block already
agree. `ImplementsBilling` maps each step to `Quote`, `Waive`, `Settle` or a stutter
(`BillingView`). `RequestFrame`, that a step of one request leaves the others alone, reduces
every step to one request. `CeilPositive` shows that a cost that is due is never rounded to 0.

**`WaveSpeedProofs`** has one invariant, for all delays, deadlines and retry counts: `StageInv`
(before there is a prediction nothing was noted), `ClockInv` (a sleep starts within the
deadline, so a query starts within the deadline and one sleep; `WaitBounded` alone says nothing
of where the next step starts), `ErrorInv` (`poll_errors` is the number of failures in a row, and
below its limit while polling goes on), `RemoteInv` (a deleted prediction only after the end) and
`OutputInv` (as many entries are left as there are images not yet taken, so that when none is left every image is there).

**`VarintProofs`** shows that the encoding of every length a varint can hold decodes to itself
(`VarintRoundTrip`) and that no proper prefix of it decodes (`CutLengthRefused`). The limit 2^62 is
stated on the upper word, `(v \div 65536) \div 65536 < 2^30`, because the prover folds constants in
63 bits and would turn 2^62 into a negative number, which makes any theorem about lengths below it empty.

**`OhttpStreamProofs`** proves how any stream ends, whatever the number of texts, calls and pieces.
`EndInv` says what `EndsOnce` does not: which events there are at each stage of the generator, so that
`[DONE]` can only follow the one final frame. `UsageInv` carries the sum of what was reported up to the
final frame. `FrameInv` says that each chunk on the wire has the encoding of its own length in front;
with the two lemmas on varints `FramesDecode` follows, for chunk lengths a varint can hold
(`LengthsFit`).

**`LifecycleProofs`** proves all six safety properties of `lifecycle`, from three invariants. `KeyInv`: once the
startup has made a manager, no thread can be past the check that found none. `BeatInv`: while attempts
go on none was acknowledged, and after a relay that began too late the thread is past the place where it
begins one. `BackInv`: which of a look-up's two reads may be stale at each step of an injection. A look-up
that overlaps one is marked, and what it leaves in the cache is stale only if an injection had failed
before: in the first one nothing can be looked up until its configuration is set. `NeverAnother`
needs `KeyInv`: an injection that gets as far as the heartbeat has keys to give it, so the service it makes is there.

**`ChannelProofs`** is about what a stream holds, so it needs induction over sequences of any length. The
prover has no induction rule it can instantiate, but it has the least-number principle: `LeastNatural`
follows from the well-foundedness of `<`, and `AllNaturals` from that, both as facts about sets. With them
the recursive function in `Glue` is shown to exist, to be unique and to grow with its last part
(`GlueExists`, `GlueAgrees`, `GlueAppend`), which is why a client's reading of the bytes, `TextOf` and
`PiecesOf` are written with `Glue`. Four invariants rest on these lemmas.

| Invariant | What it says | What follows |
|---|---|---|
| `ContentInv` | the frames so far hold the texts kept and, call by call, the pieces asked for or those flushed; each call is in the order once; what is signed is one of the two | `SignatureCoversAnswer`, `NothingIsLost` |
| `WireInv` | the k-th chunk on the wire is sealed as the k-th, with the k-th event; which of them was taken by where `_stream()` stands; no shorter wire ends with a final chunk | `CutIsSeen` |
| `OpenInv` | every chunk opens, and the end shows exactly when it was sealed | `StreamIsChannel` |
| `NonceInv` | the counter is ahead of every nonce, and nothing is behind the final chunk | `NoncesAreFresh` |

`SizeInv` keeps what was said, asked for and used within the bounds of the constants (`StreamTypesHold`). `CutIsSeen` needs
nothing of the lengths: a chunk that does not open only shortens what a client has. The refinement does
(`LengthsFit`): a chunk longer than a varint can hold would never open, and the end never show.

**`AdmissionProofs`** proves the four properties of `admission` for any registry, statuses and bounds.
`BlameInv` says that nothing was raised before the end; `StageInv` lists the checks a request has
passed by where it stands, which is what makes "no provider was called" an invariant. `BillInv` says what was
used by then: nothing before the call, then either tokens or images with the references that were sent. Under it
lies the arithmetic: `CeilBounds` (rounding up by division), `TokensCovered` (two rates, whatever is reported as
reasoning), `CostCovers` (the cost itself), `ImagesAtWorth` (the tier is one the model has, and what is billed
for references is what was delivered), `ChargeCovered` (what covers the work at the registry's rates covers the
provider's charge up to its factor). `CatalogueAssumption` is what the registry's entries have in common:
prices are no less than 0, an image token costs no less than a text token, and no model that takes references in a
form has a price for them. With usage that overstates reasoning the cost may fall below the work: `CoversListed` says by
how much. The price may move at any step: `Answer` reads it once, and the bounds hold for the price it read.

Only model-checked: `RecoversForGood`, `EveryCallAnswered`, `AnsweredInTheEnd` and `KeepsBeating`, since
liveness under fairness is out of the prover's reach. Proofs assume of x402 what `Verify` and `Close` say of it.

## Plan

Done: the price feed, the gateway with the injection of keys and `Billing`, `WaveSpeed`, the sealed stream,
the worker's lifecycle, admission with errors and pricing, and proofs of all their safety properties. What could follow:

1. x402's reaper of idle sessions against a request in flight (`__main__.py` 389), once its source is at hand:
   listed as a hazard without a property, as are the two races described under "Runs".
2. The safety half of each liveness property as a theorem of its own: which actions are enabled at each stage (no
   stage without a way on), stated without `ENABLED`.
3. The conversion of messages and schemas (`llm_backend.py` 526-700), should a property ask for it.

## Not modelled

- x402, the facilitator, CoinGecko, the providers, Exa, WaveSpeed and the relay are outside
  this repository's source; they appear as nondeterministic outcomes, as the code uses them.
- Cryptography (HPKE, AEAD, signatures, hashes, attestation documents) is outcomes: it succeeds or raises,
  and a chunk opens under its nonce and no other.
- Texts, formatting, wording, message conversion and the mapping between provider and OpenAI schemas: no
  property is about them. The table of models is a constant; `admission` takes six entries that differ
  in every field the code looks at. Apart from the second rate for long prompts the registry's rates are taken for the
  providers' own; some are its approximations of token prices (`gpt-image`: a flat price per image, none for
  references), which no model can check. What a provider charges for an entry that holds no image, or for an answer
  that fails, is not in this repository; the gateway bills neither. The clients of Exa and of moderation, which an injection replaces like the
  providers', are not in `Shared`: nothing caches what is built from them.
- The last division of a cost is exact in the model; `Decimal` has 28 digits.
- The generated API layer (`models/`, `encoder.py`, `util.py`), the facilitator's data types, scripts,
  examples: no state.
