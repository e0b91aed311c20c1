----------------------------- MODULE Admission -----------------------------
(***************************************************************************)
(* One request from its first byte to its answer, payment aside: the body is *)
(* read (body_preread.py), the price gate, the OHTTP envelope and the second  *)
(* dispatch inside it, the checks of the chat controller, moderation, the     *)
(* provider or the search, the cost, the answer.  A field of the request, or  *)
(* what a service answers, is chosen at the step that first looks at it.      *)
(***************************************************************************)
EXTENDS Errors, Pricing, FiniteSets

CONSTANTS
    Catalogue,            \* the models: entries of the registry
    MAX_PAID_REQUEST_BYTES,
    MaxTokens,            \* bound: tokens of each sort
    MaxImages,            \* bound: images generated
    MaxParts,             \* bound: parts of the newest user turn
    Prices,               \* dollars per token the feed may show
    ProviderStatuses,     \* bound: statuses of a provider's refusal
    SearchUsd             \* WEB_SEARCH_PRICE_USD

VARIABLES
    entry,    \* the path: "chat", "search", "ohttp"
    at,       \* where the request stands
    inner,    \* it is inside the envelope
    endpoint, \* the handler it is for, or "none"
    size,     \* bytes of the body
    price,    \* what get_price() returns; 0: it raises
    model,    \* the registry's entry
    options,  \* resolution and stream
    parts,    \* the newest user turn
    verdict,  \* ModerationOutcome, or NoVerdict
    calls,    \* the services called: "moderation", "provider", "exa"
    sent,     \* references that reached the provider
    usage,    \* what it has reported of them
    truth,    \* the tokens the provider has used, by sort
    images,   \* images the client is given
    exc,      \* what the handler raised, or NoError
    answer    \* status, cost, the flag headers, the sealing, the error's report

vars == <<entry, at, inner, endpoint, size, price, model, options, parts, verdict, calls,
          sent, usage, truth, images, exc, answer>>

requestVars == <<entry, inner, endpoint, size, model, options, parts>>
resultVars  == <<verdict, calls, sent, usage, truth, images, exc>>

ASSUME AdmissionAssumption ==
    /\ MAX_PAID_REQUEST_BYTES \in Nat /\ MaxTokens \in Nat /\ MaxImages \in Nat
    /\ MaxParts \in Nat /\ Prices \subseteq Nat /\ SearchUsd \in Nat

\* What holds of every entry of the registry: prices are non-negative, an image
\* costs no less than text at the rate per token, and no model that takes its
\* references in a form (image_edit_endpoint) has a price for them.
ASSUME CatalogueAssumption ==
    \A cfg \in Catalogue :
        /\ IsModel(cfg)
        /\ cfg.maxReferences \in Nat
        /\ \A t \in cfg.tiers \cup {cfg.defaultTier} :
              /\ cfg.perImage[t] \in Nat /\ cfg.perReference[t] \in Nat
              /\ cfg.delivery = "form" => cfg.perReference[t] = 0

NoVerdict == [checked |-> FALSE, flagged |-> FALSE, blocked |-> FALSE]
NoTruth   == [input |-> 0, text |-> 0, image |-> 0, thinking |-> 0]
NoUsage   == [input |-> 0, output |-> 0, reasoning |-> 0]
OwnError  == [provider |-> FALSE, status |-> 0, timeout |-> FALSE, connection |-> FALSE]
NoError   == [OwnError EXCEPT !.status = -1]
NoReport  == [source |-> "none", provider_status |-> 0, retryable |-> FALSE]
NoAnswer  == [status |-> 0, cost |-> NoCost, flag |-> FALSE, sealed |-> FALSE, report |-> NoReport]
NoModel   == [kind |-> "none"]

Init ==
    /\ entry \in {"chat", "search", "ohttp"}
    /\ at = "read" /\ inner = FALSE
    /\ endpoint = IF entry = "ohttp" THEN "none" ELSE entry
    /\ size = 0
    /\ price \in Prices
    /\ model = NoModel
    /\ options = [resolution |-> "omitted", stream |-> FALSE]
    /\ parts = << >>
    /\ verdict = NoVerdict
    /\ calls = {} /\ sent = 0 /\ usage = NoUsage /\ truth = NoTruth /\ images = 0 /\ exc = NoError
    /\ answer = NoAnswer

Go(next) == at' = next /\ UNCHANGED answer

\* The handler's answer.  Inside an envelope a 2xx is sealed, anything else goes
\* to the relay as it is (_build_outer_response).
ReplyWith(status, cost, flag, report) ==
    /\ at' = "done"
    /\ answer' = [status |-> status, cost |-> cost, flag |-> flag,
                  sealed |-> inner /\ status \in 200..299, report |-> report]

Reply(status, cost, flag) == ReplyWith(status, cost, flag, NoReport)

Refuse(status) == Reply(status, NoCost, FALSE)

\* The feed refreshes, or its price expires, at any moment.
PriceMoves ==
    /\ at \notin {"read", "done"}
    /\ price' \in Prices
    /\ UNCHANGED <<at, answer, requestVars, resultVars>>

----------------------------------------------------------------------------
(* Before the handler.                                                      *)

\* read_body_before_responding(): by its declared length, or chunked up to the
\* cap and a byte; a request with neither is passed on as it is.
ReadBody ==
    /\ at = "read"
    /\ \E declared \in 0..(MAX_PAID_REQUEST_BYTES + 2), chunked \in BOOLEAN,
          n \in 0..(MAX_PAID_REQUEST_BYTES + 2) :
          /\ declared > 0 => n = declared
          /\ declared = 0 /\ ~chunked => n = 0
          /\ size' = n
          /\ IF declared > MAX_PAID_REQUEST_BYTES \/ (chunked /\ n > MAX_PAID_REQUEST_BYTES)
             THEN Refuse(413) ELSE Go("gate")
    /\ UNCHANGED <<price, entry, inner, endpoint, model, options, parts, resultVars>>

\* _check_pricing_ready(), for the path at hand: inside an envelope it runs
\* again, and now it sees the model.  A body that names none passes, one that is
\* no object or names no string raises.
Gate ==
    /\ at = "gate"
    /\ IF price = 0 THEN Refuse(503) /\ UNCHANGED model
       ELSE IF endpoint # "chat"
       THEN Go(IF endpoint = "none" THEN "open" ELSE endpoint) /\ UNCHANGED model
       ELSE \/ (Refuse(400) \/ Refuse(500)) /\ UNCHANGED model
            \/ Go("chat") /\ model' \in Catalogue \cup {NoModel}
    /\ UNCHANGED <<price, entry, inner, endpoint, size, options, parts, resultVars>>

\* create_anonymous_chat_completion() up to the second dispatch: what cannot
\* be decrypted or read is refused in the clear, an unknown endpoint under seal.
Open ==
    /\ at = "open"
    /\ \/ Refuse(400) /\ UNCHANGED <<inner, endpoint>>
       \/ /\ size > 0
          /\ at' = "done"
          /\ answer' = [status |-> 200, cost |-> NoCost, flag |-> FALSE, sealed |-> TRUE,
                        report |-> NoReport]
          /\ UNCHANGED <<inner, endpoint>>
       \/ /\ size > 0
          /\ inner' = TRUE /\ endpoint' \in {"chat", "search"}
          /\ Go("gate")
    /\ UNCHANGED <<price, entry, size, model, options, parts, resultVars>>

----------------------------------------------------------------------------
(* create_web_search() and web_search.py.                                   *)

SearchRefused ==
    /\ at = "search"
    /\ \E s \in {400, 415, 503} : Refuse(s)
    /\ UNCHANGED <<price, requestVars, resultVars>>

\* Exa cannot be reached, refuses or answers no JSON: 502; an answer of another
\* shape than an object raises out of the handler: 500.  Results or none, a
\* search that ran is billed.
Search ==
    /\ at = "search"
    /\ calls' = calls \cup {"exa"}
    /\ \/ Refuse(502)
       \/ Refuse(500)
       \/ Reply(200, WebSearchCost(SearchUsd, price), FALSE)
    /\ UNCHANGED <<price, requestVars, verdict, sent, usage, truth, images, exc>>

----------------------------------------------------------------------------
(* create_chat_completion(): the checks.                                    *)

PartKinds == {"text", "inline", "broken", "link"}   \* "broken": data that does not decode

IsImage(p) == p # "text"

MakesImages(cfg) == cfg.kind \in {"inline", "generation"}

\* Refused by the schema, not JSON, messages that do not parse, no model.
Malformed ==
    /\ at = "chat"
    /\ \E status \in {400, 415, 500} : Refuse(status)
    /\ UNCHANGED <<price, requestVars, resultVars>>

MutantValidate ==     \* the options are left for the provider to check
    /\ at = "chat" /\ model # NoModel
    /\ \E turn \in UNION {[1..n -> PartKinds] : n \in 0..MaxParts},
          resolution \in {"omitted", "1K", "2K", "odd"}, stream \in BOOLEAN :
          /\ parts' = turn
          /\ options' = [resolution |-> resolution, stream |-> stream]
          /\ IF MakesImages(model) THEN Go("moderate") ELSE Go("call")
    /\ UNCHANGED <<price, entry, inner, endpoint, size, model, resultVars>>

\* validate_attachments(), validate_resolution(), validate_reasoning_effort(),
\* validate_aspect_ratio(): the last two are a choice, a text model ignores the
\* image options.
Validate ==
    /\ at = "chat" /\ model # NoModel
    /\ \E turn \in UNION {[1..n -> PartKinds] : n \in 0..MaxParts},
          resolution \in {"omitted", "1K", "2K", "odd"}, stream \in BOOLEAN :
          /\ parts' = turn
          /\ options' = [resolution |-> resolution, stream |-> stream]
          /\ IF \/ ~model.takesImages /\ \E k \in DOMAIN turn : IsImage(turn[k])
                \/ MakesImages(model) /\ ~Offered(model, resolution)
             THEN Refuse(400)
             ELSE \/ Refuse(400)
                  \/ Go(IF MakesImages(model) THEN "moderate" ELSE "call")
    /\ UNCHANGED <<price, entry, inner, endpoint, size, model, resultVars>>

\* moderate_messages(): no client, nothing to score, or an answer that is none
\* leave the request unchecked; a client closed under it or an answer of an odd
\* shape raises.  The verdict's two halves are the endpoint's own.
Moderate ==
    /\ at = "moderate"
    /\ \/ UNCHANGED <<verdict, calls>> /\ Go("call")
       \/ /\ parts # << >>
          /\ calls' = calls \cup {"moderation"}
          /\ \/ Refuse(500) /\ UNCHANGED verdict
             \/ UNCHANGED verdict /\ Go("call")
             \/ \E flagged, hit \in BOOLEAN :
                   /\ verdict' = [checked |-> TRUE, flagged |-> flagged, blocked |-> hit]
                   /\ IF hit THEN Reply(451, NoCost, flagged) ELSE Go("call")
    /\ UNCHANGED <<price, requestVars, sent, usage, truth, images, exc>>

----------------------------------------------------------------------------
(* The provider.                                                            *)

\* _extract_image_inputs(): the images of the turn, each by its place in it.
References(turn) == {k \in DOMAIN turn : IsImage(turn[k])}

\* _forwarded_references(): what the provider is to be sent, and what is billed:
\* the first so many of those it can be sent at all.
Forwarded(cfg, turn) ==
    LET refs == {k \in References(turn) : cfg.delivery = "upload" => turn[k] # "broken"}
    IN {k \in refs : Cardinality({j \in refs : j <= k}) <= cfg.maxReferences}

Billed(cfg, turn) == Cardinality(Forwarded(cfg, turn))

\* How many get there: as URLs after an upload ("upload", WaveSpeed), as parts of
\* a form, which takes inline data only ("form"), or in the request itself.
Delivered(cfg, turn) ==
    Cardinality({k \in Forwarded(cfg, turn) : cfg.delivery = "form" => turn[k] = "inline"})

MutantFlagged == verdict.flagged /\ ~options.stream     \* a stream goes out without the headers

\* ModerationOutcome.headers(), on whichever of the ways the answer goes out.
Flagged == verdict.flagged

\* What can be raised: in the gateway, on the way, or a status of the provider's.
Failures ==
    {OwnError} \cup
    {[provider |-> TRUE, status |-> 0, timeout |-> t, connection |-> c] : t, c \in BOOLEAN} \cup
    {[provider |-> TRUE, status |-> s, timeout |-> FALSE, connection |-> FALSE] :
        s \in ProviderStatuses}

\* A stream of a generated image, or of an inline one, has begun before the
\* provider is called; other failures may come before the stream does.
CallFails ==
    /\ at = "call"
    /\ exc' \in Failures
    /\ \/ calls' = calls \cup {"provider"}
       \/ ~exc'.provider /\ UNCHANGED calls
    /\ \/ /\ exc'.provider /\ MakesImages(model) => ~options.stream
          /\ ReplyWith(HttpStatusFor(exc'), NoCost, FALSE, DescribeException(exc'))
       \/ /\ options.stream
          /\ ReplyWith(200, NoCost, Flagged, DescribeException(exc'))
    /\ UNCHANGED <<price, requestVars, verdict, sent, usage, truth, images>>

\* It answers: with images, made from the references that got there, or with
\* what took so many tokens.
CallAnswers ==
    /\ at = "call"
    /\ calls' = calls \cup {"provider"}
    /\ IF model.kind = "generation"
       THEN /\ images' \in 0..MaxImages
            /\ sent' = Delivered(model, parts)
            /\ UNCHANGED truth
       ELSE /\ truth' \in [input : 0..MaxTokens, text : 0..MaxTokens, thinking : 0..MaxTokens,
                           image : IF model.kind = "inline" THEN 0..MaxTokens ELSE {0}]
            /\ UNCHANGED <<images, sent>>
    /\ Go("answer")
    /\ UNCHANGED <<price, requestVars, verdict, usage, exc>>

\* extract_usage(): the output a provider reports is all it made; its thinking
\* may be told apart, in full or in part, or be overstated.
Reports ==
    {[input |-> truth.input, output |-> truth.text + truth.image + truth.thinking,
      reasoning |-> r] : r \in 0..(truth.thinking + 1)}

\* The cost of what was reported, at the price of this moment; without usage, or
\* without a price, the answer goes out and carries none.
Answer ==
    /\ at = "answer"
    /\ IF model.kind = "generation"
       THEN Reply(200, SessionCost(model, NoUsage, images, options.resolution,
                                   Billed(model, parts), price), Flagged) /\ UNCHANGED usage
       ELSE \/ Reply(200, NoCost, Flagged) /\ UNCHANGED usage
            \/ /\ usage' \in Reports
               /\ Reply(200, SessionCost(model, usage', 0, "omitted", 0, price), Flagged)
    /\ UNCHANGED <<price, requestVars, verdict, calls, sent, truth, images, exc>>

Next ==
    \/ ReadBody \/ Gate \/ Open \/ SearchRefused \/ Search \/ Malformed \/ Validate
    \/ Moderate \/ CallFails \/ CallAnswers \/ Answer \/ PriceMoves

Spec == Init /\ [][Next]_vars

----------------------------------------------------------------------------
(* What a request may count on.                                             *)

\* No provider is called for a request the gateway was to refuse: one over the
\* cap, for no known model, with an attachment or a resolution the model does not
\* take, or with a blocked verdict, which is what a 451 of the gateway's own means.
\* A 4xx that is not the provider's has called none, and only a 200 is ever paid for.
ProviderSpared ==
    /\ "provider" \in calls =>
          /\ size <= MAX_PAID_REQUEST_BYTES /\ model \in Catalogue /\ ~verdict.blocked
          /\ MakesImages(model) => Offered(model, options.resolution)
          /\ model.takesImages \/ \A k \in DOMAIN parts : ~IsImage(parts[k])
          /\ verdict.checked => MakesImages(model)
    /\ at = "done" =>
          /\ verdict.blocked <=> answer.status = 451 /\ exc = NoError
          /\ answer.status \in 400..499 /\ "provider" \in calls =>
                exc.provider /\ answer.status = exc.status
          /\ answer.cost # NoCost =>
                answer.status = 200 /\ exc = NoError /\ calls \cap {"provider", "exa"} # {}

\* A provider's refusal of the gateway's own key, plan or quota never looks like
\* the client's: no 401, 402, 403 or 407 leaves the gateway.  A refusal of the
\* request keeps its status, so nobody repeats it as if the gateway had failed;
\* 500 is the gateway's own fault and no other; and what is reported as worth
\* repeating is the provider's fault.
ClientNotBlamed ==
    at = "done" /\ exc # NoError =>
        /\ answer.status \notin GATEWAY_ACCOUNT_STATUSES
        /\ answer.status = 500 <=> ~exc.provider /\ answer.status # 200
        /\ exc.provider /\ answer.status # 200 =>
              IF exc.status \in 400..499 \ (GATEWAY_ACCOUNT_STATUSES \cup {408, 429})
              THEN answer.status = exc.status
              ELSE answer.status \in {502, 503, 504}
        /\ answer.report.source = "provider" <=> exc.provider
        /\ answer.report.retryable =>
              exc.provider /\ exc.status \notin GATEWAY_ACCOUNT_STATUSES \cup {400, 404, 413, 422}

\* The tokens the provider has used, by sort, at the registry's rates.
TokensListed ==
    (truth.input * model.inputPrice) + ((truth.text + truth.thinking) * model.outputPrice)
    + (truth.image * ImageRate(model))

\* The images the client is given, at the tier they were asked in, and the
\* references that reached the provider.
ImagesListed == ImageUsd(model, ImageTier(model, options.resolution), images, sent)

\* What the provider's work comes to at the registry's rates, were everything told.
Listed == TokensListed + ImagesListed

\* The same with all output at the rate of images.
MostListed ==
    Listed + ((truth.text + truth.thinking) * (ImageRate(model) - model.outputPrice))

\* What the provider itself charges for it, a long prompt included.
Charged == (TokensListed * Surcharge(model, truth.input)) + ImagesListed

\* At the registry's rates a cost covers the provider's work as long as thinking
\* is not overstated, and is at no time more than all output at the image rate
\* would be, rounded up to the next unit; images and their references cost what
\* they are listed at.  When thinking is overstated the cost is still no less
\* than everything at the text rate.  What the provider charges is covered too,
\* unless the prompt was a long one of a model that costs more then: such a cost
\* falls short, by no more than the factor the registry leaves out.
CoversListed ==
    at = "done" /\ answer.cost # NoCost /\ "provider" \in calls =>
        LET paid == answer.cost * price
        IN /\ usage.reasoning <= truth.thinking =>
                 /\ paid >= Listed * Scale
                 /\ paid * Surcharge(model, truth.input) >= Charged * Scale
           /\ paid < (MostListed * Scale) + price
           /\ paid >= (Listed - (truth.image * (ImageRate(model) - model.outputPrice))) * Scale

\* The relay hears of a flagged request with every answer that lets it through
\* or blocks it, streamed or not, sealed or not, and of no other request.
FlagReachesRelay ==
    at = "done" =>
        /\ answer.flag => verdict.flagged
        /\ verdict.flagged /\ (answer.status = 200 \/ verdict.blocked) => answer.flag

\* moderate_messages() says of itself that it never raises and that every failure
\* mode is fail-open (moderation.py, its docstring): a request whose moderation
\* was tried is not answered 500 before anything else was.
ModerationFailsOpen ==
    at = "done" /\ "moderation" \in calls /\ answer.status = 500 => exc # NoError
=============================================================================
