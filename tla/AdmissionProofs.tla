--------------------------- MODULE AdmissionProofs ---------------------------
(***************************************************************************)
(* What a request may count on, for every catalogue, price and limit.        *)
(***************************************************************************)
EXTENDS Admission, FiniteSetTheorems, TLAPS

\* Whatever was raised, the status it is answered with is an error's, and never
\* one of those that speak of the client's own credentials or payment.
LEMMA StatusOfFailure ==
    ASSUME NEW e
    PROVE  LET s == HttpStatusFor(e)
           IN /\ s \in {500, 502, 503, 504}
                 \/ (e.provider /\ s = e.status /\ s \in 400..499 \ (GATEWAY_ACCOUNT_STATUSES \cup {408, 429}))
              /\ s = 500 <=> ~e.provider
<1> DEFINE t == ProviderStatus(e)
<1>1. CASE ~e.provider
  BY <1>1, Zenon DEF HttpStatusFor
<1>2. CASE e.provider
  <2>1. t = 0 \/ (t = e.status /\ t \in Int)
    BY <1>2, SMT DEF ProviderStatus
  <2>2. HttpStatusFor(e) = IF t = 0 THEN IF e.timeout THEN 504 ELSE 502
                           ELSE IF t = 429 THEN 503
                           ELSE IF t = 408 THEN 504
                           ELSE IF t \in 400..499 \ GATEWAY_ACCOUNT_STATUSES THEN t
                           ELSE 502
    BY <1>2, Zenon DEF HttpStatusFor
  <2> HIDE DEF t
  <2>3. QED
    BY <1>2, <2>1, <2>2, SMT
<1>3. QED
  BY <1>1, <1>2

\* The provider's refusal of the request, and of nothing else, keeps its status.
LEMMA RefusalKept ==
    ASSUME NEW e, e.provider
    PROVE  IF e.status \in 400..499 \ (GATEWAY_ACCOUNT_STATUSES \cup {408, 429})
           THEN HttpStatusFor(e) = e.status
           ELSE HttpStatusFor(e) \in {502, 503, 504}
  BY SMT DEF HttpStatusFor, ProviderStatus, GATEWAY_ACCOUNT_STATUSES

\* What is reported as worth repeating is the provider's, and no refusal of the
\* request or of the gateway's account.
LEMMA WhatIsReported ==
    ASSUME NEW e
    PROVE  /\ DescribeException(e).source = "provider" <=> e.provider
           /\ DescribeException(e).retryable =>
                 e.provider /\ e.status \notin GATEWAY_ACCOUNT_STATUSES \cup {400, 404, 413, 422}
  BY SMT DEF DescribeException, Retryable, ProviderStatus, RETRYABLE_PROVIDER_STATUSES,
             GATEWAY_ACCOUNT_STATUSES

----------------------------------------------------------------------------
(* Whom a failure is blamed on.                                              *)

BlameInv ==
    /\ at # "done" => exc = NoError
    /\ ClientNotBlamed

\* Nothing is done with a request that is answered.
LEMMA DoneIsDone == [Next]_vars /\ at = "done" => UNCHANGED vars
  BY DEF Next, ReadBody, Gate, Open, SearchRefused, Search, Malformed, Validate, Moderate,
         CallFails, CallAnswers, Answer, PriceMoves

\* Only a call that fails raises anything.
LEMMA OnlyCallsFail == [Next]_vars => exc' = exc \/ CallFails
  BY DEF Next, vars, ReadBody, Gate, Open, SearchRefused, Search, Malformed, Validate, Moderate,
         CallAnswers, Answer, PriceMoves, resultVars

\* No provider's refusal of the gateway's own credentials looks like the
\* client's, whatever statuses providers answer with (errors.py 115-172).
THEOREM NobodyIsBlamed == Spec => []ClientNotBlamed
<1>1. Init => BlameInv
  BY DEF Init, BlameInv, ClientNotBlamed
<1>2. BlameInv /\ [Next]_vars => BlameInv'
  <2> SUFFICES ASSUME BlameInv, [Next]_vars PROVE BlameInv'
    OBVIOUS
  <2>1. CASE at = "done"
    BY <2>1, DoneIsDone DEF vars, BlameInv, ClientNotBlamed
  <2>2. CASE at # "done" /\ exc' = exc
    BY <2>2 DEF BlameInv, ClientNotBlamed
  <2>3. CASE CallFails
    <3> DEFINE e == exc'
    <3>1. at' = "done"
      BY <2>3 DEF CallFails, ReplyWith
    <3>2. answer'.report = DescribeException(e)
      BY <2>3 DEF CallFails, ReplyWith
    <3>3. \/ answer'.status = 200
          \/ answer'.status = HttpStatusFor(e)
      BY <2>3 DEF CallFails, ReplyWith
    <3>4. HttpStatusFor(e) \notin GATEWAY_ACCOUNT_STATUSES /\ HttpStatusFor(e) # 200
      BY StatusOfFailure, SMT DEF GATEWAY_ACCOUNT_STATUSES
    <3>5. HttpStatusFor(e) = 500 <=> ~e.provider
      BY StatusOfFailure, SMT
    <3> HIDE DEF e
    <3>6. 200 \notin GATEWAY_ACCOUNT_STATUSES
      BY DEF GATEWAY_ACCOUNT_STATUSES
    <3>7. ClientNotBlamed'
      BY <3>1, <3>2, <3>3, <3>4, <3>5, <3>6, RefusalKept, WhatIsReported, SMT
         DEF ClientNotBlamed, e
    <3>8. QED
      BY <3>1, <3>7 DEF BlameInv
  <2>4. QED
    BY <2>1, <2>2, <2>3, OnlyCallsFail
<1>3. BlameInv => ClientNotBlamed
  BY DEF BlameInv
<1>4. QED
  BY <1>1, <1>2, <1>3, PTL DEF Spec

----------------------------------------------------------------------------
(* What was checked by the time a provider is called.                        *)

\* The checks a request has passed that is up for moderation, or further.
Passed ==
    /\ model \in Catalogue
    /\ MakesImages(model) => Offered(model, options.resolution)
    /\ model.takesImages \/ \A k \in DOMAIN parts : ~IsImage(parts[k])

\* What is known of a request by where it stands.
StageInv ==
    /\ endpoint \in {"none", "chat", "search"}
    /\ model \in Catalogue \cup {NoModel}
    /\ at \notin {"read", "done"} => size <= MAX_PAID_REQUEST_BYTES
    /\ at \in {"moderate", "call", "answer"} => Passed
    /\ at = "moderate" => MakesImages(model)
    /\ at \in {"call", "answer"} => ~verdict.blocked /\ (verdict.checked => MakesImages(model))
    /\ at \notin {"call", "answer", "done"} => verdict = NoVerdict
    /\ at \notin {"answer", "done"} => "provider" \notin calls
    /\ at = "answer" => "provider" \in calls
    /\ at # "done" => exc = NoError

\* Where the body is read, its length is known or capped.
LEMMA BodyIsCapped ==
    ASSUME StageInv, ReadBody
    PROVE  at' # "done" => size' <= MAX_PAID_REQUEST_BYTES
<1>1. PICK declared \in 0..(MAX_PAID_REQUEST_BYTES + 2), chunked \in BOOLEAN,
           n \in 0..(MAX_PAID_REQUEST_BYTES + 2) :
          /\ declared > 0 => n = declared
          /\ declared = 0 /\ ~chunked => n = 0
          /\ size' = n
          /\ IF declared > MAX_PAID_REQUEST_BYTES \/ (chunked /\ n > MAX_PAID_REQUEST_BYTES)
             THEN Refuse(413) ELSE Go("gate")
  BY DEF ReadBody
<1>2. QED
  BY <1>1, AdmissionAssumption, SMT DEF Refuse, Reply, ReplyWith

\* Each step leaves a request where what is known of it holds.
LEMMA StagesHold ==
    ASSUME StageInv, [Next]_vars
    PROVE  StageInv'
<1> USE DEF StageInv, Passed, Go, Refuse, Reply, ReplyWith, requestVars, resultVars, NoVerdict
<1>1. CASE ReadBody
  BY <1>1, BodyIsCapped, SMT DEF ReadBody
<1>2. CASE Gate
  BY <1>2, SMT DEF Gate
<1>3. CASE Open
  BY <1>3, SMT DEF Open
<1>4. CASE SearchRefused \/ Search \/ Malformed
  BY <1>4, SMT DEF SearchRefused, Search, Malformed
<1>5. CASE Validate
  BY <1>5, SMT DEF Validate
<1>6. CASE Moderate
  BY <1>6, SMT DEF Moderate
<1>7. CASE CallFails
  BY <1>7, SMT DEF CallFails
<1>8. CASE CallAnswers
  BY <1>8, SMT DEF CallAnswers
<1>9. CASE Answer
  BY <1>9, SMT DEF Answer
<1>10. CASE PriceMoves
  BY <1>10, SMT DEF PriceMoves
<1>11. CASE UNCHANGED vars
  BY <1>11, SMT DEF vars
<1>12. QED
  BY <1>1, <1>2, <1>3, <1>4, <1>5, <1>6, <1>7, <1>8, <1>9, <1>10, <1>11 DEF Next

\* A request begins at the first stage.
LEMMA StagesBegin == Init => StageInv
  BY SMT DEF Init, StageInv

\* The relay hears of every flagged request that is let through or blocked, on
\* each of the ways an answer goes out (chat_controller.py 129-158, 440-457,
\* moderation.py 167-182).
THEOREM RelayHearsOfFlags == Spec => []FlagReachesRelay
<1>1. Init => FlagReachesRelay
  BY SMT DEF Init, FlagReachesRelay
<1>2. StageInv /\ FlagReachesRelay /\ [Next]_vars => FlagReachesRelay'
  <2> SUFFICES ASSUME StageInv, FlagReachesRelay, [Next]_vars PROVE FlagReachesRelay'
    OBVIOUS
  <2> USE DEF StageInv, FlagReachesRelay, Refuse, Reply, ReplyWith, resultVars, NoVerdict
  <2>1. CASE at = "done"
    BY <2>1, DoneIsDone DEF vars
  <2>2. CASE at' # "done"
    BY <2>2
  <2>3. CASE ReadBody \/ Gate \/ Open \/ SearchRefused \/ Search \/ Malformed \/ Validate
    BY <2>2, <2>3, SMT DEF ReadBody, Gate, Open, SearchRefused, Search, Malformed, Validate, Go
  <2>4. CASE Moderate
    BY <2>2, <2>4, SMT DEF Moderate, Go
  <2>5. CASE CallFails
    <3>1. HttpStatusFor(exc') # 200
      BY StatusOfFailure, SMT
    <3>2. QED
      BY <2>5, <3>1, SMT DEF CallFails, Flagged
  <2>6. CASE Answer
    BY <2>6, SMT DEF Answer, Flagged
  <2>7. CASE CallAnswers \/ PriceMoves \/ UNCHANGED vars
    BY <2>1, <2>2, <2>7, SMT DEF CallAnswers, PriceMoves, vars, Go
  <2>8. QED
    BY <2>3, <2>4, <2>5, <2>6, <2>7 DEF Next
<1>3. QED
  BY <1>1, <1>2, StagesBegin, StagesHold, PTL DEF Spec

\* No provider is called for a request the gateway refuses or blocks, and what
\* is not answered by a provider or a search is never paid for, whatever the
\* catalogue offers (chat_controller.py 92-158).
THEOREM ProvidersAreSpared == Spec => []ProviderSpared
<1>1. Init => ProviderSpared
  BY SMT DEF Init, ProviderSpared, NoVerdict
<1>2. StageInv /\ ProviderSpared /\ [Next]_vars => ProviderSpared'
  <2> SUFFICES ASSUME StageInv, ProviderSpared, [Next]_vars PROVE ProviderSpared'
    OBVIOUS
  <2> USE DEF StageInv, Passed, ProviderSpared, Refuse, Reply, ReplyWith, requestVars, resultVars,
              NoVerdict
  <2>1. CASE at = "done"
    BY <2>1, DoneIsDone DEF vars, requestVars, resultVars
  <2>2. CASE ReadBody
    BY <2>2, SMT DEF ReadBody, Go
  <2>3. CASE Gate
    BY <2>3, SMT DEF Gate, Go
  <2>4. CASE Open
    BY <2>4, SMT DEF Open, Go
  <2>5. CASE SearchRefused \/ Search \/ Malformed
    BY <2>5, SMT DEF SearchRefused, Search, Malformed
  <2>6. CASE Validate
    BY <2>6, SMT DEF Validate, Go
  <2>7. CASE Moderate
    BY <2>7, SMT DEF Moderate, Go
  <2>8. CASE CallFails
    <3>1. LET s == HttpStatusFor(exc')
          IN /\ s # 200
             /\ s \in 400..499 => exc'.provider /\ s = exc'.status
      BY StatusOfFailure, SMT
    <3>2. exc' # NoError
      BY <2>8, SMT DEF CallFails, Failures, NoError, OwnError
    <3>3. QED
      BY <2>8, <3>1, <3>2, SMT DEF CallFails
  <2>9. CASE CallAnswers
    BY <2>9, SMT DEF CallAnswers, Go
  <2>10. CASE Answer
    BY <2>10, SMT DEF Answer
  <2>11. CASE PriceMoves \/ UNCHANGED vars
    BY <2>1, <2>11, SMT DEF PriceMoves, vars
  <2>12. QED
    BY <2>2, <2>3, <2>4, <2>5, <2>6, <2>7, <2>8, <2>9, <2>10, <2>11 DEF Next
<1>3. QED
  BY <1>1, <1>2, StagesBegin, StagesHold, PTL DEF Spec

----------------------------------------------------------------------------
(* What a cost covers.                                                       *)

\* Rounding up gains less than one unit and loses nothing.
LEMMA CeilBounds ==
    ASSUME NEW a \in Nat, NEW b \in Nat \ {0}
    PROVE  /\ Ceil(a, b) \in Nat
           /\ Ceil(a, b) * b >= a
           /\ Ceil(a, b) * b < a + b
<1> DEFINE n == a + b - 1
           q == n \div b
<1>1. n \in Nat /\ n >= 0
  OBVIOUS
<1>2. q \in Int /\ q * b <= n /\ n < (q + 1) * b
  BY <1>1, SMT
<1>3. (q + 1) * b = q * b + b /\ q * b \in Int
  BY <1>2, SMT
<1>4. q >= 0
  BY <1>1, <1>2, SMT
<1>5. Ceil(a, b) = q
  BY DEF Ceil
<1> HIDE DEF q
<1>6. QED
  BY <1>2, <1>3, <1>4, <1>5, SMT

\* For the provers' sake: products of naturals.
LEMMA Product == ASSUME NEW a \in Nat, NEW b \in Nat PROVE a * b \in Nat
  BY SMT

\* Multiplying by a natural number keeps an order.
LEMMA Monotone ==
    ASSUME NEW a \in Nat, NEW b \in Nat, NEW c \in Nat, a <= b
    PROVE  a * c <= b * c
  BY SMT

\* What is billed for tokens, however much of the output the provider reports as
\* thinking: no less than all of it at the text rate and no more than all of it
\* at the image rate; and what they are listed at, unless thinking is overstated
\* (pricing.py 82-101).
LEMMA TokensCovered ==
    ASSUME NEW cfg, IsModel(cfg),
           NEW input \in Nat, NEW text \in Nat, NEW image \in Nat, NEW thinking \in Nat,
           NEW reasoning \in Int
    PROVE  LET used  == [input |-> input, output |-> text + image + thinking,
                         reasoning |-> reasoning]
               usd   == TokenUsd(cfg, used)
               worth == (input * cfg.inputPrice) + ((text + thinking) * cfg.outputPrice)
                        + (image * ImageRate(cfg))
               more  == ImageRate(cfg) - cfg.outputPrice
           IN /\ usd \in Nat /\ worth \in Nat
              /\ (text + thinking) * more \in Nat /\ image * more \in Nat
              /\ worth - (image * more) \in Nat
              /\ reasoning <= thinking => usd >= worth
              /\ usd <= worth + ((text + thinking) * more)
              /\ usd >= worth - (image * more)
<1> DEFINE o == cfg.outputPrice
           r == ImageRate(cfg)
           d == r - o
           in == input * cfg.inputPrice
           m == text + thinking
           told == AtMost(Clip(reasoning), text + image + thinking)
           used == [input |-> input, output |-> text + image + thinking, reasoning |-> reasoning]
<1>1. o \in Nat /\ r \in Nat /\ d \in Nat /\ r = o + d /\ cfg.inputPrice \in Nat
  BY SMT DEF IsModel, ImageRate
<1>2. /\ told \in Nat /\ told <= m + image
      /\ reasoning <= thinking => told <= m
  BY SMT DEF Clip, AtMost
<1>3. TokenUsd(cfg, used) = in + ((m + image - told) * r) + (told * o)
  BY SMT DEF TokenUsd, Clip, AtMost
<1>4. in \in Nat /\ m \in Nat
  BY <1>1, Product
<1> HIDE DEF o, r, d, in, m, told
<1>5. m + image - told \in Nat
  BY <1>2, <1>4, SMT
<1> DEFINE rest == m + image - told
<1>6. /\ m + image = rest + told
      /\ rest <= m + image
      /\ reasoning <= thinking => image <= rest
  BY <1>2, <1>4, SMT
<1> HIDE DEF rest
<1>7. /\ rest * r = rest * o + rest * d
      /\ image * r = image * o + image * d
      /\ (m + image) * o = rest * o + told * o
      /\ (m + image) * o = m * o + image * o
      /\ (m + image) * d = m * d + image * d
  <2>1. rest \in Nat
    BY <1>5 DEF rest
  <2>2. QED
    BY <1>1, <1>2, <1>4, <1>6, <2>1, SMT
<1>8. /\ rest * d \in Nat /\ rest * o \in Nat /\ told * o \in Nat
      /\ image * d \in Nat /\ image * o \in Nat /\ m * o \in Nat /\ m * d \in Nat
      /\ (m + image) * d \in Nat /\ (m + image) * o \in Nat
  <2>1. rest \in Nat /\ m + image \in Nat
    BY <1>4, <1>5, SMT DEF rest
  <2>2. QED
    BY <1>1, <1>2, <1>4, <2>1, Product
<1>9. /\ rest * d <= (m + image) * d
      /\ reasoning <= thinking => image * d <= rest * d
  <2>1. rest \in Nat /\ m + image \in Nat
    BY <1>4, <1>5, SMT DEF rest
  <2>2. rest * d <= (m + image) * d
    BY <1>1, <1>6, <2>1, Monotone
  <2>3. ASSUME reasoning <= thinking PROVE image * d <= rest * d
    BY <1>1, <1>6, <2>1, <2>3, Monotone
  <2>4. QED
    BY <2>2, <2>3
<1>10. TokenUsd(cfg, used) = in + rest * r + told * o
  BY <1>3 DEF rest
<1>11. /\ TokenUsd(cfg, used) \in Nat
       /\ in + (m * o) + (image * r) \in Nat
       /\ (in + (m * o) + (image * r)) - (image * d) \in Nat
       /\ reasoning <= thinking => TokenUsd(cfg, used) >= in + (m * o) + (image * r)
       /\ TokenUsd(cfg, used) <= in + (m * o) + (image * r) + (m * d)
       /\ TokenUsd(cfg, used) >= (in + (m * o) + (image * r)) - (image * d)
  BY <1>4, <1>7, <1>8, <1>9, <1>10, SMT
<1>12. QED
  BY <1>8, <1>11, Zenon DEF o, r, d, in, m

\* The cost of a session is never less than what the provider's work comes to at
\* the registry's rates, as long as thinking is not overstated, never less than
\* all output at the text rate, and never a whole unit more than all output at the image rate
\* (pricing.py 52-176).
THEOREM CostCovers ==
    ASSUME NEW cfg, IsModel(cfg),
           NEW input \in Nat, NEW text \in Nat, NEW image \in Nat, NEW thinking \in Nat,
           NEW reasoning \in Int, NEW rate \in Nat \ {0},
           NEW number, NEW resolution, NEW references,
           ImageUsd(cfg, ImageTier(cfg, resolution), number, references) \in Nat
    PROVE  LET used  == [input |-> input, output |-> text + image + thinking,
                         reasoning |-> reasoning]
               cost  == SessionCost(cfg, used, number, resolution, references, rate)
               paid  == cost * rate
               worth == (input * cfg.inputPrice) + ((text + thinking) * cfg.outputPrice)
                        + (image * ImageRate(cfg))
                        + ImageUsd(cfg, ImageTier(cfg, resolution), number, references)
               more  == ImageRate(cfg) - cfg.outputPrice
           IN /\ cost \in Nat
              /\ reasoning <= thinking => paid >= worth * Scale
              /\ paid < ((worth + ((text + thinking) * more)) * Scale) + rate
              /\ paid >= (worth - (image * more)) * Scale
<1> DEFINE used == [input |-> input, output |-> text + image + thinking, reasoning |-> reasoning]
           usd == TokenUsd(cfg, used)
           extra == ImageUsd(cfg, ImageTier(cfg, resolution), number, references)
           tokens == (input * cfg.inputPrice) + ((text + thinking) * cfg.outputPrice)
                     + (image * ImageRate(cfg))
           gap == (text + thinking) * (ImageRate(cfg) - cfg.outputPrice)
           less == image * (ImageRate(cfg) - cfg.outputPrice)
           cost == SessionCost(cfg, used, number, resolution, references, rate)
<1>1. /\ usd \in Nat /\ tokens \in Nat /\ gap \in Nat /\ less \in Nat /\ tokens - less \in Nat
      /\ reasoning <= thinking => usd >= tokens
      /\ usd <= tokens + gap
      /\ usd >= tokens - less
  BY TokensCovered
<1>2. cost = Ceil((usd + extra) * Scale, rate)
  BY SMT DEF SessionCost, InOpg
<1> HIDE DEF usd, extra, tokens, gap, less, cost
<1>3. Scale \in Nat /\ extra \in Nat
  BY PricingAssumption DEF extra
<1>4. (usd + extra) * Scale \in Nat
  BY <1>1, <1>3, Product
<1>5. cost * rate >= (usd + extra) * Scale /\ cost * rate < (usd + extra) * Scale + rate
  BY <1>2, <1>4, CeilBounds
<1>6. cost \in Nat
  BY <1>2, <1>4, CeilBounds
<1>7. cost * rate \in Nat /\ usd + extra \in Nat /\ tokens + extra \in Nat
      /\ tokens + extra + gap \in Nat /\ (tokens + extra) - less \in Nat
  BY <1>1, <1>3, <1>6, Product, SMT
<1>8. (usd + extra) * Scale <= (tokens + extra + gap) * Scale
  BY <1>1, <1>3, <1>7, Monotone, SMT
<1>9. ((tokens + extra) - less) * Scale <= (usd + extra) * Scale
  BY <1>1, <1>3, <1>7, Monotone, SMT
<1>10. ASSUME reasoning <= thinking PROVE (tokens + extra) * Scale <= (usd + extra) * Scale
  BY <1>1, <1>3, <1>7, <1>10, Monotone, SMT
<1>11. /\ (tokens + extra) * Scale \in Nat /\ (tokens + extra + gap) * Scale \in Nat
       /\ ((tokens + extra) - less) * Scale \in Nat
  BY <1>3, <1>7, Product
<1> DEFINE a == (usd + extra) * Scale
           b == (tokens + extra) * Scale
           c == (tokens + extra + gap) * Scale
           e == ((tokens + extra) - less) * Scale
           paid == cost * rate
<1>12. /\ reasoning <= thinking => paid >= b
       /\ paid < c + rate
       /\ paid >= e
  <2> HIDE DEF a, b, c, e, paid
  <2>1. a \in Nat /\ b \in Nat /\ c \in Nat /\ e \in Nat /\ paid \in Nat
    BY <1>4, <1>7, <1>11 DEF a, b, c, e, paid
  <2>2. paid >= a /\ paid < a + rate /\ a <= c /\ e <= a /\ (reasoning <= thinking => b <= a)
    BY <1>5, <1>8, <1>9, <1>10 DEF a, b, c, e, paid
  <2>3. QED
    BY <2>1, <2>2, SMT
<1>13. QED
  BY <1>6, <1>12, Zenon DEF extra, tokens, gap, less, cost


----------------------------------------------------------------------------
(* What an answer costs.                                                     *)

\* A turn has finitely many parts, so what is billed and what gets there are
\* numbers; a model that takes no form is billed exactly what it is sent.
LEMMA BilledIsDelivered ==
    ASSUME NEW cfg, cfg.maxReferences \in Nat, NEW turn, IsFiniteSet(DOMAIN turn)
    PROVE  /\ Billed(cfg, turn) \in Nat /\ Delivered(cfg, turn) \in Nat
           /\ cfg.delivery # "form" => Delivered(cfg, turn) = Billed(cfg, turn)
<1> DEFINE sending == Forwarded(cfg, turn)
           arriving == {k \in sending : cfg.delivery = "form" => turn[k] = "inline"}
<1>1. sending \subseteq DOMAIN turn /\ arriving \subseteq sending
  BY Zenon DEF Forwarded, References
<1>2. IsFiniteSet(sending) /\ IsFiniteSet(arriving)
  BY <1>1, FS_Subset
<1>3. Cardinality(sending) \in Nat /\ Cardinality(arriving) \in Nat
  BY <1>2, FS_CardinalityType
<1>4. cfg.delivery # "form" => arriving = sending
  OBVIOUS
<1>5. QED
  BY <1>3, <1>4, Zenon DEF Billed, Delivered

\* The images of an answer are billed what they and the references that reached
\* the provider are listed at, at the tier they were asked in.
LEMMA ImagesAtWorth ==
    ASSUME NEW cfg \in Catalogue, NEW turn, IsFiniteSet(DOMAIN turn), NEW number \in Nat,
           NEW resolution, Offered(cfg, resolution)
    PROVE  LET tier == ImageTier(cfg, resolution)
           IN /\ ImageUsd(cfg, tier, number, Billed(cfg, turn)) \in Nat
              /\ ImageUsd(cfg, tier, number, Delivered(cfg, turn))
                    = ImageUsd(cfg, tier, number, Billed(cfg, turn))
<1> DEFINE tier == ImageTier(cfg, resolution)
           billed == Billed(cfg, turn)
           sending == Delivered(cfg, turn)
           each == cfg.perImage[tier]
           ref == cfg.perReference[tier]
<1>1. tier \in cfg.tiers \cup {cfg.defaultTier}
  BY Zenon DEF Offered, ImageTier
<1>2. /\ each \in Nat /\ ref \in Nat
      /\ cfg.delivery = "form" => ref = 0
      /\ cfg.maxReferences \in Nat
  BY <1>1, CatalogueAssumption, Zenon
<1>3. /\ billed \in Nat /\ sending \in Nat
      /\ cfg.delivery # "form" => sending = billed
  BY <1>2, BilledIsDelivered
<1> HIDE DEF tier, billed, sending, each, ref
<1>4. sending * ref = billed * ref
  BY <1>2, <1>3, SMT
<1>5. number * each \in Nat /\ billed * ref \in Nat
  BY <1>2, <1>3, Product
<1>6. /\ ImageUsd(cfg, tier, number, billed)
            = IF number = 0 THEN 0 ELSE (number * each) + (billed * ref)
      /\ ImageUsd(cfg, tier, number, sending)
            = IF number = 0 THEN 0 ELSE (number * each) + (sending * ref)
  BY Zenon DEF ImageUsd, each, ref
<1>7. /\ ImageUsd(cfg, tier, number, billed) \in Nat
      /\ ImageUsd(cfg, tier, number, sending) = ImageUsd(cfg, tier, number, billed)
  BY <1>4, <1>5, <1>6, SMT
<1>8. QED
  BY <1>7 DEF tier, billed, sending

\* What is known of a bill by where the request stands: nothing was used before
\* the provider is called, and then either tokens or images.
BillInv ==
    /\ price \in Nat
    /\ IsFiniteSet(DOMAIN parts)
    /\ at \notin {"answer", "done"} => truth = NoTruth /\ images = 0 /\ sent = 0
    /\ at # "done" => usage = NoUsage
    /\ at = "answer" =>
          IF model.kind = "generation"
          THEN truth = NoTruth /\ images \in Nat /\ sent = Delivered(model, parts)
          ELSE /\ truth.input \in Nat /\ truth.text \in Nat /\ truth.image \in Nat
               /\ truth.thinking \in Nat
               /\ images = 0 /\ sent = 0


\* Nothing is known to be used when a request begins.
LEMMA BillBegins == Init => BillInv
<1> SUFFICES ASSUME Init PROVE BillInv
  OBVIOUS
<1>1. DOMAIN parts = {}
  BY SMT DEF Init
<1>2. IsFiniteSet(DOMAIN parts)
  BY <1>1, FS_EmptySet
<1>3. QED
  BY <1>2, AdmissionAssumption, Zenon DEF Init, BillInv

\* The parts of a turn are finitely many.
LEMMA PartsAreFinite ==
    ASSUME IsFiniteSet(DOMAIN parts), [Next]_vars
    PROVE  IsFiniteSet(DOMAIN parts')
<1>1. CASE Validate
  <2>1. PICK turn \in UNION {[1..n -> PartKinds] : n \in 0..MaxParts} : parts' = turn
    BY <1>1, Zenon DEF Validate
  <2>2. PICK n \in 0..MaxParts : turn \in [1..n -> PartKinds]
    BY <2>1, Zenon
  <2>3. IsFiniteSet(1..n)
    BY FS_Interval, AdmissionAssumption, SMT
  <2>4. DOMAIN turn = 1..n
    BY <2>2, Zenon
  <2>5. QED
    BY <2>1, <2>3, <2>4, Zenon
<1>2. CASE ~Validate
  <2>1. parts' = parts
    BY <1>2, Zenon DEF Next, vars, requestVars, resultVars, ReadBody, Gate, Open, SearchRefused,
       Search, Malformed, Moderate, CallFails, CallAnswers, Answer, PriceMoves
  <2>2. QED
    BY <2>1
<1>3. QED
  BY <1>1, <1>2

\* An answer of the provider's is all that is used, and it is known in full.
LEMMA BillHolds ==
    ASSUME BillInv, StageInv, [Next]_vars
    PROVE  BillInv'
<1>1. price' \in Nat
  <2>1. price' = price \/ price' \in Prices
    BY Zenon DEF Next, vars, ReadBody, Gate, Open, SearchRefused, Search, Malformed, Validate,
                 Moderate, CallFails, CallAnswers, Answer, PriceMoves
  <2>2. QED
    BY <2>1, AdmissionAssumption, Zenon DEF BillInv
<1>2. IsFiniteSet(DOMAIN parts')
  BY PartsAreFinite DEF BillInv
<1>3. CASE CallAnswers
  <2>1. at = "call" /\ at' = "answer" /\ model' = model /\ parts' = parts /\ usage' = usage
    BY <1>3, Zenon DEF CallAnswers, Go, requestVars
  <2>2. truth = NoTruth /\ images = 0 /\ sent = 0 /\ usage = NoUsage
    BY <2>1, Zenon DEF BillInv
  <2>3. CASE model.kind = "generation"
    <3>1. images' \in 0..MaxImages /\ sent' = Delivered(model, parts) /\ truth' = truth
      BY <1>3, <2>3, Zenon DEF CallAnswers
    <3>2. images' \in Nat
      BY <3>1, AdmissionAssumption, SMT
    <3>3. QED
      BY <1>1, <1>2, <2>1, <2>2, <2>3, <3>1, <3>2, SMT DEF BillInv
  <2>4. CASE model.kind # "generation"
    <3>1. /\ truth' \in [input : 0..MaxTokens, text : 0..MaxTokens, thinking : 0..MaxTokens,
                         image : IF model.kind = "inline" THEN 0..MaxTokens ELSE {0}]
          /\ images' = images /\ sent' = sent
      BY <1>3, <2>4, Zenon DEF CallAnswers
    <3>2. /\ truth'.input \in Nat /\ truth'.text \in Nat /\ truth'.image \in Nat
          /\ truth'.thinking \in Nat
      BY <3>1, AdmissionAssumption, SMT
    <3>3. QED
      BY <1>1, <1>2, <2>1, <2>2, <2>4, <3>1, <3>2, SMT DEF BillInv
  <2>5. QED
    BY <2>3, <2>4
<1>4. CASE Answer
  BY <1>1, <1>2, <1>4, SMT DEF BillInv, Answer, Reply, ReplyWith
<1>5. CASE ReadBody \/ Gate \/ Open \/ SearchRefused \/ Search \/ Malformed \/ Validate
           \/ Moderate \/ CallFails
  <2> USE DEF resultVars, Go, Refuse, Reply, ReplyWith
  <2> DEFINE unused == /\ at \notin {"answer", "done"} /\ at' # "answer"
                       /\ UNCHANGED <<sent, usage, truth, images>>
  <2>1. ASSUME ReadBody PROVE unused
    BY <2>1, SMT DEF ReadBody
  <2>2. ASSUME Gate PROVE unused
    BY <2>2, SMT DEF Gate, StageInv
  <2>3. ASSUME Open PROVE unused
    BY <2>3, SMT DEF Open
  <2>4. ASSUME SearchRefused PROVE unused
    BY <2>4, SMT DEF SearchRefused
  <2>5. ASSUME Search PROVE unused
    BY <2>5, SMT DEF Search
  <2>6. ASSUME Malformed PROVE unused
    BY <2>6, SMT DEF Malformed
  <2>7. ASSUME Validate PROVE unused
    BY <2>7, SMT DEF Validate
  <2>8. ASSUME Moderate PROVE unused
    BY <2>8, SMT DEF Moderate
  <2>9. ASSUME CallFails PROVE unused
    BY <2>9, SMT DEF CallFails
  <2>10. unused
    BY <1>5, <2>1, <2>2, <2>3, <2>4, <2>5, <2>6, <2>7, <2>8, <2>9, Zenon
  <2>11. QED
    BY <1>1, <1>2, <2>10, Zenon DEF BillInv
<1>6. CASE PriceMoves \/ UNCHANGED vars
  <2>1. UNCHANGED <<at, model, parts, sent, usage, truth, images>>
    BY <1>6, Zenon DEF PriceMoves, vars, requestVars, resultVars
  <2>2. QED
    BY <1>1, <1>2, <2>1, Zenon DEF BillInv
<1>7. QED
  BY <1>3, <1>4, <1>5, <1>6 DEF Next


\* The bounds of a cost, for the work at hand and what is told of it.
LEMMA CostBounds ==
    ASSUME IsModel(model), price \in Nat \ {0},
           truth.input \in Nat, truth.text \in Nat, truth.image \in Nat, truth.thinking \in Nat,
           NEW told, told.reasoning \in Int,
           told = [input |-> truth.input, output |-> truth.text + truth.image + truth.thinking,
                   reasoning |-> told.reasoning],
           NEW number, NEW resolution, NEW references,
           ImageUsd(model, ImageTier(model, resolution), number, references) \in Nat,
           ImageUsd(model, ImageTier(model, options.resolution), images, sent)
              = ImageUsd(model, ImageTier(model, resolution), number, references)
    PROVE  LET paid == SessionCost(model, told, number, resolution, references, price) * price
           IN /\ Listed \in Nat /\ TokensListed \in Nat /\ paid \in Nat
              /\ told.reasoning <= truth.thinking => paid >= Listed * Scale
              /\ paid < (MostListed * Scale) + price
              /\ paid >= (Listed - (truth.image * (ImageRate(model) - model.outputPrice))) * Scale
<1> DEFINE n1 == truth.input
           n2 == truth.text
           n3 == truth.image
           n4 == truth.thinking
           r  == told.reasoning
           more == ImageRate(model) - model.outputPrice
           extra == ImageUsd(model, ImageTier(model, resolution), number, references)
           worth == (n1 * model.inputPrice) + ((n2 + n4) * model.outputPrice)
                    + (n3 * ImageRate(model)) + extra
           paid == SessionCost(model, told, number, resolution, references, price) * price
<1>1. /\ r <= n4 => paid >= worth * Scale
      /\ paid < ((worth + ((n2 + n4) * more)) * Scale) + price
      /\ paid >= (worth - (n3 * more)) * Scale
  <2>1. told = [input |-> n1, output |-> n2 + n3 + n4, reasoning |-> r]
    OBVIOUS
  <2> HIDE DEF n1, n2, n3, n4, r
  <2>2. n1 \in Nat /\ n2 \in Nat /\ n3 \in Nat /\ n4 \in Nat /\ r \in Int
    BY DEF n1, n2, n3, n4, r
  <2>3. QED
    BY <2>1, <2>2, CostCovers, Zenon
<1>2. Listed = worth
  BY Zenon DEF Listed, TokensListed, ImagesListed
<1> DEFINE tokens == (n1 * model.inputPrice) + ((n2 + n4) * model.outputPrice)
                     + (n3 * ImageRate(model))
<1>3. tokens \in Nat /\ worth \in Nat
  <2> HIDE DEF extra, n1, n2, n3, n4
  <2>1. /\ n1 \in Nat /\ n2 \in Nat /\ n3 \in Nat /\ n4 \in Nat /\ extra \in Nat
        /\ n2 + n4 \in Nat
        /\ model.inputPrice \in Nat /\ model.outputPrice \in Nat /\ ImageRate(model) \in Nat
    BY SMT DEF n1, n2, n3, n4, extra, IsModel, ImageRate
  <2>2. /\ n1 * model.inputPrice \in Nat /\ (n2 + n4) * model.outputPrice \in Nat
        /\ n3 * ImageRate(model) \in Nat
    BY <2>1, Product
  <2>3. QED
    BY <2>1, <2>2, SMT
<1>4. TokensListed = tokens
  BY Zenon DEF TokensListed
<1>5. paid \in Nat
  <2>1. told = [input |-> n1, output |-> n2 + n3 + n4, reasoning |-> r]
    OBVIOUS
  <2> HIDE DEF n1, n2, n3, n4, r
  <2>2. n1 \in Nat /\ n2 \in Nat /\ n3 \in Nat /\ n4 \in Nat /\ r \in Int
    BY DEF n1, n2, n3, n4, r
  <2>3. SessionCost(model, told, number, resolution, references, price) \in Nat
    BY <2>1, <2>2, CostCovers, Zenon
  <2>4. QED
    BY <2>3, Product
<1> HIDE DEF worth, paid, tokens
<1>6. QED
  BY <1>1, <1>2, <1>3, <1>4, <1>5, Zenon DEF MostListed, paid

\* What covers the work at the registry's rates covers what the provider charges,
\* up to the factor by which it charges more for a long prompt.
LEMMA ChargeCovered ==
    ASSUME IsModel(model), truth.input \in Nat, TokensListed \in Nat, Listed \in Nat,
           NEW paid \in Nat, paid >= Listed * Scale,
           ImagesListed \in Nat
    PROVE  paid * Surcharge(model, truth.input) >= Charged * Scale
<1> DEFINE f == Surcharge(model, truth.input)
           t == TokensListed
           i == ImagesListed
<1>1. f \in Nat \ {0}
  BY SMT DEF Surcharge, IsModel
<1>2. Charged = (t * f) + i /\ Listed = t + i
  BY Zenon DEF Charged, Listed
<1> HIDE DEF f, t, i
<1>3. t \in Nat /\ i \in Nat /\ Scale \in Nat
  BY PricingAssumption DEF t, i
<1>4. i <= i * f /\ i * f \in Nat /\ t * f \in Nat
  <2>1. 1 <= f /\ 1 * i <= f * i
    BY <1>1, <1>3, Monotone, SMT
  <2>2. QED
    BY <1>1, <1>3, <2>1, Product, SMT
<1>5. (t + i) * f = t * f + i * f
  BY <1>1, <1>3, SMT
<1>6. (t * f) + i \in Nat /\ (t + i) * f \in Nat /\ (t * f) + i <= (t + i) * f
  BY <1>3, <1>4, <1>5, SMT
<1>7. ((t * f) + i) * Scale <= ((t + i) * f) * Scale
  BY <1>3, <1>6, Monotone
<1>8. (t + i) * Scale \in Nat /\ ((t + i) * Scale) * f <= paid * f
  <2>1. t + i \in Nat
    BY <1>3
  <2>2. (t + i) * Scale \in Nat
    BY <1>3, <2>1, Product
  <2>3. QED
    BY <1>1, <1>2, <2>2, Monotone
<1>9. ((t + i) * f) * Scale = ((t + i) * Scale) * f
  BY <1>1, <1>3, SMT
<1>10. /\ ((t * f) + i) * Scale \in Nat /\ ((t + i) * f) * Scale \in Nat
       /\ paid * f \in Nat
  BY <1>1, <1>3, <1>6, Product
<1>11. ((t * f) + i) * Scale <= paid * f
  BY <1>7, <1>8, <1>9, <1>10, SMT
<1>12. QED
  BY <1>2, <1>10, <1>11, SMT DEF f

\* What is worked on is worth at least nothing and at most all output at the
\* image rate, so the bounds of a cost apply to what Answer replies.
LEMMA AnswerIsCovered ==
    ASSUME BillInv, StageInv, Answer
    PROVE  CoversListed'
<1>1. /\ at = "answer" /\ at' = "done"
      /\ UNCHANGED <<price, model, options, parts, calls, sent, truth, images>>
  BY Zenon DEF Answer, Reply, ReplyWith, requestVars
<1>2. /\ model \in Catalogue /\ price \in Nat /\ usage = NoUsage /\ IsFiniteSet(DOMAIN parts)
      /\ MakesImages(model) => Offered(model, options.resolution)
  BY <1>1, Zenon DEF BillInv, StageInv, Passed
<1>3. IsModel(model)
  BY <1>2, CatalogueAssumption
<1> DEFINE covered(cost, told) ==
             LET paid == cost * price
             IN /\ told <= truth.thinking =>
                      /\ paid >= Listed * Scale
                      /\ paid * Surcharge(model, truth.input) >= Charged * Scale
                /\ paid < (MostListed * Scale) + price
                /\ paid >= (Listed - (truth.image * (ImageRate(model) - model.outputPrice))) * Scale
<1>4. ASSUME answer'.cost # NoCost PROVE covered(answer'.cost, usage'.reasoning)
  <2>1. CASE model.kind = "generation"
    <3> DEFINE tier == ImageTier(model, options.resolution)
               cost == SessionCost(model, NoUsage, images, options.resolution,
                                   Billed(model, parts), price)
    <3>1. answer'.cost = cost /\ usage' = NoUsage
      BY <1>2, <2>1, SMT DEF Answer, Reply, ReplyWith
    <3>2. truth = NoTruth /\ images \in Nat /\ sent = Delivered(model, parts)
      BY <1>1, <2>1, Zenon DEF BillInv
    <3>3. Offered(model, options.resolution)
      BY <1>2, <2>1, Zenon DEF MakesImages
    <3>4. /\ ImageUsd(model, tier, images, Billed(model, parts)) \in Nat
          /\ ImageUsd(model, tier, images, sent)
                = ImageUsd(model, tier, images, Billed(model, parts))
      BY <1>2, <3>2, <3>3, ImagesAtWorth
    <3>5. price \in Nat \ {0}
      BY <1>2, <1>4, <3>1, SMT DEF SessionCost, InOpg
    <3>6. NoUsage = [input |-> truth.input, output |-> truth.text + truth.image + truth.thinking,
                     reasoning |-> NoUsage.reasoning]
      BY <3>2, SMT DEF NoUsage, NoTruth
    <3>7. /\ truth.input \in Nat /\ truth.text \in Nat /\ truth.image \in Nat
          /\ truth.thinking \in Nat /\ NoUsage.reasoning \in Int
      BY <3>2, SMT DEF NoUsage, NoTruth
    <3>8. /\ Listed \in Nat /\ TokensListed \in Nat /\ cost * price \in Nat
          /\ NoUsage.reasoning <= truth.thinking => cost * price >= Listed * Scale
          /\ cost * price < (MostListed * Scale) + price
          /\ cost * price
                >= (Listed - (truth.image * (ImageRate(model) - model.outputPrice))) * Scale
      BY <1>3, <3>4, <3>5, <3>6, <3>7, CostBounds
    <3>9. ImagesListed \in Nat
      BY <3>4, Zenon DEF ImagesListed
    <3>10. ASSUME NoUsage.reasoning <= truth.thinking
           PROVE  (cost * price) * Surcharge(model, truth.input) >= Charged * Scale
      BY <1>3, <3>7, <3>8, <3>9, <3>10, ChargeCovered
    <3>11. covered(cost, NoUsage.reasoning)
      BY <3>8, <3>10, Zenon
    <3>12. QED
      BY <3>1, <3>11
  <2>2. CASE model.kind # "generation"
    <3>1. PICK told \in Reports :
             usage' = told /\ answer'.cost = SessionCost(model, told, 0, "omitted", 0, price)
      BY <1>4, <2>2, SMT DEF Answer, Reply, ReplyWith
    <3>2. /\ truth.input \in Nat /\ truth.text \in Nat /\ truth.image \in Nat
          /\ truth.thinking \in Nat /\ images = 0 /\ sent = 0
      BY <1>1, <2>2, Zenon DEF BillInv
    <3>3. PICK r \in 0..(truth.thinking + 1) :
             told = [input |-> truth.input, output |-> truth.text + truth.image + truth.thinking,
                     reasoning |-> r]
      BY <3>1, Zenon DEF Reports
    <3>4. told.reasoning = r /\ r \in Int
      BY <3>2, <3>3, SMT
    <3>5. /\ ImageUsd(model, ImageTier(model, "omitted"), 0, 0) = 0
          /\ ImageUsd(model, ImageTier(model, options.resolution), images, sent) = 0
      BY <3>2, Zenon DEF ImageUsd
    <3>6. price \in Nat \ {0}
      BY <1>2, <1>4, <3>1, SMT DEF SessionCost, InOpg
    <3>7. /\ Listed \in Nat /\ TokensListed \in Nat /\ answer'.cost * price \in Nat
          /\ told.reasoning <= truth.thinking => answer'.cost * price >= Listed * Scale
          /\ answer'.cost * price < (MostListed * Scale) + price
          /\ answer'.cost * price
                >= (Listed - (truth.image * (ImageRate(model) - model.outputPrice))) * Scale
      BY <1>3, <3>1, <3>2, <3>3, <3>4, <3>5, <3>6, CostBounds
    <3>8. ImagesListed \in Nat
      BY <3>5, SMT DEF ImagesListed
    <3>9. ASSUME told.reasoning <= truth.thinking
           PROVE  (answer'.cost * price) * Surcharge(model, truth.input) >= Charged * Scale
      BY <1>3, <3>2, <3>7, <3>8, <3>9, ChargeCovered
    <3>10. covered(answer'.cost, told.reasoning)
      BY <3>7, <3>9, Zenon
    <3>11. QED
      BY <3>1, <3>10
  <2>3. QED
    BY <2>1, <2>2
<1>5. QED
  BY <1>1, <1>4, Zenon DEF CoversListed, Listed, TokensListed, ImagesListed, MostListed, Charged

\* Only an answer of the provider's is paid for once the provider is called.
LEMMA OnlyAnswersCost ==
    ASSUME StageInv, [Next]_vars, at # "done", at' = "done", ~Answer
    PROVE  answer'.cost = NoCost \/ "provider" \notin calls'
<1>1. CASE ReadBody \/ Gate \/ Open \/ SearchRefused \/ Malformed \/ Validate \/ Moderate
  <2> USE DEF Refuse, Reply, ReplyWith, Go, NoCost
  <2>1. ASSUME ReadBody PROVE answer'.cost = NoCost
    BY <2>1, SMT DEF ReadBody
  <2>2. ASSUME Gate PROVE answer'.cost = NoCost
    BY <2>2, SMT DEF Gate, StageInv
  <2>3. ASSUME Open PROVE answer'.cost = NoCost
    BY <2>3, SMT DEF Open
  <2>4. ASSUME SearchRefused \/ Malformed PROVE answer'.cost = NoCost
    BY <2>4, SMT DEF SearchRefused, Malformed
  <2>5. ASSUME Validate PROVE answer'.cost = NoCost
    BY <2>5, SMT DEF Validate
  <2>6. ASSUME Moderate PROVE answer'.cost = NoCost
    BY <2>6, SMT DEF Moderate
  <2>7. QED
    BY <1>1, <2>1, <2>2, <2>3, <2>4, <2>5, <2>6
<1>2. CASE Search
  BY <1>2, SMT DEF Search, StageInv
<1>3. CASE CallFails
  BY <1>3, SMT DEF CallFails, ReplyWith
<1>4. CASE CallAnswers \/ PriceMoves \/ UNCHANGED vars
  BY <1>4, SMT DEF CallAnswers, PriceMoves, vars, Go
<1>5. QED
  BY <1>1, <1>2, <1>3, <1>4 DEF Next

\* What an answer costs covers what it took at the registry's rates, and what the
\* provider charges up to its factor for a long prompt, for every catalogue whose
\* images are no cheaper than text, every price and however it moves meanwhile
\* (pricing.py 52-176, image_generation.py 426-440 and 801-851).
THEOREM CostsAreCovered == Spec => []CoversListed
<1>1. Init => CoversListed
  BY SMT DEF Init, CoversListed
<1>2. StageInv /\ BillInv /\ CoversListed /\ [Next]_vars => CoversListed'
  <2> SUFFICES ASSUME StageInv, BillInv, CoversListed, [Next]_vars PROVE CoversListed'
    OBVIOUS
  <2>1. CASE at = "done"
    <3>1. UNCHANGED vars
      BY <2>1, DoneIsDone
    <3>2. QED
      BY <3>1, Zenon DEF vars, CoversListed, Listed, TokensListed, ImagesListed, MostListed, Charged
  <2>2. CASE at # "done" /\ Answer
    BY <2>2, AnswerIsCovered
  <2>3. CASE at # "done" /\ ~Answer
    BY <2>3, OnlyAnswersCost, Zenon DEF CoversListed
  <2>4. QED
    BY <2>1, <2>2, <2>3
<1>3. QED
  <2>1. BillInv /\ StageInv /\ [Next]_vars => BillInv'
    BY BillHolds
  <2>2. StageInv /\ [Next]_vars => StageInv'
    BY StagesHold
  <2>3. QED
    BY <1>1, <1>2, <2>1, <2>2, BillBegins, StagesBegin, PTL DEF Spec
=============================================================================
