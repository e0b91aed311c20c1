----------------------------- MODULE WaveSpeed -----------------------------
(***************************************************************************)
(* One request for generated images (image_generation.py).  WaveSpeed runs  *)
(* a prediction of its own that the gateway submits, polls against a        *)
(* deadline, fetches the outputs of and deletes; the other providers answer *)
(* one call with the images or their URLs.  WaveSpeed goes on by itself,    *)
(* and an injection of keys may close the HTTP client under the request.    *)
(***************************************************************************)
EXTENDS Naturals

CONSTANTS
    Providers,     \* "task" (WaveSpeed), "call" (all the others)
    MaxRefs,       \* image_max_references
    MaxOutputs,    \* bound: the entries of an answer's list of images
    PollInitial,   \* _WAVESPEED_POLL_INITIAL_SECONDS
    PollMax,       \* _WAVESPEED_POLL_MAX_SECONDS
    Deadline,      \* _WAVESPEED_DEADLINE_SECONDS
    MaxPollErrors, \* _WAVESPEED_MAX_POLL_ERRORS
    FetchAttempts, \* one more than there are _FETCH_RETRY_DELAYS_SECONDS
    QueryTimes,    \* how long a result query may last
    QueryMax,      \* the longest of them, as the client's time-outs allow
    RelayTimeout,  \* chat-api's read timeout
    Horizon        \* bound on the clock

VARIABLES
    provider,   \* who generates
    pc,         \* where the request stands
    refs,       \* inline references still to upload
    now,        \* time since the prediction was submitted
    delay,      \* the next sleep
    pollErrors, \* poll_errors
    streak,     \* result queries that failed since the last one that did not
    prediction, \* WaveSpeed's prediction
    outputs,    \* entries of the answer still to look at
    usable,     \* entries of the answer that hold an image or its URL
    images,     \* images taken
    attempt,    \* the attempt at the present URL
    closed,     \* the provider's HTTP client was closed
    result,     \* what the caller gets
    why         \* what happened on the way (marks the properties read)

pollVars  == <<now, delay, pollErrors, streak>>
fetchVars == <<outputs, usable, images, attempt>>
vars == <<provider, pc, refs, pollVars, prediction, fetchVars, closed, result, why>>

ASSUME WaveSpeedAssumption ==
    /\ Providers \subseteq {"task", "call"}
    /\ {MaxRefs, MaxOutputs, Deadline, QueryMax, RelayTimeout, Horizon} \subseteq Nat
    /\ PollInitial \in Nat /\ PollMax \in Nat /\ PollInitial <= PollMax
    /\ MaxPollErrors \in Nat \ {0} /\ FetchAttempts \in Nat \ {0}
    /\ QueryTimes \subseteq 0..QueryMax
    /\ Horizon > Deadline + PollMax + QueryMax

Marks == {"polls", "refused", "orphaned", "stillRunning", "notDeleted"}

TypeOK ==
    /\ provider \in Providers
    /\ pc \in {"upload", "post", "sleep", "query", "fetch", "delete", "done"}
    /\ refs \in 0..MaxRefs
    /\ now \in 0..Horizon /\ delay \in 0..PollMax
    /\ pollErrors \in 0..MaxPollErrors /\ streak \in 0..MaxPollErrors
    /\ prediction \in {"none", "running", "completed", "failed", "deleted"}
    /\ outputs \in 0..MaxOutputs /\ usable \in 0..MaxOutputs /\ images \in 0..MaxOutputs
    /\ attempt \in 1..FetchAttempts
    /\ closed \in BOOLEAN
    /\ result \in {"none", "images", "error", "timeout"}
    /\ why \subseteq Marks

Init ==
    /\ provider \in Providers
    /\ refs \in 0..MaxRefs
    /\ pc = IF provider = "task" /\ refs > 0 THEN "upload" ELSE "post"
    /\ now = 0 /\ delay = PollInitial /\ pollErrors = 0 /\ streak = 0
    /\ prediction = "none"
    /\ outputs = 0 /\ usable = 0 /\ images = 0 /\ attempt = 1
    /\ closed = FALSE
    /\ result = "none" /\ why = {}

Least(a, b) == IF a <= b THEN a ELSE b

\* The request is over with r, once the finally block has run.
Leave(r, p) == result' = r /\ pc' = p

----------------------------------------------------------------------------
(* References and submission.                                               *)

\* A ticket from WaveSpeed, then the bytes to its upload URL: any failure ends
\* the request before there is a prediction.
UploadRef ==
    /\ pc = "upload"
    /\ \/ /\ ~closed
          /\ refs' = refs - 1
          /\ pc' = IF refs = 1 THEN "post" ELSE "upload"
          /\ UNCHANGED result
       \/ Leave("error", "done") /\ UNCHANGED refs
    /\ UNCHANGED <<provider, pollVars, prediction, fetchVars, closed, why>>

\* The answer may be lost after WaveSpeed took the prediction: without its id
\* the gateway can neither poll nor delete it.
Submit ==
    /\ pc = "post" /\ provider = "task"
    /\ \/ /\ ~closed
          /\ prediction' = "running"
          /\ \/ pc' = "sleep" /\ UNCHANGED <<result, why>>
             \/ Leave("error", "done") /\ why' = why \cup {"orphaned"}
       \/ Leave("error", "done") /\ UNCHANGED <<prediction, why>>
    /\ UNCHANGED <<provider, refs, pollVars, fetchVars, closed>>

\* A list of n entries, u of them usable.  WaveSpeed's must be http(s) URLs,
\* the others' objects with inline data or a URL; no list is an empty one.
Gather(n, u) == outputs' = n /\ usable' = u /\ UNCHANGED <<images, attempt>>

\* The other providers: one call for the images or their URLs.
Call ==
    /\ pc = "post" /\ provider = "call"
    /\ \/ /\ ~closed
          /\ \E n \in 0..MaxOutputs : \E u \in 0..n : Gather(n, u)
          /\ pc' = "fetch" /\ UNCHANGED result
       \/ Leave("error", "done") /\ UNCHANGED fetchVars
    /\ UNCHANGED <<provider, refs, pollVars, prediction, closed, why>>

----------------------------------------------------------------------------
(* _wavespeed_wait().                                                       *)

Pass(d) == now' = Least(now + d, Horizon)

Sleep ==
    /\ pc = "sleep"
    /\ Pass(delay)
    /\ pc' = "query"
    /\ UNCHANGED <<provider, refs, delay, pollErrors, streak, prediction, fetchVars, closed,
                   result, why>>

MutantGoOn ==     \* the deadline is not checked after a query
    /\ pc' = "sleep"
    /\ delay' = Least((delay * 3) \div 2, PollMax)
    /\ UNCHANGED result

\* Past the deadline the caller gets a time-out; the check is against the delay
\* just slept, and the next one may be longer.
GoOn ==
    IF now' + delay > Deadline
    THEN Leave("timeout", "delete") /\ UNCHANGED delay
    ELSE /\ pc' = "sleep"
         /\ delay' = Least((delay * 3) \div 2, PollMax)
         /\ UNCHANGED result

Query == pc = "query" /\ \E d \in QueryTimes : Pass(d)

MutantQueryAnswered ==     \* poll_errors is not reset
    /\ Query /\ ~closed
    /\ UNCHANGED pollErrors /\ streak' = 0
    /\ \/ /\ prediction = "completed"
          /\ \E n \in 0..MaxOutputs : \E u \in 0..n : Gather(n, u)
          /\ pc' = "fetch"
          /\ UNCHANGED <<delay, result>>
       \/ /\ prediction = "failed"
          /\ Leave("error", "delete")
          /\ UNCHANGED <<delay, fetchVars>>
       \/ /\ prediction = "running"
          /\ GoOn
          /\ UNCHANGED fetchVars
    /\ UNCHANGED <<provider, refs, prediction, closed, why>>

QueryAnswered ==
    /\ Query /\ ~closed
    /\ pollErrors' = 0 /\ streak' = 0
    /\ \/ /\ prediction = "completed"
          /\ \E n \in 0..MaxOutputs : \E u \in 0..n : Gather(n, u)
          /\ pc' = "fetch"
          /\ UNCHANGED <<delay, result>>
       \/ /\ prediction = "failed"
          /\ Leave("error", "delete")
          /\ UNCHANGED <<delay, fetchVars>>
       \/ /\ prediction = "running"
          /\ GoOn
          /\ UNCHANGED fetchVars
    /\ UNCHANGED <<provider, refs, prediction, closed, why>>

MutantQueryTransient ==     \* gives up after MaxPollErrors instead of at it
    /\ Query /\ ~closed
    /\ pollErrors' = pollErrors + 1 /\ streak' = streak + 1
    /\ IF pollErrors' > MaxPollErrors
       THEN /\ Leave("error", "delete")
            /\ why' = why \cup {"polls"}
            /\ UNCHANGED delay
       ELSE GoOn /\ UNCHANGED why
    /\ UNCHANGED <<provider, refs, prediction, fetchVars, closed>>

\* A transport error, 404, 429 or 5xx.
QueryTransient ==
    /\ Query /\ ~closed
    /\ pollErrors' = pollErrors + 1 /\ streak' = streak + 1
    /\ IF pollErrors' >= MaxPollErrors
       THEN /\ Leave("error", "delete")
            /\ why' = why \cup {"polls"}
            /\ UNCHANGED delay
       ELSE GoOn /\ UNCHANGED why
    /\ UNCHANGED <<provider, refs, prediction, fetchVars, closed>>

\* Any other status, an error in WaveSpeed's envelope, a body that is not JSON,
\* or the client was closed.
QueryRefused ==
    /\ Query
    /\ Leave("error", "delete")
    /\ why' = why \cup {"refused"}
    /\ UNCHANGED <<provider, refs, delay, pollErrors, streak, prediction, fetchVars, closed>>

----------------------------------------------------------------------------
(* Every entry in turn; _fetch_url_as_data_uri() for its URL, with a client  *)
(* of its own.                                                              *)

MutantAfterFetch == IF provider = "task" /\ outputs = 0 THEN "delete" ELSE "done"

\* The finally block of _generate_wavespeed() comes first.
AfterFetch == IF provider = "task" THEN "delete" ELSE "done"

\* The next entry is one that holds an image (usable - images of those left do)
\* or one that holds none.
AtImage == pc = "fetch" /\ images < usable
AtDud   == pc = "fetch" /\ attempt = 1 /\ outputs > usable - images

\* Fetched, or there inline.
FetchOk ==
    /\ AtImage
    /\ outputs' = outputs - 1 /\ images' = images + 1 /\ attempt' = 1
    /\ UNCHANGED <<provider, pc, refs, pollVars, prediction, usable, closed, result, why>>

\* What holds no image is left out of the answer, with a line in the log for
\* WaveSpeed and none for the others.
FetchSkip ==
    /\ AtDud
    /\ outputs' = outputs - 1
    /\ UNCHANGED <<provider, pc, refs, pollVars, prediction, usable, images, attempt, closed,
                   result, why>>

MutantFetchTransient ==     \* an image that cannot be fetched is skipped
    /\ AtImage
    /\ \/ /\ attempt < FetchAttempts
          /\ attempt' = attempt + 1
          /\ UNCHANGED outputs
       \/ /\ attempt = FetchAttempts
          /\ outputs' = outputs - 1 /\ attempt' = 1
    /\ UNCHANGED <<provider, pc, refs, pollVars, prediction, usable, images, closed, result, why>>

\* 404, 5xx or a transport error: the URL is tried again after a pause.
FetchTransient ==
    /\ AtImage
    /\ \/ /\ attempt < FetchAttempts
          /\ attempt' = attempt + 1
          /\ UNCHANGED <<pc, result>>
       \/ /\ attempt = FetchAttempts
          /\ Leave("error", AfterFetch)
          /\ UNCHANGED attempt
    /\ UNCHANGED <<provider, refs, pollVars, prediction, outputs, usable, images, closed, why>>

\* Any other status, a URL that is refused or an image over the size limit.
FetchRefused ==
    /\ AtImage
    /\ Leave("error", AfterFetch)
    /\ UNCHANGED <<provider, refs, pollVars, prediction, fetchVars, closed, why>>

FetchDone ==
    /\ pc = "fetch" /\ outputs = 0
    /\ Leave("images", AfterFetch)
    /\ UNCHANGED <<provider, refs, pollVars, prediction, fetchVars, closed, why>>

Fetch == FetchOk \/ FetchSkip \/ FetchTransient \/ FetchRefused \/ FetchDone

\* Best effort: WaveSpeed skips a prediction that still runs, and an error is
\* only logged.
Delete ==
    /\ pc = "delete"
    /\ pc' = "done"
    /\ \/ /\ ~closed /\ prediction # "running"
          /\ prediction' = "deleted"
          /\ UNCHANGED why
       \/ /\ ~closed /\ prediction = "running"
          /\ why' = why \cup {"stillRunning"}
          /\ UNCHANGED prediction
       \/ /\ why' = why \cup {"notDeleted"}
          /\ UNCHANGED prediction
    /\ UNCHANGED <<provider, refs, pollVars, fetchVars, closed, result>>

----------------------------------------------------------------------------

\* WaveSpeed ends the prediction, whether anybody still waits for it or not.
PredictionEnds ==
    /\ prediction = "running"
    /\ prediction' \in {"completed", "failed"}
    /\ UNCHANGED <<provider, pc, refs, pollVars, fetchVars, closed, result, why>>

\* Keys are injected again after a failed injection: set_provider_config()
\* replaces the clients and closes the old ones.
CloseClient ==
    /\ ~closed
    /\ closed' = TRUE
    /\ UNCHANGED <<provider, pc, refs, pollVars, prediction, fetchVars, result, why>>

Poll == Sleep \/ QueryAnswered \/ QueryTransient \/ QueryRefused

Work == UploadRef \/ Submit \/ Call \/ Poll \/ Fetch \/ Delete

Next == Work \/ PredictionEnds \/ CloseClient

Spec == Init /\ [][Next]_vars

\* The worker thread goes on; nothing is assumed of WaveSpeed.
FairSpec == Spec /\ WF_vars(Work)

----------------------------------------------------------------------------

\* No prompt or image is left behind at WaveSpeed unnoticed: when the request
\* is over, however it ended, its prediction is deleted, or the deletion failed
\* or came while it still ran, or its id was lost (the finally block of
\* _generate_wavespeed).
NothingKeptSilently ==
    pc = "done" /\ prediction \notin {"none", "deleted"} =>
        why \cap {"orphaned", "stillRunning", "notDeleted"} # {}

\* A blip does not throw away a paid generation: polling is given up for its
\* errors only after MaxPollErrors queries in a row have failed.
BlipsForgiven == "polls" \in why => streak >= MaxPollErrors

\* The wait for a prediction is bounded whatever WaveSpeed does: by the
\* deadline, one more sleep and one more query.
WaitBounded == now <= Deadline + PollMax + QueryMax

\* No image is lost on the way: an answer, and with it the bill, leaves out only
\* entries that hold no image (those without a word), and never one whose fetch
\* failed, however late: then there is no answer and no charge.
OnlyDudsLeftOut == result = "images" => images = usable

\* Every request ends, even if WaveSpeed never ends its prediction.
AnsweredInTheEnd == pc # "done" ~> pc = "done"

\* "How long one request waits for its prediction before failing as a provider
\* timeout (504). ... Kept under chat-api's 210s relay read timeout"
\* (_WAVESPEED_DEADLINE_SECONDS): a time-out is reported while the relay listens.
TimesOutInTime == result = "timeout" => now <= RelayTimeout
=============================================================================
