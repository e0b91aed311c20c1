----------------------------- MODULE Heartbeat -----------------------------
(***************************************************************************)
(* HeartbeatService (heartbeat/heartbeat.py): its daemon thread, the relay   *)
(* calls it makes and how it is stopped.  Time is left out: a wait with a    *)
(* timeout ends at any moment, or when the stop event is set.                *)
(***************************************************************************)
EXTENDS Naturals, Sequences

CONSTANT HEARTBEAT_MAX_RETRIES

VARIABLES
    service,   \* _heartbeat_service: the manager whose keys it has; 0: None
    beat,      \* its thread: "none", "new", "loop", "sign", "relay", "retry", "nap", "ended"
    posts,     \* what became of the relays of the beat under way
    stopEvent, \* _stop_event
    closing,   \* stop(): "no", "join", "done"
    running,   \* _running
    late       \* relays begun after the stop event was set

beatVars == <<service, beat, posts, stopEvent, closing, running, late>>

ASSUME HeartbeatAssumption == HEARTBEAT_MAX_RETRIES \in Nat \ {0}

BeatInit ==
    /\ service = 0 /\ beat = "none" /\ posts = << >>
    /\ stopEvent = FALSE /\ closing = "no" /\ running = FALSE /\ late = 0

ThreadAlive == beat \notin {"none", "ended"}

\* start(): the thread may not come up, and then start() raises.
Start ==
    \/ ThreadAlive /\ UNCHANGED <<beat, stopEvent>>
    \/ ~ThreadAlive /\ stopEvent' = FALSE /\ beat' \in {beat, "new"}

MutantInitHeartbeat(m) ==     \* an earlier service is not looked at
    /\ service' \in {service, m}
    /\ beat' \in {beat, "new"} /\ stopEvent' = FALSE
    /\ UNCHANGED <<posts, closing, running, late>>

\* _init_heartbeat() with a config, and the keys m: the service is assigned
\* before it is started, and one that was assigned is not looked at again.
InitHeartbeat(m) ==
    /\ \/ service # 0 /\ UNCHANGED <<service, beat, stopEvent>>
       \/ service = 0 /\ service' = m /\ Start
    /\ UNCHANGED <<posts, closing, running, late>>

----------------------------------------------------------------------------
(* The thread: _run_loop(), _send_heartbeat(), _relay_heartbeat().          *)

Begin ==
    /\ beat = "new"
    /\ running' = TRUE
    /\ beat' = "loop"
    /\ UNCHANGED <<service, posts, stopEvent, closing, late>>

Loop ==
    /\ beat = "loop"
    /\ running' = (running /\ ~stopEvent)
    /\ beat' = IF stopEvent THEN "ended" ELSE "sign"
    /\ posts' = << >>
    /\ UNCHANGED <<service, stopEvent, closing, late>>

\* An attempt begins, without another look at the event: its time stamp is
\* taken and signed and the call to the facilitator is made.
Post ==
    /\ beat = "sign"
    /\ beat' = "relay"
    /\ late' = IF stopEvent THEN late + 1 ELSE late
    /\ UNCHANGED <<service, posts, stopEvent, closing, running>>

Outcomes == {"ok", "error"}   \* an error may be a lost reply: the call may have arrived

MutantRelay(r) ==     \* no return after a success: the attempts go on
    /\ beat = "relay"
    /\ posts' = Append(posts, r)
    /\ beat' = IF Len(posts') = HEARTBEAT_MAX_RETRIES THEN "nap" ELSE "retry"
    /\ UNCHANGED <<service, stopEvent, closing, running, late>>

Relay(r) ==
    /\ beat = "relay"
    /\ posts' = Append(posts, r)
    /\ beat' = IF r = "ok" \/ Len(posts') = HEARTBEAT_MAX_RETRIES THEN "nap" ELSE "retry"
    /\ UNCHANGED <<service, stopEvent, closing, running, late>>

MutantRetry ==     \* a plain sleep between the attempts
    /\ beat = "retry"
    /\ beat' = "sign"
    /\ UNCHANGED <<service, posts, stopEvent, closing, running, late>>

\* The wait before a retry: only what the event is when it ends counts.
Retry ==
    /\ beat = "retry"
    /\ beat' = IF stopEvent THEN "nap" ELSE "sign"
    /\ UNCHANGED <<service, posts, stopEvent, closing, running, late>>

MutantWake ==     \* a beat whose attempts all failed raises out of the loop
    /\ beat = "nap"
    /\ beat' = IF Len(posts) = HEARTBEAT_MAX_RETRIES /\ posts[Len(posts)] # "ok"
               THEN "ended" ELSE "loop"
    /\ UNCHANGED <<service, posts, stopEvent, closing, running, late>>

\* The interval is over or the event is set.
Wake ==
    /\ beat = "nap"
    /\ beat' = "loop"
    /\ UNCHANGED <<service, posts, stopEvent, closing, running, late>>

Beat == Begin \/ Loop \/ Post \/ Retry \/ Wake \/ \E r \in Outcomes : Relay(r)

----------------------------------------------------------------------------
(* stop(), from atexit.                                                     *)

StopSet ==
    /\ closing = "no"
    /\ IF service = 0 THEN closing' = "done" /\ UNCHANGED stopEvent
       ELSE closing' = "join" /\ stopEvent' = TRUE
    /\ UNCHANGED <<service, beat, posts, running, late>>

\* The join ends with the thread or after 10 s; a relay may take 20.
StopJoined ==
    /\ closing = "join"
    /\ closing' = "done" /\ running' = FALSE
    /\ UNCHANGED <<service, beat, posts, stopEvent, late>>

\* The process ends, and its daemon thread with it.
BeatLost ==
    /\ service' = 0 /\ beat' = "none" /\ posts' = << >>
    /\ stopEvent' = FALSE /\ closing' = "no" /\ running' = FALSE
    /\ UNCHANGED late
=============================================================================
