----------------------------- MODULE Lifecycle -----------------------------
(***************************************************************************)
(* One worker from its start to its end: its keys (TeeKeys), the injection   *)
(* of the configuration step by step (set_provider_keys in __main__.py), the  *)
(* models requests build from it (ProviderBackend) and the heartbeat it       *)
(* starts (Heartbeat).                                                       *)
(***************************************************************************)
EXTENDS TeeKeys, Heartbeat, ProviderBackend

CONSTANT MaxInjections   \* bound: attempts to inject

VARIABLES
    step,       \* set_provider_keys(), or "none"; "done": _keys_initialized
    injector,   \* the thread that runs it
    injections  \* how many times set_provider_config() was entered

injectVars == <<step, injector, injections>>
vars == <<keyVars, beatVars, backendVars, injectVars>>

NoThread == "nobody"

ASSUME LifecycleAssumption ==
    Callers \subseteq Threads /\ NoThread \notin Threads /\ MaxInjections \in Nat \ {0}

Init == KeysInit /\ BeatInit /\ BackendInit /\ step = "none" /\ injector = NoThread /\ injections = 0

\* A thread that serves an inference request, or none.
Free(t) == injector # t

Serving == server = "serving"

----------------------------------------------------------------------------
(* A request: its model, the provider's call, the signature.                *)

Racing == step \notin {"none", "done"}

BeginRequest(t) ==
    /\ t \in Callers /\ Serving /\ Free(t) /\ asks[t] = "idle"
    /\ \E m \in Models : LookUp(t, m, Racing) \/ Hit(t, m)
    /\ UNCHANGED <<keyVars, beatVars, injectVars>>

BuildModel(t) ==
    /\ t \in Callers /\ Alive /\ (TakeClient(t) \/ Keep(t))
    /\ UNCHANGED <<keyVars, beatVars, injectVars>>

\* /signing-key needs no model, an answer is signed once it is there.
NeedKeys(t) ==
    /\ injector = t => step = "keys"
    /\ \/ Serving /\ (t \in Callers => calls[t].at = "idle")
       \/ t \in Callers /\ calls[t].at = "held"
       \/ injector = t \/ asks[t] # "idle"
    /\ GetKeys(t)
    /\ UNCHANGED <<beatVars, backendVars, injectVars>>

Answer(t) ==
    /\ t \in Callers /\ Alive /\ asks[t] = "idle" /\ manager # 0
    /\ Sign(manager)
    /\ Release(t)
    /\ UNCHANGED <<server, booted, made, manager, registered, asks, mine, beatVars, injectVars>>

----------------------------------------------------------------------------
(* set_provider_keys(), in the order of its calls.                          *)

Go(next) == step' = next /\ UNCHANGED <<injector, injections>>

\* It gives up with an exception; the operator may try again.
GiveUp == step' = "none" /\ injector' = NoThread /\ UNCHANGED injections

InjectBegin(t) ==
    /\ Serving /\ step = "none" /\ (t \in Callers => calls[t].at = "idle") /\ asks[t] = "idle"
    /\ injections < MaxInjections
    /\ injections' = injections + 1
    /\ step' = "clients" /\ injector' = t
    /\ calls' = [c \in Callers |-> IF calls[c].at = "idle" THEN calls[c]
                                   ELSE [calls[c] EXCEPT !.raced = TRUE]]
    /\ UNCHANGED <<keyVars, beatVars, config, client, closed, cache>>

InjectClients ==
    /\ step = "clients"
    /\ \/ \E m \in Shared : BuildClient(m, injections) /\ UNCHANGED injectVars
       \/ /\ \A m \in Shared : client[m] = injections
          /\ UNCHANGED backendVars /\ Go("clear")
    /\ UNCHANGED <<keyVars, beatVars>>

InjectClear == step = "clear" /\ ClearCache /\ Go("config") /\ UNCHANGED <<keyVars, beatVars>>

InjectConfig ==
    /\ step = "config"
    /\ SetConfig(injections) /\ Go("close")
    /\ UNCHANGED <<keyVars, beatVars>>

InjectClose ==
    /\ step = "close"
    /\ \/ \E m \in Shared : CloseOld(m, injections) /\ UNCHANGED injectVars
       \/ /\ \A m \in Shared : closed[m] = injections - 1
          /\ UNCHANGED backendVars /\ Go("keys")
    /\ UNCHANGED <<keyVars, beatVars>>

\* The wallet address is logged, which needs the keys.
InjectKeys ==
    /\ step = "keys" /\ asks[injector] = "idle"
    /\ IF manager # 0 THEN Go("heartbeat") ELSE GiveUp
    /\ UNCHANGED <<keyVars, beatVars, backendVars>>

\* With a heartbeat configured or without; that it fails is only logged.
InjectHeartbeat ==
    /\ step = "heartbeat"
    /\ InitHeartbeat(manager) \/ UNCHANGED beatVars
    /\ Go("payment")
    /\ UNCHANGED <<keyVars, backendVars>>

InjectPayment ==
    /\ step = "payment"
    /\ GiveUp \/ (step' = "done" /\ injector' = NoThread /\ UNCHANGED injections)
    /\ UNCHANGED <<keyVars, beatVars, backendVars>>

Inject ==
    /\ Alive
    /\ \/ InjectClients \/ InjectClear \/ InjectConfig \/ InjectClose
       \/ InjectKeys \/ InjectHeartbeat \/ InjectPayment

----------------------------------------------------------------------------
(* The process.                                                             *)

Started == Boot /\ UNCHANGED <<beatVars, backendVars, injectVars>>

Terminate == Shutdown /\ UNCHANGED <<beatVars, backendVars, injectVars>>

HeartbeatSteps ==
    /\ Alive /\ Beat
    /\ IF beat = "sign" THEN Sign(service) ELSE UNCHANGED signers
    /\ UNCHANGED <<server, booted, made, manager, registered, asks, mine, backendVars, injectVars>>

\* Nothing of a request is left, which an exit waits for.
Drained ==
    /\ injector = NoThread
    /\ \A t \in Threads : asks[t] = "idle" /\ (t \in Callers => calls[t].at = "idle")

\* atexit
HeartbeatStops ==
    /\ server = "stopping" /\ Drained
    /\ StopSet \/ StopJoined
    /\ UNCHANGED <<keyVars, backendVars, injectVars>>

\* The worker exits: killed, crashed, or because it was told to.
WorkerExits ==
    /\ Alive
    /\ KeysLost /\ BeatLost /\ BackendLost
    /\ step' = "none" /\ injector' = NoThread /\ injections' = 0

Next ==
    \/ Started \/ Terminate \/ HeartbeatSteps \/ HeartbeatStops \/ WorkerExits \/ Inject
    \/ \E t \in Threads :
          BeginRequest(t) \/ BuildModel(t) \/ NeedKeys(t) \/ Answer(t) \/ InjectBegin(t)

Spec == Init /\ [][Next]_vars /\ WF_vars(HeartbeatSteps)

----------------------------------------------------------------------------
(* Properties.                                                              *)

\* The values the variables take.
TypeOK ==
    /\ server \in {"booting", "serving", "stopping", "down"} /\ booted \in BOOLEAN
    /\ made \in 0..MaxManagers /\ manager \in 0..made /\ registered \in 0..made
    /\ asks \in [Threads -> {"idle", "make", "made"}] /\ mine \in [Threads -> 0..made]
    /\ signers \subseteq 1..made
    /\ service \in 0..made
    /\ beat \in {"none", "new", "loop", "sign", "relay", "retry", "nap", "ended"}
    /\ stopEvent \in BOOLEAN /\ running \in BOOLEAN /\ closing \in {"no", "join", "done"}
    /\ config \in 0..injections
    /\ client \in [Shared -> 0..injections] /\ closed \in [Shared -> 0..injections]
    /\ Cardinality(cache) <= CacheSize
    /\ injector \in Threads \cup {NoThread} /\ injections \in 0..MaxInjections

\* Whatever exits, restarts or fails, everything the enclave signs is signed
\* with one key, the one nitriding was told of if it was told of any, unless key
\* generation failed at startup, when requests may make keys of their own
\* (gunicorn_conf.py 75-96, tee_manager.py 307-312).
OneSigningKey ==
    booted => signers \subseteq {1} /\ registered \in {0, 1} /\ service \in {0, 1}

\* A service that was created is kept, its thread is the only one, and a retried
\* injection neither replaces the one nor starts the other again, for as long as
\* the process lives (_init_heartbeat, __main__.py 98-111).
OneHeartbeat ==
    [][server' # "down" =>
        /\ service # 0 => service' = service
        /\ beat' = "new" => beat \in {"none", "new"}]_vars

\* Within one beat nothing is relayed again once an attempt was acknowledged,
\* and no more than the retries allow: only a lost reply makes a heartbeat
\* arrive twice (heartbeat.py 129-160).
OncePerBeat ==
    /\ Len(posts) <= HEARTBEAT_MAX_RETRIES
    /\ \A k \in 1..Len(posts) : posts[k] = "ok" => k = Len(posts) /\ beat # "sign"

\* Once it was told to stop, the thread makes at most the one call it was about
\* to make, whether or not stop() waited for it, and the status never shows a
\* service running whose thread is gone (heartbeat.py 162-198).
LastWord == late <= 1 /\ (running => ThreadAlive)

\* Nothing that is built is out of date, unless an earlier injection failed and
\* a look-up overlapped the one that followed; and a look-up that finds a
\* configuration finds its client (llm_backend.py 94-207, 232-260).
FreshModels ==
    /\ \A t \in Callers : calls[t].at = "build" /\ calls[t].model \in Shared
                              => client[calls[t].model] # 0
    /\ \A c \in cache :
          ~Racing /\ ~(c.raced /\ injections > 1)
              => c.key = config /\ (c.model \in Shared => c.client = client[c.model])

\* However its relays end, a heartbeat that runs keeps calling the facilitator
\* until it is stopped or the process ends.
KeepsBeating == (beat # "none") ~> (beat = "relay" \/ stopEvent \/ server = "down")
=============================================================================
