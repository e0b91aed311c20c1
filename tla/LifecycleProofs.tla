--------------------------- MODULE LifecycleProofs ---------------------------
(***************************************************************************)
(* What one worker guarantees from its start to its end, for any number of   *)
(* threads, managers, models, injections and retries.  One invariant per     *)
(* part: its keys, its heartbeat, its models.                                *)
(***************************************************************************)
EXTENDS Lifecycle, TLAPS, FiniteSetTheorems

----------------------------------------------------------------------------
(* Keys.                                                                    *)

KeyTypes ==
    /\ server \in {"booting", "serving", "stopping", "down"} /\ booted \in BOOLEAN
    /\ made \in 0..MaxManagers /\ manager \in 0..made /\ registered \in 0..made
    /\ asks \in [Threads -> {"idle", "make", "made"}] /\ mine \in [Threads -> 0..made]
    /\ signers \subseteq 1..made
    /\ service \in 0..made

\* Once the startup has made a manager nobody makes another: that needs a thread
\* that found none.
KeyInv ==
    /\ KeyTypes
    /\ \A t \in Threads : asks[t] = "made" => mine[t] # 0
    /\ beat # "none" => service # 0
    /\ step = "heartbeat" => manager # 0
    /\ server = "booting" => made = 0 /\ ~booted /\ \A t \in Threads : asks[t] = "idle"
    /\ booted => made = 1
    /\ booted /\ Alive => manager = 1 /\ \A t \in Threads : asks[t] = "idle"

\* The start has no keys yet.
LEMMA KeysBegin == Init => KeyInv
<1> SUFFICES ASSUME Init PROVE KeyInv
  OBVIOUS
<1>1. booted \in BOOLEAN /\ ~booted
  BY Zenon DEF Init, KeysInit
<1>2. QED
  BY <1>1, TeeKeysAssumption, SMT DEF Init, KeysInit, BeatInit, KeyInv, KeyTypes, Alive

\* No step makes a second key once the startup has made one.
LEMMA KeysHold == KeyInv /\ [Next]_vars => KeyInv'
<1> SUFFICES ASSUME KeyInv, [Next]_vars PROVE KeyInv'
  OBVIOUS
<1> USE TeeKeysAssumption DEF KeyInv, KeyTypes, Alive, keyVars, beatVars, backendVars, injectVars
<1>1. CASE Started
  <2>1. booted' \in BOOLEAN
    BY <1>1, Zenon DEF Started, Boot
  <2>2. QED
    BY <1>1, <2>1, SMT DEF Started, Boot, NewManager
<1>2. CASE Terminate
  BY <1>2, SMT DEF Terminate, Shutdown
<1>3. CASE HeartbeatSteps
  <2>1. beat # "none" /\ beat' # "none" /\ service' = service
    BY <1>3, SMT DEF HeartbeatSteps, Beat, Begin, Loop, Post, Retry, Wake, Relay
  <2>2. service \in 1..made
    BY <2>1, SMT
  <2>3. signers' = signers \/ signers' = signers \cup {service}
    BY <1>3, Zenon DEF HeartbeatSteps, Sign
  <2>4. signers' \subseteq 1..made
    BY <2>2, <2>3, Zenon
  <2>5. UNCHANGED <<server, booted, made, manager, registered, asks, mine, step>>
    BY <1>3, Zenon DEF HeartbeatSteps
  <2>6. QED
    BY <2>1, <2>4, <2>5, SMT
<1>4. CASE HeartbeatStops
  BY <1>4, SMT DEF HeartbeatStops, StopSet, StopJoined
<1>5. CASE WorkerExits
  <2>1. /\ server' = "down" /\ manager' = 0 /\ service' = 0 /\ beat' = "none" /\ step' = "none"
        /\ asks' = [t \in Threads |-> "idle"] /\ mine' = [t \in Threads |-> 0]
        /\ UNCHANGED <<booted, made, registered, signers>>
    BY <1>5, Zenon DEF WorkerExits, KeysLost, ChildExit, BeatLost
  <2>2. QED
    BY <2>1, SMT
<1>6. CASE Inject
  <2>1. CASE InjectClients \/ InjectClear \/ InjectConfig \/ InjectClose \/ InjectPayment
    <3>1. UNCHANGED <<keyVars, beatVars>>
      BY <2>1, Zenon DEF InjectClients, InjectClear, InjectConfig, InjectClose, InjectPayment
    <3>2. step' # "heartbeat"
      BY <2>1, SMT DEF InjectClients, InjectClear, InjectConfig, InjectClose, InjectPayment, Go, GiveUp
    <3>3. QED
      BY <3>1, <3>2, SMT
  <2>2. CASE InjectKeys
    BY <2>2, SMT DEF InjectKeys, Go, GiveUp
  <2>3. CASE InjectHeartbeat
    BY <2>3, SMT DEF InjectHeartbeat, InitHeartbeat, Start, ThreadAlive, Go
  <2>4. QED
    BY <1>6, <2>1, <2>2, <2>3 DEF Inject
<1>7. ASSUME NEW t \in Threads, BeginRequest(t) \/ BuildModel(t) \/ InjectBegin(t)
      PROVE  KeyInv'
  BY <1>7, SMT DEF BeginRequest, BuildModel, InjectBegin
<1>8. ASSUME NEW t \in Threads, NeedKeys(t)
      PROVE  KeyInv'
  <2>1. GetKeys(t) /\ UNCHANGED <<beatVars, injectVars>>
    BY <1>8 DEF NeedKeys
  <2>2. CASE SeeNone(t)
    BY <2>1, <2>2, SMT DEF SeeNone
  <2>3. CASE Make(t)
    BY <2>1, <2>3, SMT DEF Make, NewManager
  <2>4. CASE MakeFails(t)
    BY <2>1, <2>4, SMT DEF MakeFails
  <2>5. CASE Assign(t)
    BY <2>1, <2>5, SMT DEF Assign
  <2>6. QED
    BY <2>1, <2>2, <2>3, <2>4, <2>5 DEF GetKeys
<1>9. ASSUME NEW t \in Threads, Answer(t)
      PROVE  KeyInv'
  BY <1>9, SMT DEF Answer, Sign
<1>10. CASE UNCHANGED vars
  BY <1>10, SMT DEF vars
<1>11. QED
  BY <1>1, <1>2, <1>3, <1>4, <1>5, <1>6, <1>7, <1>8, <1>9, <1>10 DEF Next

\* However threads race for the keys, injections fail and the worker ends, what
\* is signed is signed with the startup's key (tee_manager.py 307-312,
\* gunicorn_conf.py 75-96).
THEOREM SignedWithOneKey == Spec => []OneSigningKey
<1>1. KeyInv => OneSigningKey
  BY SMT DEF KeyInv, KeyTypes, OneSigningKey
<1>2. QED
  BY <1>1, KeysBegin, KeysHold, PTL DEF Spec

----------------------------------------------------------------------------
(* The heartbeat.                                                           *)

Unanswered == \A k \in 1..Len(posts) : posts[k] # "ok"

\* A service is there before its thread is and before it can be stopped; while
\* attempts go on none was acknowledged; and after a call that began too late the
\* thread is past the place where it makes one.
BeatInv ==
    /\ beat \in {"none", "new", "loop", "sign", "relay", "retry", "nap", "ended"}
    /\ posts \in Seq(Outcomes) /\ Len(posts) <= HEARTBEAT_MAX_RETRIES
    /\ stopEvent \in BOOLEAN /\ running \in BOOLEAN
    /\ service = 0 => ~stopEvent
    /\ beat \in {"sign", "relay", "retry"} => Unanswered /\ Len(posts) < HEARTBEAT_MAX_RETRIES
    /\ late \in 0..1
    /\ late = 1 /\ server # "down" => stopEvent /\ beat \notin {"new", "sign"}
    /\ running => ThreadAlive
    /\ OncePerBeat

\* The start has no heartbeat.
LEMMA BeatBegins == Init => BeatInv
<1> SUFFICES ASSUME Init PROVE BeatInv
  OBVIOUS
<1>1. stopEvent \in BOOLEAN /\ ~stopEvent /\ running \in BOOLEAN /\ ~running
  BY Zenon DEF Init, BeatInit
<1>2. posts \in Seq(Outcomes) /\ Len(posts) = 0
  BY SMT DEF Init, BeatInit
<1>3. beat = "none" /\ service = 0 /\ late = 0
  BY DEF Init, BeatInit
<1>4. QED
  BY <1>1, <1>2, <1>3, HeartbeatAssumption, SMT
     DEF BeatInv, Unanswered, OncePerBeat, ThreadAlive

\* A step of the thread.
LEMMA BeatGoesOn ==
    ASSUME BeatInv, Beat, server # "down", server' = server
    PROVE  BeatInv'
<1> USE HeartbeatAssumption DEF BeatInv, Unanswered, OncePerBeat, ThreadAlive
<1>1. CASE Begin
  BY <1>1, SMT DEF Begin
<1>2. CASE Loop
  <2>1. running' \in BOOLEAN /\ (running' => ~stopEvent)
    BY <1>2, Zenon DEF Loop
  <2>2. posts' = << >> /\ << >> \in Seq(Outcomes) /\ Len(<< >>) = 0
    BY <1>2, SMT DEF Loop
  <2>3. QED
    BY <1>2, <2>1, <2>2, SMT DEF Loop
<1>3. CASE Post
  BY <1>3, SMT DEF Post
<1>4. CASE Retry
  BY <1>4, SMT DEF Retry
<1>5. CASE Wake
  BY <1>5, SMT DEF Wake
<1>6. ASSUME NEW r \in Outcomes, Relay(r)
      PROVE  BeatInv'
  <2>1. posts' \in Seq(Outcomes) /\ Len(posts') = Len(posts) + 1
    BY <1>6, SMT DEF Relay
  <2>2. \A k \in 1..Len(posts) : posts'[k] = posts[k]
    BY <1>6, SMT DEF Relay
  <2>3. posts'[Len(posts')] = r
    BY <1>6, SMT DEF Relay
  <2>4. \A k \in 1..Len(posts') : posts'[k] = "ok" => k = Len(posts') /\ r = "ok"
    BY <1>6, <2>1, <2>2, <2>3, SMT DEF Relay
  <2>5. UNCHANGED <<service, stopEvent, closing, running, late>>
    BY <1>6 DEF Relay
  <2>6. beat = "relay" /\ beat' \in {"nap", "retry"}
        /\ (beat' = "retry" => r # "ok" /\ Len(posts') # HEARTBEAT_MAX_RETRIES)
    BY <1>6, SMT DEF Relay
  <2>7. QED
    BY <2>1, <2>4, <2>5, <2>6, SMT
<1>7. QED
  BY <1>1, <1>2, <1>3, <1>4, <1>5, <1>6 DEF Beat

\* A step that leaves the heartbeat and the server as they are.
LEMMA BeatFrame ==
    ASSUME BeatInv, UNCHANGED beatVars, UNCHANGED server
    PROVE  BeatInv'
  BY Zenon DEF BeatInv, beatVars, Unanswered, OncePerBeat, ThreadAlive

\* No step, of the thread or of stop(), starts a beat over.
LEMMA BeatHolds == KeyInv /\ BeatInv /\ [Next]_vars => BeatInv'
<1> SUFFICES ASSUME KeyInv, BeatInv, [Next]_vars PROVE BeatInv'
  OBVIOUS
<1>1. CASE Started \/ Terminate
  <2>1. UNCHANGED beatVars /\ server # "down" /\ server' # "down"
    BY <1>1, SMT DEF Started, Terminate, Boot, Shutdown
  <2>2. QED
    BY <2>1, Zenon DEF BeatInv, beatVars, Unanswered, OncePerBeat, ThreadAlive
<1>2. CASE HeartbeatSteps
  <2>1. Beat /\ server # "down" /\ server' = server
    BY <1>2, SMT DEF HeartbeatSteps, Alive
  <2>2. QED
    BY <2>1, BeatGoesOn
<1>3. CASE HeartbeatStops
  <2>1. server = "stopping" /\ server' = server /\ (StopSet \/ StopJoined)
    BY <1>3 DEF HeartbeatStops, keyVars
  <2>2. CASE StopSet
    <3>1. UNCHANGED <<service, beat, posts, running, late>>
      BY <2>2 DEF StopSet
    <3>2. \/ service = 0 /\ stopEvent' = stopEvent
          \/ service # 0 /\ stopEvent' \in BOOLEAN /\ stopEvent'
      BY <2>2, Zenon DEF StopSet
    <3>3. QED
      BY <2>1, <3>1, <3>2, SMT DEF BeatInv, Unanswered, OncePerBeat, ThreadAlive
  <2>3. CASE StopJoined
    <3>1. UNCHANGED <<service, beat, posts, stopEvent, late>>
      BY <2>3 DEF StopJoined
    <3>2. running' \in BOOLEAN /\ ~running'
      BY <2>3, Zenon DEF StopJoined
    <3>3. QED
      BY <2>1, <3>1, <3>2, SMT DEF BeatInv, Unanswered, OncePerBeat, ThreadAlive
  <2>4. QED
    BY <2>1, <2>2, <2>3
<1>4. CASE WorkerExits
  <2>1. server' = "down" /\ BeatLost
    BY <1>4, Zenon DEF WorkerExits, KeysLost, ChildExit
  <2>2. posts' \in Seq(Outcomes) /\ Len(posts') = 0
    BY <2>1, SMT DEF BeatLost
  <2>3. stopEvent' \in BOOLEAN /\ ~stopEvent' /\ running' \in BOOLEAN /\ ~running'
    BY <2>1, Zenon DEF BeatLost
  <2>4. beat' = "none" /\ service' = 0 /\ late' = late
    BY <2>1 DEF BeatLost
  <2>5. QED
    BY <2>1, <2>2, <2>3, <2>4, HeartbeatAssumption, SMT
       DEF BeatInv, Unanswered, OncePerBeat, ThreadAlive
<1>5. CASE Inject
  <2>1. CASE InjectClients \/ InjectClear \/ InjectConfig \/ InjectClose \/ InjectKeys \/ InjectPayment
    <3>1. UNCHANGED beatVars /\ UNCHANGED server
      BY <2>1, Zenon DEF InjectClients, InjectClear, InjectConfig, InjectClose, InjectKeys,
                         InjectPayment, keyVars
    <3>2. QED
      BY <3>1, BeatFrame
  <2>2. CASE InjectHeartbeat
    <3>1. UNCHANGED server /\ (InitHeartbeat(manager) \/ UNCHANGED beatVars)
      BY <2>2, Zenon DEF InjectHeartbeat, keyVars
    <3>2. CASE UNCHANGED beatVars
      BY <3>1, <3>2, BeatFrame
    <3>3. CASE InitHeartbeat(manager) /\ service # 0
      <4>1. UNCHANGED beatVars
        BY <3>3, SMT DEF InitHeartbeat, beatVars
      <4>2. QED
        BY <3>1, <4>1, BeatFrame
    <3>4. CASE InitHeartbeat(manager) /\ service = 0
      <4>1. beat = "none" /\ ~stopEvent /\ ~running
        BY <3>4, SMT DEF KeyInv, BeatInv, ThreadAlive
      <4>2. /\ service' = manager /\ beat' \in {"none", "new"}
            /\ stopEvent' \in BOOLEAN /\ ~stopEvent'
            /\ UNCHANGED <<posts, closing, running, late>>
        BY <3>4, <4>1, Zenon DEF InitHeartbeat, Start, ThreadAlive
      <4>3. QED
        BY <3>1, <4>1, <4>2, SMT DEF BeatInv, Unanswered, OncePerBeat, ThreadAlive
    <3>5. QED
      BY <3>1, <3>2, <3>3, <3>4
  <2>3. QED
    BY <1>5, <2>1, <2>2 DEF Inject
<1>6. ASSUME NEW t \in Threads,
             BeginRequest(t) \/ BuildModel(t) \/ NeedKeys(t) \/ Answer(t) \/ InjectBegin(t)
      PROVE  BeatInv'
  <2>1. UNCHANGED beatVars
    BY <1>6, Zenon DEF BeginRequest, BuildModel, NeedKeys, Answer, InjectBegin
  <2>2. UNCHANGED server
    BY <1>6, Zenon DEF BeginRequest, BuildModel, NeedKeys, Answer, InjectBegin, keyVars, GetKeys,
                       SeeNone, Make, MakeFails, Assign
  <2>3. QED
    BY <2>1, <2>2, BeatFrame
<1>7. CASE UNCHANGED vars
  BY <1>7, BeatFrame DEF vars, keyVars
<1>8. QED
  BY <1>1, <1>2, <1>3, <1>4, <1>5, <1>6, <1>7 DEF Next

\* A beat is not relayed again once it was acknowledged, however many replies
\* are lost before (heartbeat.py 129-160).
THEOREM BeatsOnce == Spec => []OncePerBeat
<1>1. BeatInv => OncePerBeat
  BY DEF BeatInv
<1>2. QED
  BY <1>1, KeysBegin, KeysHold, BeatBegins, BeatHolds, PTL DEF Spec

\* At most one relay begins after the thread was told to stop, and the status
\* never shows a dead service running (heartbeat.py 162-198).
THEOREM OneLastWord == Spec => []LastWord
<1>1. BeatInv => LastWord
  BY SMT DEF BeatInv, LastWord
<1>2. QED
  BY <1>1, KeysBegin, KeysHold, BeatBegins, BeatHolds, PTL DEF Spec

\* One service and one thread for as long as the process lives, whatever is
\* injected again (__main__.py 98-111).
THEOREM NeverAnother == Spec => OneHeartbeat
<1> DEFINE Kept == server' # "down" =>
                      /\ service # 0 => service' = service
                      /\ beat' = "new" => beat \in {"none", "new"}
<1>1. KeyInv /\ [Next]_vars => [Kept]_vars
  <2> SUFFICES ASSUME KeyInv, [Next]_vars PROVE [Kept]_vars
    OBVIOUS
  <2>1. CASE UNCHANGED <<service, beat>>
    BY <2>1, SMT
  <2>2. CASE HeartbeatSteps
    <3>1. service' = service /\ (beat' = "new" => beat = "new")
      BY <2>2, SMT DEF HeartbeatSteps, Beat, Begin, Loop, Post, Retry, Wake, Relay
    <3>2. QED
      BY <3>1
  <2>3. CASE HeartbeatStops
    <3>1. UNCHANGED <<service, beat>>
      BY <2>3, Zenon DEF HeartbeatStops, StopSet, StopJoined
    <3>2. QED
      BY <3>1, <2>1
  <2>4. CASE WorkerExits
    BY <2>4, SMT DEF WorkerExits, KeysLost, ChildExit
  <2>5. CASE InjectHeartbeat
    <3>1. InitHeartbeat(manager) \/ UNCHANGED <<service, beat>>
      BY <2>5 DEF InjectHeartbeat, beatVars
    <3>2. CASE InitHeartbeat(manager) /\ service # 0
      <4>1. UNCHANGED <<service, beat>>
        BY <3>2, SMT DEF InitHeartbeat
      <4>2. QED
        BY <4>1, <2>1
    <3>3. CASE InitHeartbeat(manager) /\ service = 0
      BY <3>3, SMT DEF KeyInv
    <3>4. QED
      BY <2>1, <3>1, <3>2, <3>3
  <2>6. CASE Started \/ Terminate \/ InjectClients \/ InjectClear \/ InjectConfig \/ InjectClose
             \/ InjectKeys \/ InjectPayment
    <3>1. UNCHANGED beatVars
      BY <2>6, Zenon DEF Started, Terminate, InjectClients, InjectClear, InjectConfig, InjectClose,
                         InjectKeys, InjectPayment
    <3>2. QED
      BY <2>1, <3>1 DEF beatVars
  <2>7. ASSUME NEW t \in Threads,
               BeginRequest(t) \/ BuildModel(t) \/ NeedKeys(t) \/ Answer(t) \/ InjectBegin(t)
        PROVE  UNCHANGED <<service, beat>>
    BY <2>7, Zenon DEF BeginRequest, BuildModel, NeedKeys, Answer, InjectBegin, beatVars
  <2>8. CASE UNCHANGED vars
    BY <2>8
  <2>9. QED
    BY <2>1, <2>2, <2>3, <2>4, <2>5, <2>6, <2>7, <2>8 DEF Next, Inject
<1>2. QED
  BY <1>1, KeysBegin, KeysHold, PTL DEF Spec, OneHeartbeat

----------------------------------------------------------------------------
(* The models.                                                              *)

CallType == [at : {"idle", "build", "keep", "held", "cached"}, model : Models \cup {"none"},
             key : Nat, client : Nat, raced : BOOLEAN]

BackTypes ==
    /\ injections \in 0..MaxInjections
    /\ injector \in Threads \cup {NoThread}
    /\ config \in 0..injections
    /\ client \in [Shared -> 0..injections] /\ closed \in [Shared -> 0..injections]
    /\ calls \in [Callers -> CallType]
    /\ cache \subseteq CallType
    /\ IsFiniteSet(cache) /\ Cardinality(cache) <= CacheSize

\* What was built of a key and, once it was taken, a client that exist.
Sound(c) ==
    /\ config # 0 /\ c.key \in 1..injections
    /\ c.at \in {"keep", "cached"} /\ c.model \in Shared => c.client \in 1..injections

Current(c) ==
    /\ c.key = config
    /\ c.at \in {"keep", "cached"} /\ c.model \in Shared => c.client = client[c.model]

\* A look-up that overlaps no injection reads what is current; what was cached
\* before one is cleared within it.
BackInv ==
    /\ BackTypes
    /\ step # "none" => injections # 0
    /\ config # 0 => \A m \in Shared : client[m] # 0
    /\ step \in {"clear", "config"} => \A m \in Shared : client[m] = injections
    /\ \A t \in Callers : calls[t].at \in {"build", "keep"} =>
          Sound(calls[t]) /\ (~calls[t].raced => ~Racing /\ Current(calls[t]))
    /\ \A c \in cache :
          /\ c.at = "cached" /\ Sound(c)
          /\ ~c.raced => step \in {"clients", "clear"} \/ (~Racing /\ Current(c))

\* The assumptions on the constants, as the provers want them.
LEMMA BackendAssumptions ==
    /\ Shared \subseteq Models /\ CacheSize \in Nat /\ CacheSize >= 1
    /\ MaxInjections \in Nat /\ MaxInjections >= 1
    /\ Callers \subseteq Threads /\ NoThread \notin Threads
  BY ProviderBackendAssumption, LifecycleAssumption, SMT

\* The start has no configuration.
LEMMA BackBegins == Init => BackInv
<1> SUFFICES ASSUME Init PROVE BackInv
  OBVIOUS
<1>1. calls = [t \in Callers |-> NoCall] /\ NoCall \in CallType /\ NoCall.at = "idle"
  BY SMT DEF Init, BackendInit, NoCall, CallType
<1>2. IsFiniteSet(cache) /\ Cardinality(cache) = 0 /\ cache = {}
  BY FS_EmptySet DEF Init, BackendInit
<1>3. /\ client = [m \in Shared |-> 0] /\ closed = [m \in Shared |-> 0]
      /\ config = 0 /\ injections = 0 /\ step = "none" /\ injector = NoThread
  BY DEF Init, BackendInit
<1>4. BackTypes
  BY <1>1, <1>2, <1>3, BackendAssumptions, SMT DEF BackTypes
<1> HIDE DEF CallType
<1>5. QED
  BY <1>1, <1>2, <1>3, <1>4, SMT DEF BackInv

\* A step that leaves the backend and the injection as they are.
LEMMA BackFrame ==
    ASSUME BackInv, UNCHANGED backendVars, UNCHANGED injectVars
    PROVE  BackInv'
  BY Zenon DEF BackInv, BackTypes, backendVars, injectVars, Sound, Current, Racing

\* A step of one look-up, if what it comes to is as the invariant wants it.
LEMMA OneCall ==
    ASSUME BackInv, NEW t \in Callers, NEW call \in CallType,
           calls' = [calls EXCEPT ![t] = call], UNCHANGED <<config, client, closed, cache>>,
           UNCHANGED injectVars,
           call.at \in {"build", "keep"} =>
              Sound(call) /\ (~call.raced => ~Racing /\ Current(call))
    PROVE  BackInv'
<1>1. BackTypes'
  BY SMT DEF BackInv, BackTypes, injectVars
<1>2. Racing' = Racing
  BY DEF Racing, injectVars
<1>3. ASSUME NEW u \in Callers
      PROVE  calls'[u] = IF u = t THEN call ELSE calls[u]
  BY SMT DEF BackInv, BackTypes
<1>4. ASSUME NEW u \in Callers, calls'[u].at \in {"build", "keep"}
      PROVE  Sound(calls[u])' /\ (~calls'[u].raced => ~Racing' /\ Current(calls[u])')
  <2>1. CASE u = t
    BY <1>2, <1>3, <1>4, <2>1, SMT DEF Sound, Current, injectVars
  <2>2. CASE u # t
    BY <1>2, <1>3, <1>4, <2>2, SMT DEF BackInv, Sound, Current, injectVars
  <2>3. QED
    BY <2>1, <2>2
<1>5. QED
  BY <1>1, <1>2, <1>4, SMT DEF BackInv, Sound, Current, injectVars

\* A look-up that misses has read the configuration.
LEMMA LookUpHolds ==
    ASSUME BackInv, NEW t \in Callers, NEW m \in Models, LookUp(t, m, Racing), UNCHANGED injectVars
    PROVE  BackInv'
<1> DEFINE call == [at |-> "build", model |-> m, key |-> config, client |-> 0, raced |-> Racing]
<1>1. Racing \in BOOLEAN
  BY Zenon DEF Racing
<1>2. config \in 1..injections /\ injections \in Nat /\ config # 0
  BY SMT DEF LookUp, BackInv, BackTypes
<1>3. call \in CallType
  BY <1>1, <1>2, SMT DEF CallType
<1>4. call.at = "build" /\ call.key = config /\ call.raced = Racing
  BY SMT
<1>5. calls' = [calls EXCEPT ![t] = call] /\ UNCHANGED <<config, client, closed, cache>>
  BY DEF LookUp
<1> HIDE DEF call
<1>6. Sound(call) /\ (~call.raced => ~Racing /\ Current(call))
  BY <1>2, <1>4, SMT DEF Sound, Current
<1>7. QED
  BY <1>3, <1>5, <1>6, OneCall

\* A hit is of a model that is cached already.
LEMMA HitHolds ==
    ASSUME BackInv, NEW t \in Callers, NEW m \in Models, Hit(t, m), UNCHANGED injectVars
    PROVE  BackInv'
<1>1. PICK c \in cache : calls' = [calls EXCEPT ![t] = [c EXCEPT !.at = "held"]]
  BY DEF Hit
<1>2. c \in CallType
  BY DEF BackInv, BackTypes
<1>3. [c EXCEPT !.at = "held"] \in CallType /\ [c EXCEPT !.at = "held"].at = "held"
  BY <1>2, SMT DEF CallType
<1>4. UNCHANGED <<config, client, closed, cache>>
  BY DEF Hit
<1> DEFINE call == [c EXCEPT !.at = "held"]
<1>5. calls' = [calls EXCEPT ![t] = call] /\ call \in CallType /\ call.at \notin {"build", "keep"}
  BY <1>1, <1>3, SMT
<1> HIDE DEF call
<1>6. QED
  BY <1>4, <1>5, OneCall

\* An answer drops the model it was made with.
LEMMA ReleaseHolds ==
    ASSUME BackInv, NEW t \in Callers, Release(t), UNCHANGED injectVars
    PROVE  BackInv'
<1>1. NoCall \in CallType /\ NoCall.at \notin {"build", "keep"}
  BY SMT DEF NoCall, CallType
<1>2. calls' = [calls EXCEPT ![t] = NoCall] /\ UNCHANGED <<config, client, closed, cache>>
  BY DEF Release
<1>3. QED
  BY <1>1, <1>2, OneCall

\* The client that is taken is the present one.
LEMMA TakeClientHolds ==
    ASSUME BackInv, NEW t \in Callers, TakeClient(t), UNCHANGED injectVars
    PROVE  BackInv'
<1> DEFINE old == calls[t]
           took == IF old.model \in Shared THEN client[old.model] ELSE 0
           call == [at |-> "keep", model |-> old.model, key |-> old.key, raced |-> old.raced,
                    client |-> took]
<1>1. old \in CallType /\ old.at = "build" /\ Sound(old) /\ (~old.raced => ~Racing /\ Current(old))
  BY SMT DEF BackInv, BackTypes, TakeClient
<1>2. calls' = [calls EXCEPT ![t] = call]
  BY DEF TakeClient
<1>3. UNCHANGED <<config, client, closed, cache>>
  BY DEF TakeClient
<1>4. took \in 0..injections /\ injections \in Nat /\ (old.model \in Shared => took # 0)
  BY <1>1, SMT DEF BackInv, BackTypes, Sound
<1>5. call \in CallType
  BY <1>1, <1>4, SMT DEF CallType
<1>6. /\ call.model = old.model /\ call.key = old.key /\ call.raced = old.raced
      /\ call.client = took
  BY SMT
<1>7. old.model \in Shared => took = client[old.model]
  OBVIOUS
<1> HIDE DEF old, took, call
<1>8. Sound(call) /\ (~call.raced => ~Racing /\ Current(call))
  BY <1>1, <1>4, <1>6, <1>7, SMT DEF Sound, Current
<1>9. QED
  BY <1>2, <1>3, <1>5, <1>8, OneCall

\* What a full cache takes in it drops as much for.
LEMMA KeepHolds ==
    ASSUME BackInv, NEW t \in Callers, Keep(t), UNCHANGED injectVars
    PROVE  BackInv'
<1> DEFINE old == calls[t]
           held == [old EXCEPT !.at = "held"]
           new == Cached(old)
<1>1. old \in CallType /\ old.at = "keep" /\ Sound(old) /\ (~old.raced => ~Racing /\ Current(old))
  BY SMT DEF BackInv, BackTypes, Keep
<1>2. held \in CallType /\ held.at = "held"
  BY <1>1, SMT DEF CallType
<1>3. /\ new \in CallType /\ new.at = "cached" /\ new.key = old.key /\ new.model = old.model
      /\ new.client = old.client /\ new.raced = old.raced
  BY <1>1, SMT DEF CallType, Cached
<1>4. calls' = [calls EXCEPT ![t] = held] /\ UNCHANGED <<config, client, closed>>
  BY DEF Keep
<1>5. \/ cache' = cache
      \/ Cardinality(cache) < CacheSize /\ cache' = cache \cup {new}
      \/ \E c \in cache : cache' = (cache \ {c}) \cup {new}
  BY DEF Keep
<1>6. IsFiniteSet(cache) /\ Cardinality(cache) <= CacheSize /\ Cardinality(cache) \in Nat
  BY FS_CardinalityType DEF BackInv, BackTypes
<1> HIDE DEF held, new, old
<1>7. IsFiniteSet(cache') /\ Cardinality(cache') <= CacheSize /\ cache' \subseteq cache \cup {new}
  <2>1. CASE cache' = cache
    BY <1>6, <2>1
  <2>2. CASE Cardinality(cache) < CacheSize /\ cache' = cache \cup {new}
    <3>1. /\ IsFiniteSet(cache \cup {new})
          /\ Cardinality(cache \cup {new}) <= Cardinality(cache) + 1
      <4>1. /\ IsFiniteSet(cache \cup {new})
            /\ \/ Cardinality(cache \cup {new}) = Cardinality(cache)
               \/ Cardinality(cache \cup {new}) = Cardinality(cache) + 1
        BY <1>6, FS_AddElement
      <4>2. QED
        BY <1>6, <4>1, SMT
    <3>2. Cardinality(cache \cup {new}) \in Nat
      BY <3>1, FS_CardinalityType
    <3>3. QED
      BY <1>6, <2>2, <3>1, <3>2, BackendAssumptions, SMT
  <2>3. ASSUME NEW c \in cache, cache' = (cache \ {c}) \cup {new}
        PROVE  IsFiniteSet(cache') /\ Cardinality(cache') <= CacheSize
    <3>1. IsFiniteSet(cache \ {c}) /\ Cardinality(cache \ {c}) = Cardinality(cache) - 1
      BY <1>6, FS_RemoveElement
    <3>2. /\ IsFiniteSet((cache \ {c}) \cup {new})
          /\ \/ Cardinality((cache \ {c}) \cup {new}) = Cardinality(cache \ {c})
             \/ Cardinality((cache \ {c}) \cup {new}) = Cardinality(cache \ {c}) + 1
      BY <3>1, FS_AddElement
    <3>3. QED
      BY <1>6, <2>3, <3>1, <3>2, BackendAssumptions, SMT
  <2>4. cache' \subseteq cache \cup {new}
    BY <1>5
  <2>5. QED
    BY <1>5, <2>1, <2>2, <2>3, <2>4
<1>8. Sound(new) /\ (~new.raced => ~Racing /\ Current(new))
  BY <1>1, <1>3, SMT DEF Sound, Current
<1>9. BackTypes'
  BY <1>2, <1>3, <1>4, <1>7, SMT DEF BackInv, BackTypes, injectVars
<1>10. Racing' = Racing /\ step' = step
  BY DEF Racing, injectVars
<1>11. ASSUME NEW u \in Callers, calls'[u].at \in {"build", "keep"}
       PROVE  Sound(calls[u])' /\ (~calls'[u].raced => ~Racing' /\ Current(calls[u])')
  <2>1. calls'[u] = IF u = t THEN held ELSE calls[u]
    BY <1>4, SMT DEF BackInv, BackTypes
  <2>2. QED
    BY <1>2, <1>4, <1>10, <1>11, <2>1, SMT DEF BackInv, Sound, Current, injectVars
<1>12. ASSUME NEW c \in cache'
       PROVE  /\ c.at = "cached" /\ Sound(c)'
              /\ ~c.raced => step' \in {"clients", "clear"} \/ (~Racing' /\ Current(c)')
  <2>1. c \in cache \/ c = new
    BY <1>7
  <2>2. QED
    BY <1>3, <1>4, <1>8, <1>10, <2>1, SMT DEF BackInv, Sound, Current, injectVars
<1>13. /\ step' # "none" => injections' # 0
       /\ config' # 0 => \A m \in Shared : client'[m] # 0
       /\ step' \in {"clear", "config"} => \A m \in Shared : client'[m] = injections'
  BY <1>4, SMT DEF BackInv, injectVars
<1>14. QED
  BY <1>9, <1>11, <1>12, <1>13 DEF BackInv

\* The look-ups an injection begins during are marked.
LEMMA InjectBeginHolds ==
    ASSUME BackInv, NEW t \in Threads, InjectBegin(t)
    PROVE  BackInv'
<1>1. /\ step = "none" /\ step' = "clients" /\ injector' = t
      /\ injections < MaxInjections /\ injections' = injections + 1
      /\ UNCHANGED <<config, client, closed, cache>>
  BY DEF InjectBegin
<1>2. calls' = [c \in Callers |-> IF calls[c].at = "idle" THEN calls[c]
                                  ELSE [calls[c] EXCEPT !.raced = TRUE]]
  BY DEF InjectBegin
<1>3. ASSUME NEW c \in CallType
      PROVE  /\ [c EXCEPT !.raced = TRUE] \in CallType /\ [c EXCEPT !.raced = TRUE].raced
             /\ [c EXCEPT !.raced = TRUE].at = c.at /\ [c EXCEPT !.raced = TRUE].key = c.key
             /\ [c EXCEPT !.raced = TRUE].client = c.client
             /\ [c EXCEPT !.raced = TRUE].model = c.model
  BY Zenon DEF CallType
<1>4. ASSUME NEW u \in Callers
      PROVE  /\ calls'[u] \in CallType /\ calls'[u].at = calls[u].at
             /\ calls'[u].key = calls[u].key /\ calls'[u].client = calls[u].client
             /\ calls'[u].model = calls[u].model
             /\ calls[u].at # "idle" => calls'[u].raced
  <2>1. calls[u] \in CallType
    BY DEF BackInv, BackTypes
  <2>2. calls'[u] = IF calls[u].at = "idle" THEN calls[u] ELSE [calls[u] EXCEPT !.raced = TRUE]
    BY <1>2
  <2>3. CASE calls[u].at = "idle"
    BY <2>1, <2>2, <2>3
  <2>4. CASE calls[u].at # "idle"
    BY <1>3, <2>1, <2>2, <2>4, Zenon
  <2>5. QED
    BY <2>3, <2>4
<1>5. injections \in Nat
  BY SMT DEF BackInv, BackTypes
<1>6. calls' \in [Callers -> CallType]
  BY <1>2, <1>4
<1> HIDE DEF CallType
<1>7. BackTypes'
  BY <1>1, <1>5, <1>6, BackendAssumptions, SMT DEF BackInv, BackTypes
<1>8. ASSUME NEW u \in Callers, calls'[u].at \in {"build", "keep"}
      PROVE  Sound(calls[u])' /\ calls'[u].raced
  BY <1>1, <1>4, <1>5, <1>8, SMT DEF BackInv, Sound
<1>9. \A c \in cache' : c.at = "cached" /\ Sound(c)'
  BY <1>1, <1>5, SMT DEF BackInv, Sound
<1>10. injections' # 0 /\ (config' # 0 => \A m \in Shared : client'[m] # 0)
  BY <1>1, <1>5, SMT DEF BackInv
<1>11. QED
  BY <1>1, <1>7, <1>8, <1>9, <1>10, SMT DEF BackInv

\* A step of the injection that leaves the look-ups and the cache alone, and of
\* which neither is the worse.
LEMMA OneStep ==
    ASSUME BackInv, BackTypes', UNCHANGED <<calls, cache, injections, config>>, Racing,
           injections # 0,
           config # 0 => \A m \in Shared : client'[m] # 0,
           step' \in {"clear", "config"} => \A m \in Shared : client'[m] = injections,
           step \in {"clients", "clear"} => step' \in {"clients", "clear"}
    PROVE  BackInv'
<1>1. ASSUME NEW u \in Callers, calls'[u].at \in {"build", "keep"}
      PROVE  Sound(calls[u])' /\ calls'[u].raced
  BY <1>1, SMT DEF BackInv, Sound
<1>2. ASSUME NEW c \in cache'
      PROVE  /\ c.at = "cached" /\ Sound(c)' /\ (~c.raced => step' \in {"clients", "clear"})
  BY <1>2, SMT DEF BackInv, Sound
<1>3. QED
  BY <1>1, <1>2, SMT DEF BackInv

\* A client is replaced before the configuration is.
LEMMA ClientsHold == ASSUME BackInv, InjectClients PROVE BackInv'
<1>1. /\ step = "clients" /\ Racing /\ injections # 0 /\ injections \in Nat
      /\ UNCHANGED <<calls, cache, injections, injector, config, closed>>
  BY SMT DEF BackInv, BackTypes, InjectClients, Racing, BuildClient, Go, backendVars, injectVars
<1>2. CASE \E m \in Shared : BuildClient(m, injections) /\ UNCHANGED injectVars
  <2>1. PICK m \in Shared : client' = [client EXCEPT ![m] = injections]
    BY <1>2 DEF BuildClient
  <2>2. step' = step
    BY <1>2 DEF injectVars
  <2>3. BackTypes' /\ \A n \in Shared : client'[n] = client[n] \/ client'[n] = injections
    BY <1>1, <2>1, <2>2, SMT DEF BackInv, BackTypes
  <2>4. config # 0 => \A n \in Shared : client'[n] # 0
    BY <1>1, <2>3, SMT DEF BackInv
  <2>5. QED
    BY <1>1, <2>2, <2>3, <2>4, OneStep
<1>3. CASE /\ \A m \in Shared : client[m] = injections
           /\ UNCHANGED backendVars /\ Go("clear")
  <2>1. BackTypes' /\ client' = client /\ step' = "clear"
    BY <1>1, <1>3, SMT DEF BackInv, BackTypes, Go, backendVars
  <2>2. QED
    BY <1>1, <1>3, <2>1, OneStep DEF BackInv
<1>4. QED
  BY <1>2, <1>3 DEF InjectClients

\* What an earlier injection left in the cache is gone.
LEMMA ClearHolds == ASSUME BackInv, InjectClear PROVE BackInv'
<1>1. /\ step = "clear" /\ step' = "config" /\ cache' = {}
      /\ UNCHANGED <<calls, injections, injector, config, client, closed>>
  BY DEF InjectClear, ClearCache, Go
<1>2. IsFiniteSet(cache') /\ Cardinality(cache') = 0
  BY <1>1, FS_EmptySet
<1>3. BackTypes'
  BY <1>1, <1>2, BackendAssumptions, SMT DEF BackInv, BackTypes
<1>4. ASSUME NEW u \in Callers, calls'[u].at \in {"build", "keep"}
      PROVE  Sound(calls[u])' /\ calls'[u].raced
  BY <1>1, <1>4, SMT DEF BackInv, Sound, Racing
<1>5. QED
  BY <1>1, <1>3, <1>4, SMT DEF BackInv

\* The new configuration finds new clients.
LEMMA ConfigHolds == ASSUME BackInv, InjectConfig PROVE BackInv'
<1>1. /\ step = "config" /\ step' = "close" /\ config' = injections
      /\ UNCHANGED <<calls, cache, injections, injector, client, closed>>
  BY DEF InjectConfig, SetConfig, Go
<1>2. injections # 0 /\ injections \in Nat /\ \A m \in Shared : client[m] = injections
  BY <1>1, SMT DEF BackInv, BackTypes
<1>3. BackTypes'
  BY <1>1, <1>2, SMT DEF BackInv, BackTypes
<1>4. ASSUME NEW u \in Callers, calls'[u].at \in {"build", "keep"}
      PROVE  Sound(calls[u])' /\ calls'[u].raced
  BY <1>1, <1>2, <1>4, SMT DEF BackInv, Sound, Racing
<1>5. ASSUME NEW c \in cache'
      PROVE  c.at = "cached" /\ Sound(c)' /\ c.raced
  BY <1>1, <1>2, <1>5, SMT DEF BackInv, Sound, Racing
<1>6. QED
  BY <1>1, <1>2, <1>3, <1>4, <1>5, SMT DEF BackInv

\* The last steps change nothing a look-up reads.
LEMMA LastStepsHold ==
    ASSUME BackInv,
           InjectClose \/ InjectKeys \/ InjectHeartbeat \/ InjectPayment
    PROVE  BackInv'
<1>1. /\ step \in {"close", "keys", "heartbeat", "payment"}
      /\ UNCHANGED <<calls, cache, injections, config, client>>
      /\ step' \notin {"clients", "clear", "config"}
  BY SMT DEF InjectClose, InjectKeys, InjectHeartbeat, InjectPayment, CloseOld, Go, GiveUp,
             backendVars, injectVars
<1>2. injector' \in {injector, NoThread}
  BY SMT DEF InjectClose, InjectKeys, InjectHeartbeat, InjectPayment, Go, GiveUp, injectVars
<1>3. injections # 0 /\ injections \in Nat
  BY <1>1, SMT DEF BackInv, BackTypes
<1>4. closed' \in [Shared -> 0..injections]
  <2>1. CASE \E m \in Shared : CloseOld(m, injections)
    <3>1. PICK m \in Shared : closed' = [closed EXCEPT ![m] = injections - 1]
      BY <2>1 DEF CloseOld
    <3>2. QED
      BY <1>3, <3>1, SMT DEF BackInv, BackTypes
  <2>2. CASE closed' = closed
    BY <2>2 DEF BackInv, BackTypes
  <2>3. QED
    BY <2>1, <2>2 DEF InjectClose, InjectKeys, InjectHeartbeat, InjectPayment, backendVars
<1>5. BackTypes'
  BY <1>1, <1>2, <1>4, SMT DEF BackInv, BackTypes
<1>6. ASSUME NEW u \in Callers, calls'[u].at \in {"build", "keep"}
      PROVE  Sound(calls[u])' /\ calls'[u].raced
  BY <1>1, <1>6, SMT DEF BackInv, Sound, Racing
<1>7. ASSUME NEW c \in cache'
      PROVE  c.at = "cached" /\ Sound(c)' /\ c.raced
  BY <1>1, <1>7, SMT DEF BackInv, Sound, Racing
<1>8. QED
  BY <1>1, <1>3, <1>5, <1>6, <1>7, SMT DEF BackInv

\* A worker that exits takes everything with it.
LEMMA ExitHolds == ASSUME BackInv, WorkerExits PROVE BackInv'
<1>1. calls' = [t \in Callers |-> NoCall] /\ NoCall \in CallType /\ NoCall.at = "idle"
  BY SMT DEF WorkerExits, BackendLost, NoCall, CallType
<1>2. IsFiniteSet(cache') /\ Cardinality(cache') = 0 /\ cache' = {}
  BY FS_EmptySet DEF WorkerExits, BackendLost
<1>3. /\ client' = [m \in Shared |-> 0] /\ closed' = [m \in Shared |-> 0]
      /\ config' = 0 /\ injections' = 0 /\ step' = "none" /\ injector' = NoThread
  BY DEF WorkerExits, BackendLost
<1>4. BackTypes'
  BY <1>1, <1>2, <1>3, BackendAssumptions, SMT DEF BackTypes
<1> HIDE DEF CallType
<1>5. QED
  BY <1>1, <1>2, <1>3, <1>4, SMT DEF BackInv

\* Every step keeps the models as the invariant wants them.
LEMMA BackHolds == BackInv /\ [Next]_vars => BackInv'
<1> SUFFICES ASSUME BackInv, [Next]_vars PROVE BackInv'
  OBVIOUS
<1>1. CASE Started \/ Terminate \/ HeartbeatSteps \/ HeartbeatStops
  <2>1. UNCHANGED backendVars /\ UNCHANGED injectVars
    BY <1>1, Zenon DEF Started, Terminate, HeartbeatSteps, HeartbeatStops
  <2>2. QED
    BY <2>1, BackFrame
<1>2. CASE WorkerExits
  BY <1>2, ExitHolds
<1>3. CASE Inject
  BY <1>3, ClientsHold, ClearHolds, ConfigHolds, LastStepsHold DEF Inject
<1>4. ASSUME NEW t \in Threads, BeginRequest(t)
      PROVE  BackInv'
  <2>1. t \in Callers /\ UNCHANGED injectVars
    BY <1>4, Zenon DEF BeginRequest
  <2>2. PICK m \in Models : LookUp(t, m, Racing) \/ Hit(t, m)
    BY <1>4, Zenon DEF BeginRequest
  <2>3. QED
    BY <2>1, <2>2, LookUpHolds, HitHolds
<1>5. ASSUME NEW t \in Threads, BuildModel(t)
      PROVE  BackInv'
  <2>1. t \in Callers /\ UNCHANGED injectVars /\ (TakeClient(t) \/ Keep(t))
    BY <1>5, Zenon DEF BuildModel
  <2>2. QED
    BY <2>1, TakeClientHolds, KeepHolds
<1>6. ASSUME NEW t \in Threads, NeedKeys(t)
      PROVE  BackInv'
  <2>1. UNCHANGED backendVars /\ UNCHANGED injectVars
    BY <1>6, Zenon DEF NeedKeys
  <2>2. QED
    BY <2>1, BackFrame
<1>7. ASSUME NEW t \in Threads, Answer(t)
      PROVE  BackInv'
  <2>1. t \in Callers /\ UNCHANGED injectVars /\ Release(t)
    BY <1>7, Zenon DEF Answer
  <2>2. QED
    BY <2>1, ReleaseHolds
<1>8. ASSUME NEW t \in Threads, InjectBegin(t)
      PROVE  BackInv'
  BY <1>8, InjectBeginHolds
<1>9. CASE UNCHANGED vars
  <2>1. UNCHANGED backendVars /\ UNCHANGED injectVars
    BY <1>9, Zenon DEF vars
  <2>2. QED
    BY <2>1, BackFrame
<1>10. QED
  BY <1>1, <1>2, <1>3, <1>4, <1>5, <1>6, <1>7, <1>8, <1>9 DEF Next

\* No model that is kept is out of date, unless its look-up overlapped an
\* injection that followed a failed one (llm_backend.py 94-207, 232-260).
THEOREM NothingStale == Spec => []FreshModels
<1>1. BackInv => FreshModels
  <2> SUFFICES ASSUME BackInv PROVE FreshModels
    OBVIOUS
  <2>1. ASSUME NEW t \in Callers, calls[t].at = "build", calls[t].model \in Shared
        PROVE  client[calls[t].model] # 0
    BY <2>1, SMT DEF BackInv, Sound
  <2>2. ASSUME NEW c \in cache, ~Racing, ~(c.raced /\ injections > 1)
        PROVE  c.key = config /\ (c.model \in Shared => c.client = client[c.model])
    <3>1. c.at = "cached" /\ Sound(c)
      BY DEF BackInv
    <3>2. CASE ~c.raced
      <4>1. step \notin {"clients", "clear"}
        BY <2>2 DEF Racing
      <4>2. Current(c)
        BY <3>2, <4>1 DEF BackInv
      <4>3. QED
        BY <3>1, <4>2 DEF Current
    <3>3. CASE c.raced
      <4>1. ~(injections > 1)
        BY <2>2, <3>3, Zenon
      <4>2. QED
        BY <3>1, <4>1, SMT DEF BackInv, BackTypes, Sound
    <3>4. QED
      BY <3>2, <3>3
  <2>3. QED
    BY <2>1, <2>2, Zenon DEF FreshModels
<1>2. QED
  BY <1>1, BackBegins, BackHolds, PTL DEF Spec

----------------------------------------------------------------------------
(* Types.                                                                   *)

\* What stop() has done is one of its steps.
LEMMA ClosingHolds ==
    closing \in {"no", "join", "done"} /\ [Next]_vars => closing' \in {"no", "join", "done"}
<1> SUFFICES ASSUME closing \in {"no", "join", "done"}, [Next]_vars
             PROVE  closing' \in {"no", "join", "done"}
  OBVIOUS
<1>1. CASE HeartbeatStops \/ WorkerExits
  BY <1>1, SMT DEF HeartbeatStops, WorkerExits, StopSet, StopJoined, BeatLost
<1>2. CASE HeartbeatSteps
  BY <1>2, SMT DEF HeartbeatSteps, Beat, Begin, Loop, Post, Retry, Wake, Relay
<1>3. CASE Inject
  BY <1>3, SMT DEF Inject, InjectClients, InjectClear, InjectConfig, InjectClose, InjectKeys,
                   InjectHeartbeat, InjectPayment, InitHeartbeat, beatVars
<1>4. CASE Started \/ Terminate \/ UNCHANGED vars
  BY <1>4, Zenon DEF Started, Terminate, vars, beatVars
<1>5. ASSUME NEW t \in Threads,
             BeginRequest(t) \/ BuildModel(t) \/ NeedKeys(t) \/ Answer(t) \/ InjectBegin(t)
      PROVE  closing' = closing
  BY <1>5, Zenon DEF BeginRequest, BuildModel, NeedKeys, Answer, InjectBegin, beatVars
<1>6. QED
  BY <1>1, <1>2, <1>3, <1>4, <1>5 DEF Next

\* The variables keep their types.
THEOREM TypeCorrect == Spec => []TypeOK
<1>1. KeyInv /\ BeatInv /\ BackInv /\ closing \in {"no", "join", "done"} => TypeOK
  BY DEF KeyInv, KeyTypes, BeatInv, BackInv, BackTypes, TypeOK
<1>2. Init => closing \in {"no", "join", "done"}
  BY DEF Init, BeatInit
<1>3. Spec => [](KeyInv /\ BeatInv)
  BY KeysBegin, KeysHold, BeatBegins, BeatHolds, PTL DEF Spec
<1>4. Spec => []BackInv
  BY BackBegins, BackHolds, PTL DEF Spec
<1>5. Spec => [](closing \in {"no", "join", "done"})
  <2> DEFINE Closing == closing \in {"no", "join", "done"}
  <2>1. Init => Closing
    BY <1>2
  <2>2. Closing /\ [Next]_vars => Closing'
    BY ClosingHolds
  <2> HIDE DEF Closing
  <2>3. Spec => []Closing
    BY <2>1, <2>2, PTL DEF Spec
  <2>4. QED
    BY <2>3 DEF Closing
<1>6. QED
  <2> DEFINE Closing == closing \in {"no", "join", "done"}
  <2>1. KeyInv /\ BeatInv /\ BackInv /\ Closing => TypeOK
    BY <1>1
  <2>2. Spec => []Closing
    BY <1>5
  <2> HIDE DEF Closing
  <2>3. QED
    BY <1>3, <1>4, <2>1, <2>2, PTL
=============================================================================
