------------------------------ MODULE TeeKeys ------------------------------
(***************************************************************************)
(* The enclave's key material (tee_manager.py) and the one process it lives *)
(* in (gunicorn_conf.py).  A manager (RSA key, wallet, HPKE key) is the      *)
(* number of its generation; what it signs is abstracted to who signed.      *)
(***************************************************************************)
EXTENDS Naturals, FiniteSets

CONSTANTS
    Threads,      \* request threads of the worker
    MaxManagers   \* bound: key generations

VARIABLES
    server,     \* the worker: "booting", "serving", "stopping" (listeners closed), "down"
    booted,     \* initialize_tee() at startup generated the keys
    made,       \* managers generated so far
    manager,    \* _tee_keys; 0: None
    registered, \* the manager whose key hash nitriding holds; 0: none
    asks,       \* get_tee_keys() of each thread: "idle", "make", "made"
    mine,       \* the manager a thread has generated
    signers     \* the managers something was signed with

keyVars == <<server, booted, made, manager, registered, asks, mine, signers>>

ASSUME TeeKeysAssumption == IsFiniteSet(Threads) /\ MaxManagers \in Nat \ {0}

KeysInit ==
    /\ server = "booting" /\ booted = FALSE
    /\ made = 0 /\ manager = 0 /\ registered = 0
    /\ asks = [t \in Threads |-> "idle"] /\ mine = [t \in Threads |-> 0]
    /\ signers = {}

\* TEEKeyManager(register=True): registering never raises, and may fail.
NewManager ==
    /\ made < MaxManagers
    /\ made' = made + 1
    /\ registered' \in {registered, made'}

\* create_app(): a failed initialization is only logged.
Boot ==
    /\ server = "booting"
    /\ server' = "serving"
    /\ \/ NewManager /\ manager' = made' /\ booted' = TRUE
       \/ UNCHANGED <<made, registered, manager>> /\ booted' = FALSE
    /\ UNCHANGED <<asks, mine, signers>>

Alive == server \in {"serving", "stopping"}

----------------------------------------------------------------------------
(* get_tee_keys(): check, create and assign without a lock.                 *)

\* None is seen: the thread will make a manager of its own.
SeeNone(t) ==
    /\ Alive /\ asks[t] = "idle" /\ manager = 0
    /\ asks' = [asks EXCEPT ![t] = "make"]
    /\ UNCHANGED <<server, booted, made, manager, registered, mine, signers>>

Make(t) ==
    /\ Alive /\ asks[t] = "make"
    /\ NewManager
    /\ mine' = [mine EXCEPT ![t] = made']
    /\ asks' = [asks EXCEPT ![t] = "made"]
    /\ UNCHANGED <<server, booted, manager, signers>>

\* Key generation raises: the request fails.
MakeFails(t) ==
    /\ Alive /\ asks[t] = "make"
    /\ asks' = [asks EXCEPT ![t] = "idle"]
    /\ UNCHANGED <<server, booted, made, manager, registered, mine, signers>>

Assign(t) ==
    /\ Alive /\ asks[t] = "made"
    /\ manager' = mine[t]
    /\ mine' = [mine EXCEPT ![t] = 0]
    /\ asks' = [asks EXCEPT ![t] = "idle"]
    /\ UNCHANGED <<server, booted, made, registered, signers>>

MutantGetKeys(t) ==     \* every request makes a manager
    \/ Alive /\ asks[t] = "idle" /\ asks' = [asks EXCEPT ![t] = "make"]
       /\ UNCHANGED <<server, booted, made, manager, registered, mine, signers>>
    \/ Make(t) \/ MakeFails(t) \/ Assign(t)

GetKeys(t) == SeeNone(t) \/ Make(t) \/ MakeFails(t) \/ Assign(t)

\* sign_data() with the keys of the process.
Sign(m) == signers' = signers \cup {m}

----------------------------------------------------------------------------
(* The worker's end.                                                        *)

\* SIGTERM: the arbiter closes its listeners, requests under way may finish.
Shutdown ==
    /\ server = "serving"
    /\ server' = "stopping"
    /\ UNCHANGED <<booted, made, manager, registered, asks, mine, signers>>

MutantChildExit ==     \* the hook is gone: the arbiter forks another worker
    server' = IF server = "stopping" THEN "down" ELSE "booting"

\* child_exit(): a worker that exits by itself takes the server down with it,
\* one that was told to is the end of a normal stop.
ChildExit == server' = "down"

\* The process ends and what it held in memory is gone.
KeysLost ==
    /\ ChildExit
    /\ manager' = 0
    /\ asks' = [t \in Threads |-> "idle"] /\ mine' = [t \in Threads |-> 0]
    /\ UNCHANGED <<booted, made, registered, signers>>
=============================================================================
