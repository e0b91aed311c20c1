-------------------------- MODULE ProviderBackend --------------------------
(***************************************************************************)
(* The provider configuration, the shared HTTP clients and the cache of chat *)
(* models built from both (llm_backend.py).  A configuration, a key or a      *)
(* client is the number of the injection it came with.                       *)
(***************************************************************************)
EXTENDS Naturals, FiniteSets

CONSTANTS
    Callers,   \* threads that look models up
    Models,    \* one model per provider
    Shared,    \* those whose provider has a client of the module
    CacheSize  \* lru_cache(maxsize)

VARIABLES
    config, \* _provider_config; 0: None
    client, \* the module's clients; 0: None
    closed, \* the last client of each that was closed
    cache,  \* get_chat_model_cached: a set of models
    calls   \* each thread's look-up: where it stands and what it has read

backendVars == <<config, client, closed, cache, calls>>

ASSUME ProviderBackendAssumption ==
    /\ IsFiniteSet(Callers) /\ IsFiniteSet(Models) /\ Shared \subseteq Models
    /\ CacheSize \in Nat \ {0}

\* "raced" remembers that an injection went on during the look-up.
NoCall == [at |-> "idle", model |-> "none", key |-> 0, client |-> 0, raced |-> FALSE]

BackendInit ==
    /\ config = 0
    /\ client = [m \in Shared |-> 0] /\ closed = [m \in Shared |-> 0]
    /\ cache = {}
    /\ calls = [t \in Callers |-> NoCall]

----------------------------------------------------------------------------
(* get_chat_model_cached(): it runs unlocked, only the cache is consistent.  *)

\* The configuration is read first; without one the call raises, and nothing
\* is cached.  A hit returns the model at once.
LookUp(t, m, racing) ==
    /\ calls[t].at = "idle" /\ config # 0
    /\ \A c \in cache : c.model # m
    /\ calls' = [calls EXCEPT ![t] = [at |-> "build", model |-> m, key |-> config,
                                      client |-> 0, raced |-> racing]]
    /\ UNCHANGED <<config, client, closed, cache>>

Hit(t, m) ==
    /\ calls[t].at = "idle"
    /\ \E c \in cache : c.model = m /\ calls' = [calls EXCEPT ![t] = [c EXCEPT !.at = "held"]]
    /\ UNCHANGED <<config, client, closed, cache>>

\* The client is the module's at the moment it is read.
TakeClient(t) ==
    /\ calls[t].at = "build"
    /\ LET c == calls[t]
       IN calls' = [calls EXCEPT ![t] =
             [at |-> "keep", model |-> c.model, key |-> c.key, raced |-> c.raced,
              client |-> IF c.model \in Shared THEN client[c.model] ELSE 0]]
    /\ UNCHANGED <<config, client, closed, cache>>

Cached(c) == [c EXCEPT !.at = "cached"]

MutantKeep(t) ==     \* nothing is ever dropped
    /\ calls[t].at = "keep"
    /\ calls' = [calls EXCEPT ![t].at = "held"]
    /\ cache' = cache \cup {Cached(calls[t])}
    /\ UNCHANGED <<config, client, closed>>

\* The result goes into the cache unless another thread's is there by now; a
\* full cache drops one for it (whichever was used least recently).
Keep(t) ==
    /\ calls[t].at = "keep"
    /\ calls' = [calls EXCEPT ![t].at = "held"]
    /\ IF \E c \in cache : c.model = calls[t].model THEN UNCHANGED cache
       ELSE IF Cardinality(cache) < CacheSize THEN cache' = cache \cup {Cached(calls[t])}
       ELSE \E c \in cache : cache' = (cache \ {c}) \cup {Cached(calls[t])}
    /\ UNCHANGED <<config, client, closed>>

Release(t) ==
    /\ calls[t].at = "held"
    /\ calls' = [calls EXCEPT ![t] = NoCall]
    /\ UNCHANGED <<config, client, closed, cache>>

----------------------------------------------------------------------------
(* set_provider_config(), assignment by assignment.                         *)

BuildClient(m, version) ==
    /\ client[m] < version
    /\ client' = [client EXCEPT ![m] = version]
    /\ UNCHANGED <<config, closed, cache, calls>>

MutantClearCache == UNCHANGED backendVars     \* models outlive the configuration

ClearCache ==
    /\ cache' = {}
    /\ UNCHANGED <<config, client, closed, calls>>

SetConfig(version) ==
    /\ config' = version
    /\ UNCHANGED <<client, closed, cache, calls>>

CloseOld(m, version) ==
    /\ closed[m] < version - 1
    /\ closed' = [closed EXCEPT ![m] = version - 1]
    /\ UNCHANGED <<config, client, cache, calls>>

BackendLost ==
    /\ config' = 0
    /\ client' = [m \in Shared |-> 0] /\ closed' = [m \in Shared |-> 0]
    /\ cache' = {}
    /\ calls' = [t \in Callers |-> NoCall]
=============================================================================
