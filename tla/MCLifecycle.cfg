SPECIFICATION Spec
CONSTANTS
    Threads = {t1, t2}
    Callers = {t1}
    MaxManagers = 2
    HEARTBEAT_MAX_RETRIES = 3
    Models = {openai, google}
    Shared = {openai}
    CacheSize = 1
    MaxInjections = 2
INVARIANTS TypeOK OneSigningKey OncePerBeat LastWord FreshModels
PROPERTIES OneHeartbeat KeepsBeating
CHECK_DEADLOCK FALSE
