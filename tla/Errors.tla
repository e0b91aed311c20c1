------------------------------- MODULE Errors -------------------------------
(***************************************************************************)
(* How an exception becomes an answer (errors.py).  An exception is whose it *)
(* is, the HTTP status the provider's answer had (0: there was none), and    *)
(* whether it is a timeout or a broken connection.                           *)
(***************************************************************************)
EXTENDS Integers

Exceptions == [provider : BOOLEAN, status : 0..599, timeout : BOOLEAN, connection : BOOLEAN]

\* _provider_status(): a number that is no HTTP status is none.
ProviderStatus(e) == IF e.provider /\ e.status \in 100..599 THEN e.status ELSE 0

RETRYABLE_PROVIDER_STATUSES == {408, 409, 425, 429, 500, 502, 503, 504, 529}

\* Refusals of the gateway's own credentials, plan or quota.
GATEWAY_ACCOUNT_STATUSES == {401, 402, 403, 407}

MutantHttpStatusFor(e) ==     \* every 4xx of a provider is passed through
    LET s == ProviderStatus(e)
    IN IF ~e.provider THEN 500
       ELSE IF s = 0 THEN IF e.timeout THEN 504 ELSE 502
       ELSE IF s = 429 THEN 503
       ELSE IF s = 408 THEN 504
       ELSE IF s \in 400..499 THEN s
       ELSE 502

HttpStatusFor(e) ==
    LET s == ProviderStatus(e)
    IN IF ~e.provider THEN 500
       ELSE IF s = 0 THEN IF e.timeout THEN 504 ELSE 502
       ELSE IF s = 429 THEN 503
       ELSE IF s = 408 THEN 504
       ELSE IF s \in 400..499 \ GATEWAY_ACCOUNT_STATUSES THEN s
       ELSE 502

Retryable(e) ==
    /\ e.provider
    /\ IF ProviderStatus(e) # 0 THEN ProviderStatus(e) \in RETRYABLE_PROVIDER_STATUSES
       ELSE e.timeout \/ e.connection

DescribeException(e) ==
    [source |-> IF e.provider THEN "provider" ELSE "gateway",
     provider_status |-> ProviderStatus(e),
     retryable |-> Retryable(e)]
=============================================================================
