------------------------------ MODULE Billing ------------------------------
(***************************************************************************)
(* What the gateway promises a payer, whoever carries the request and       *)
(* however it ends: a request gets at most one price, together with its     *)
(* signed answer; it is settled once; a settlement takes exactly that price *)
(* from the payer's session, or nothing, and never more than the session    *)
(* was opened for.                                                          *)
(***************************************************************************)
EXTENDS Naturals

CONSTANTS
    Requests,  \* the requests of one payment session
    Cap        \* the session's maximum spend

VARIABLES
    stage,     \* where each request stands
    quote,     \* the price in its signed answer; 0 when it has none
    charge,    \* what was taken from the session for it
    spent      \* what was taken from the session in all

vars == <<stage, quote, charge, spent>>

Init ==
    /\ stage = [r \in Requests |-> "open"]
    /\ quote = [r \in Requests |-> 0]
    /\ charge = [r \in Requests |-> 0]
    /\ spent = 0

\* The answer is signed and priced.
Quote(r) ==
    /\ stage[r] = "open"
    /\ stage' = [stage EXCEPT ![r] = "quoted"]
    /\ quote'[r] \in Nat
    /\ quote' = [quote EXCEPT ![r] = quote'[r]]
    /\ UNCHANGED <<charge, spent>>

\* The request is over and nothing is taken for it.
Waive(r) ==
    /\ stage[r] # "closed"
    /\ stage' = [stage EXCEPT ![r] = "closed"]
    /\ UNCHANGED <<quote, charge, spent>>

\* The request is over and its price is taken.
Settle(r) ==
    /\ stage[r] = "quoted" /\ quote[r] > 0
    /\ spent + quote[r] <= Cap
    /\ stage' = [stage EXCEPT ![r] = "closed"]
    /\ charge' = [charge EXCEPT ![r] = quote[r]]
    /\ spent' = spent + quote[r]
    /\ UNCHANGED quote

Next == \E r \in Requests : Quote(r) \/ Waive(r) \/ Settle(r)

Spec == Init /\ [][Next]_vars
=============================================================================
