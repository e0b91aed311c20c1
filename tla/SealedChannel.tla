---------------------------- MODULE SealedChannel ----------------------------
(***************************************************************************)
(* What a streamed OHTTP response promises its client: it opens the events   *)
(* one by one in the order they were produced, and it takes the response for *)
(* complete only when it holds all of them; nothing comes after that.        *)
(***************************************************************************)
EXTENDS Naturals, Sequences

VARIABLES
    produced, \* the events of the inner application
    opened,   \* the events the client can open
    complete  \* the client has seen the end

Init == produced = << >> /\ opened = << >> /\ complete = FALSE

Produce ==
    /\ ~complete
    /\ Len(produced') = Len(produced) + 1
    /\ SubSeq(produced', 1, Len(produced)) = produced
    /\ UNCHANGED <<opened, complete>>

\* Never the last one so far: it may turn out to be the end.
Open ==
    /\ ~complete
    /\ Len(opened) + 1 < Len(produced)
    /\ opened' = Append(opened, produced[Len(opened) + 1])
    /\ UNCHANGED <<produced, complete>>

Finish ==
    /\ ~complete
    /\ Len(opened) + 1 = Len(produced)
    /\ opened' = produced
    /\ complete' = TRUE
    /\ UNCHANGED produced

Next == Produce \/ Open \/ Finish

Spec == Init /\ [][Next]_<<produced, opened, complete>>
=============================================================================
