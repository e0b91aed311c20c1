----------------------------- MODULE OhttpStream -----------------------------
(***************************************************************************)
(* A streamed OHTTP response: _stream() (ohttp_controller.py) takes the       *)
(* events of a chat stream one ahead and seals each as a chunk of its own    *)
(* (ChunkedResponseEncrypter, ohttp.py), with a billing frame for the relay   *)
(* before the final one.  Sealing is abstracted to what it binds: a chunk     *)
(* opens under its nonce, as final or not, and yields the event sealed.       *)
(***************************************************************************)
EXTENDS ChatStream, Varint

CONSTANT Lengths   \* the lengths of the sealed chunks, in turn

VARIABLES
    out,       \* where _stream() stands
    counter,   \* _counter
    finalized, \* _finalized
    wire       \* what was sent

streamVars == <<out, counter, finalized, wire>>
vars == <<chatVars, streamVars>>

ASSUME OhttpStreamAssumption == Lengths \in Seq(Nat \ {0}) /\ Lengths # << >>

Init ==
    /\ ChatInit
    /\ out = "header"
    /\ counter = 0 /\ finalized = FALSE
    /\ wire = << >>

Plain(t) == [tag |-> t, prefix |-> << >>, nonce |-> 0, final |-> FALSE, body |-> 0]

LengthOf(n) == Lengths[(n % Len(Lengths)) + 1]

MutantEncryptChunk(b, final) ==     \* the counter goes up for the final chunk only
    /\ ~finalized
    /\ wire' = Append(wire, [tag |-> "chunk",
                             prefix |-> EncodeVarint(IF final THEN 0 ELSE LengthOf(counter)),
                             nonce |-> counter, final |-> final, body |-> b])
    /\ counter' = IF final THEN counter + 1 ELSE counter
    /\ finalized' = final

\* encrypt_chunk(): the chunk after the final one would raise.
EncryptChunk(b, final) ==
    /\ ~finalized
    /\ wire' = Append(wire, [tag |-> "chunk",
                             prefix |-> EncodeVarint(IF final THEN 0 ELSE LengthOf(counter)),
                             nonce |-> counter, final |-> final, body |-> b])
    /\ counter' = counter + 1
    /\ finalized' = final

SendHeader ==
    /\ out = "header"
    /\ wire' = Append(wire, Plain("nonce"))
    /\ out' = "take"
    /\ UNCHANGED <<chatVars, counter, finalized>>

MutantTakeEvent ==     \* [DONE] is sealed as final when it is seen, without look-ahead
    /\ out = "take" /\ taken < Len(events)
    /\ taken' = taken + 1
    /\ IF taken = 0 THEN UNCHANGED <<counter, finalized, wire>>
       ELSE EncryptChunk(taken, events[taken'].kind = "done")
    /\ UNCHANGED <<sourceVars, keptVars, gen, events, frameVars, out>>

\* The event before (pending) is sealed now that it is known not to be the last.
TakeEvent ==
    /\ out = "take" /\ taken < Len(events)
    /\ taken' = taken + 1
    /\ IF taken = 0 THEN UNCHANGED <<counter, finalized, wire>>
       ELSE EncryptChunk(taken, FALSE)
    /\ UNCHANGED <<sourceVars, keptVars, gen, events, frameVars, out>>

\* The final frame carries a cost: its usage's, or the images' flat price.
Priced == signed # Nothing /\ (mode = "images" \/ billed > 0)

Exhausted ==
    /\ out = "take" /\ Runs("over")
    /\ out' = IF Priced THEN "bill" ELSE "last"
    /\ UNCHANGED <<chatVars, counter, finalized, wire>>

SendBill ==
    /\ out = "bill"
    /\ wire' = Append(wire, Plain("bill"))
    /\ out' = "last"
    /\ UNCHANGED <<chatVars, counter, finalized>>

SealLast ==
    /\ out = "last"
    /\ EncryptChunk(taken, TRUE)
    /\ out' = "closed"
    /\ UNCHANGED chatVars

MutantLeave ==     \* the finally block seals what is pending as final
    /\ out \in {"take", "bill", "last"}
    /\ out' = "last" /\ gen' = "over"
    /\ UNCHANGED <<sourceVars, keptVars, events, taken, frameVars, counter, finalized,
                   wire>>

\* The client or the relay goes away while _stream() waits at a yield: the
\* generators are closed as they stand.
Leave ==
    /\ out \in {"take", "bill", "last"}
    /\ out' = "closed" /\ gen' = "over"
    /\ UNCHANGED <<sourceVars, keptVars, events, taken, frameVars, counter, finalized,
                   wire>>

Next ==
    \/ (out = "take" /\ Generate /\ UNCHANGED streamVars)
    \/ SendHeader \/ TakeEvent \/ Exhausted \/ SendBill \/ SealLast \/ Leave

Spec == Init /\ [][Next]_vars

----------------------------------------------------------------------------
(* What a client makes of the bytes, the billing frame stripped.             *)

\* The parts of a sequence put together.
Glue(parts) ==
    LET glue[k \in 0..Len(parts)] == IF k = 0 THEN << >> ELSE glue[k - 1] \o parts[k]
    IN glue[Len(parts)]

Chunks(w) == Glue([k \in 1..Len(w) |-> IF w[k].tag = "chunk" THEN <<w[k]>> ELSE << >>])

\* The k-th chunk: its length is decoded, 0 announces the final one, and it
\* opens under the nonce of its place.
Opens(c, k) ==
    LET length == DecodeVarint(c[k].prefix)
    IN /\ length.ok
       /\ length.value = IF c[k].final THEN 0 ELSE LengthOf(k - 1)
       /\ c[k].nonce = k - 1

\* How many of them a client opens: all before the first that does not open.
CountOpened(c) ==
    LET bad == {k \in 1..Len(c) : ~Opens(c, k)}
    IN IF bad = {} THEN Len(c) ELSE (CHOOSE k \in bad : \A j \in bad : k <= j) - 1

Opened(w) == LET c == Chunks(w) IN [k \in 1..CountOpened(c) |-> c[k].body]

Complete(w) ==
    LET c == Chunks(w)
    IN c # << >> /\ c[Len(c)].final /\ CountOpened(c) = Len(c)

----------------------------------------------------------------------------
(* Properties.                                                              *)

\* The values the variables take.
TypeOK ==
    /\ provider \in Providers /\ mode \in Modes
    /\ said \in 0..(MaxText + 1) /\ consumed \in 0..MaxUsage
    /\ asked \in [Calls -> 0..MaxPieces]
    /\ gen \in {"pull", "invoke", "flush", "sign", "done", "over"}
    /\ out \in {"header", "take", "bill", "last", "closed"}
    /\ taken \in 0..Len(events)
    /\ flushed \in 0..Len(order)
    /\ usage \in 0..MaxUsage /\ billed \in 0..MaxUsage
    /\ finalized \in BOOLEAN
    /\ counter = Len(Chunks(wire))

\* The text a client puts together.
TextOf(s) == Glue([k \in 1..Len(s) |-> IF s[k].kind = "text" THEN s[k].pieces ELSE << >>])

\* The calls it puts together: by index, the pieces of an index in turn.
PiecesOf(s, i) ==
    Glue([k \in 1..Len(s) |->
             IF s[k].kind = "call" /\ s[k].call = i THEN s[k].pieces ELSE << >>])

CallsOf(s) == [i \in Calls |-> PiecesOf(s, i)]

Finished == \E k \in 1..Len(events) : events[k].kind = "final"

\* The signature on the final frame covers what a client puts together from
\* the events before it: the tool calls if there is one, else the whole text,
\* whether the calls were buffered or streamed (chat_controller.py 710-840).
SignedAsAssembled ==
    Finished =>
        \/ signed.of = "calls" /\ signed.calls = CallsOf(events)
        \/ /\ signed.of = "text" /\ signed.text = TextOf(events)
           /\ \A i \in Calls : PiecesOf(events, i) = << >>

\* A stream that ends with [DONE] has relayed everything the provider sent, in
\* its order, each piece once, however texts and calls were interleaved.
NothingLost ==
    (\E k \in 1..Len(events) : events[k].kind = "done") =>
        /\ TextOf(events) = [k \in 1..said |-> k]
        /\ CallsOf(events) = [i \in Calls |-> [k \in 1..asked[i] |-> k]]

\* The usage a finished stream is billed by is what the provider reported in
\* all, whether it sends increments or running totals.
UsageCounted == Finished => billed = consumed

\* A client can tell how the stream went from its last event: [DONE] only right
\* after the signed final frame, an error only as the last event of a stream
\* that has no final frame.
EndsOnce ==
    \A k \in 1..Len(events) :
        /\ events[k].kind = "done" => k = Len(events) /\ k > 1 /\ events[k - 1].kind = "final"
        /\ events[k].kind = "error" => k = Len(events) /\ ~Finished
        /\ events[k].kind = "final" => Len(events) <= k + 1

\* The length in front of a chunk decodes to itself and takes up exactly its
\* bytes, and no part of it is taken for a whole one (ohttp.py 65-115).
FramesDecode ==
    \A k \in 1..Len(wire) : wire[k].tag = "chunk" =>
        LET p == wire[k].prefix
            full == DecodeVarint(p)
        IN /\ full.ok /\ full.next = Len(p)
           /\ full.value = IF wire[k].final THEN 0 ELSE LengthOf(wire[k].nonce)
           /\ \A n \in 0..(Len(p) - 1) : ~DecodeVarint(SubSeq(p, 1, n)).ok

\* A response cut short anywhere, by the network or by a client or provider
\* that leaves, cannot pass for a whole one: only what ends with the final chunk
\* does, and that holds every event of a stream that came to its own end, behind
\* the billing frame if the answer has a price.
CutShowsItself ==
    \A n \in 0..Len(wire) : Complete(SubSeq(wire, 1, n)) =>
        /\ n = Len(wire)
        /\ Opened(wire) = [k \in 1..Len(events) |-> k]
        /\ events[Len(events)].kind \in {"done", "error"}
        /\ Priced => wire[n - 1].tag = "bill"

Received == LET c == Chunks(wire) IN [k \in 1..CountOpened(c) |-> events[c[k].body]]

Channel == INSTANCE SealedChannel
    WITH produced <- events, opened <- Received, complete <- Complete(wire)

\* The sealed stream implements the abstract channel: events in their order,
\* none before the next is known to exist, the end with the last of them.
ImplementsChannel == Channel!Spec
=============================================================================
