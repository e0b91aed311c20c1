----------------------------- MODULE ChatStream -----------------------------
(***************************************************************************)
(* generate(), the generator behind a streamed chat completion              *)
(* (chat_controller.py), for one request: what the provider sends, what is  *)
(* kept of it, and the events that are yielded.  A piece of text or of a     *)
(* tool call is its number, so that a lost, repeated or reordered one shows. *)
(* A chunk of a provider carries one thing; one that carries several is as   *)
(* many chunks in the order the code looks at them.                         *)
(***************************************************************************)
EXTENDS Naturals, Sequences

CONSTANTS
    Providers,   \* "buffered" (openai, anthropic), "deltas" (google, bytedance), "snapshots" (x-ai)
    Modes,       \* "stream", "once" (an inline-image or structured answer), "images"
    Calls,       \* the indexes of tool calls
    MaxText,     \* bound: pieces of text
    MaxPieces,   \* bound: pieces of each tool call
    MaxUsage     \* bound: tokens

VARIABLES
    provider, mode,
    said,     \* pieces of text the provider has sent
    asked,    \* pieces of each tool call it has sent
    consumed, \* tokens it has reported, all in all
    content,  \* full_content
    buffer,   \* buffered_tool_calls: the pieces by index
    order,    \* its insertion order
    flushed,  \* buffered calls already yielded
    usage,    \* final_usage; 0: None
    gen,      \* where the generator stands
    events,   \* what it has yielded
    taken,    \* how many of them its consumer has taken
    signed,   \* what output_content held
    billed    \* the usage on the final frame

sourceVars == <<provider, mode, said, asked, consumed>>
keptVars   == <<content, buffer, order, flushed, usage>>
frameVars  == <<signed, billed>>
chatVars   == <<sourceVars, keptVars, gen, events, taken, frameVars>>

ASSUME ChatStreamAssumption ==
    /\ Providers \subseteq {"buffered", "deltas", "snapshots"}
    /\ Modes \subseteq {"stream", "once", "images"}
    /\ MaxText \in Nat /\ MaxPieces \in Nat /\ MaxUsage \in Nat

Nothing == [of |-> "nothing", text |-> << >>, calls |-> [i \in Calls |-> << >>]]

ChatInit ==
    /\ provider \in Providers /\ mode \in Modes
    /\ said = 0 /\ asked = [i \in Calls |-> 0] /\ consumed = 0
    /\ content = << >> /\ buffer = [i \in Calls |-> << >>] /\ order = << >>
    /\ flushed = 0 /\ usage = 0
    /\ gen = IF mode = "stream" THEN "pull" ELSE IF mode = "once" THEN "invoke" ELSE "sign"
    /\ events = << >> /\ taken = 0
    /\ signed = Nothing /\ billed = 0

\* The generator runs only while its consumer waits for an event.
Runs(p) == gen = p /\ taken = Len(events)

Yield(k, c, s) == events' = Append(events, [kind |-> k, call |-> c, pieces |-> s])

----------------------------------------------------------------------------
(* One chunk of the provider.                                               *)

TextChunk ==
    /\ Runs("pull") /\ said < MaxText
    /\ said' = said + 1
    /\ content' = Append(content, said')
    /\ Yield("text", 0, <<said'>>)
    /\ UNCHANGED <<provider, mode, asked, consumed, buffer, order, flushed, usage, gen, frameVars>>

MutantKeepPiece(i, n) ==     \* a later piece replaces what is buffered
    /\ order' = IF buffer[i] = << >> THEN Append(order, i) ELSE order
    /\ buffer' = [buffer EXCEPT ![i] = <<n>>]

\* The first piece of an index makes its entry; arguments are concatenated.
KeepPiece(i, n) ==
    /\ order' = IF buffer[i] = << >> THEN Append(order, i) ELSE order
    /\ buffer' = [buffer EXCEPT ![i] = Append(@, n)]

CallChunk(i) ==
    /\ Runs("pull") /\ asked[i] < MaxPieces
    /\ asked' = [asked EXCEPT ![i] = @ + 1]
    /\ KeepPiece(i, asked'[i])
    /\ IF provider = "buffered" THEN UNCHANGED events ELSE Yield("call", i, <<asked'[i]>>)
    /\ UNCHANGED <<provider, mode, said, consumed, content, flushed, usage, gen, frameVars>>

MutantUsageChunk(d) ==     \* x-ai's snapshots are summed like the others' deltas
    /\ Runs("pull") /\ consumed + d <= MaxUsage
    /\ IF provider = "snapshots" THEN consumed + d > 0 ELSE d > 0
    /\ consumed' = consumed + d
    /\ usage' = usage + (IF provider = "snapshots" THEN consumed' ELSE d)
    /\ UNCHANGED <<provider, mode, said, asked, content, buffer, order, flushed, gen, events, frameVars>>

\* extract_usage(): a delta is added, x-ai's snapshot of the total (which may
\* repeat itself) replaces the one before.
UsageChunk(d) ==
    /\ Runs("pull") /\ consumed + d <= MaxUsage
    /\ IF provider = "snapshots" THEN consumed + d > 0 ELSE d > 0
    /\ consumed' = consumed + d
    /\ usage' = IF provider = "snapshots" THEN consumed' ELSE usage + d
    /\ UNCHANGED <<provider, mode, said, asked, content, buffer, order, flushed, gen, events, frameVars>>

ChunksEnd ==
    /\ Runs("pull")
    /\ gen' = IF provider = "buffered" /\ order # << >> THEN "flush" ELSE "sign"
    /\ UNCHANGED <<sourceVars, keptVars, events, frameVars>>

\* An inline image or a structured answer: one call, its text in one event,
\* its usage as the provider tells it, or none.
InvokeOnce(d) ==
    /\ Runs("invoke") /\ d <= MaxUsage
    /\ consumed' = d /\ usage' = d
    /\ \/ /\ said' = 1 /\ content' = <<1>> /\ Yield("text", 0, <<1>>)
       \/ UNCHANGED <<said, content, events>>
    /\ gen' = "sign"
    /\ UNCHANGED <<provider, mode, asked, buffer, order, flushed, frameVars>>

----------------------------------------------------------------------------
(* The end of the stream.                                                   *)

MutantFlush ==     \* the last buffered call is forgotten
    /\ Runs("flush")
    /\ flushed' = flushed + 1
    /\ IF Len(order) > 1 THEN Yield("call", order[flushed'], buffer[order[flushed']])
       ELSE UNCHANGED events
    /\ gen' = IF flushed' >= Len(order) - 1 THEN "sign" ELSE "flush"
    /\ UNCHANGED <<sourceVars, content, buffer, order, usage, frameVars>>

\* The buffered calls go out whole, in the order they began.
Flush ==
    /\ Runs("flush")
    /\ flushed' = flushed + 1
    /\ Yield("call", order[flushed'], buffer[order[flushed']])
    /\ gen' = IF flushed' = Len(order) THEN "sign" ELSE "flush"
    /\ UNCHANGED <<sourceVars, content, buffer, order, usage, frameVars>>

\* output_content: the calls if there are any, and then not the text.
Output ==
    IF order # << >> THEN [of |-> "calls", text |-> << >>, calls |-> buffer]
    ELSE [of |-> "text", text |-> content, calls |-> buffer]

\* Signature, usage and cost ride on the final frame.
SignFinal ==
    /\ Runs("sign")
    /\ signed' = Output
    /\ billed' = usage
    /\ Yield("final", 0, << >>)
    /\ gen' = "done"
    /\ UNCHANGED <<sourceVars, keptVars>>

SayDone ==
    /\ Runs("done")
    /\ Yield("done", 0, << >>)
    /\ gen' = "over"
    /\ UNCHANGED <<sourceVars, keptVars, frameVars>>

MutantBreak ==     \* the error event is followed by the usual [DONE]
    /\ taken = Len(events) /\ gen \in {"pull", "invoke", "sign"}
    /\ Yield("error", 0, << >>)
    /\ gen' = "done"
    /\ UNCHANGED <<sourceVars, keptVars, frameVars>>

\* The provider, the image generation or the signature raises: one last event
\* instead of the rest, since the status is already out.
Break ==
    /\ taken = Len(events) /\ gen \in {"pull", "invoke", "sign"}
    /\ Yield("error", 0, << >>)
    /\ gen' = "over"
    /\ UNCHANGED <<sourceVars, keptVars, frameVars>>

Step ==
    \/ TextChunk \/ ChunksEnd \/ Flush \/ SignFinal \/ SayDone \/ Break
    \/ \E i \in Calls : CallChunk(i)
    \/ \E d \in 0..MaxUsage : UsageChunk(d) \/ InvokeOnce(d)

Generate == Step /\ UNCHANGED taken
=============================================================================
