-------------------------- MODULE OhttpStreamProofs --------------------------
(***************************************************************************)
(* How a streamed answer ends, for any provider and any number of texts,     *)
(* tool calls and pieces, and that its chunks are framed right, for chunks   *)
(* of any length a varint can hold.                                         *)
(***************************************************************************)
EXTENDS OhttpStream, VarintProofs

----------------------------------------------------------------------------
(* The events.                                                              *)

Kinds == {"text", "call", "final", "done", "error"}

Event == [kind : Kinds, call : Calls \cup {0}, pieces : Seq(Nat)]

StreamTypes ==
    /\ said \in Nat /\ asked \in [Calls -> Nat]
    /\ buffer \in [Calls -> Seq(Nat)] /\ order \in Seq(Calls)
    /\ flushed \in Nat
    /\ events \in Seq(Event)

Relayed(e) == e.kind \in {"text", "call"}

\* Only what relays the provider comes before the final frame.
EndInv ==
    /\ StreamTypes
    /\ gen \in {"pull", "invoke", "flush", "sign", "done", "over"}
    /\ gen = "pull" => flushed = 0
    /\ gen = "flush" => flushed < Len(order)
    /\ gen \in {"pull", "invoke", "flush", "sign"} => \A k \in 1..Len(events) : Relayed(events[k])
    /\ gen = "done" => /\ Len(events) > 0 /\ events[Len(events)].kind = "final"
                       /\ \A k \in 1..(Len(events) - 1) : Relayed(events[k])
    /\ EndsOnce

\* A yield adds one event at the end.
LEMMA YieldAppends ==
    ASSUME events \in Seq(Event), NEW k \in Kinds, NEW c \in Calls \cup {0}, NEW s \in Seq(Nat),
           Yield(k, c, s)
    PROVE  /\ events' \in Seq(Event) /\ Len(events') = Len(events) + 1
           /\ \A n \in 1..Len(events) : events'[n] = events[n]
           /\ events'[Len(events) + 1].kind = k
<1> DEFINE e == [kind |-> k, call |-> c, pieces |-> s]
<1>1. e \in Event /\ e.kind = k
  BY DEF Event
<1>2. events' = Append(events, e)
  BY DEF Yield
<1> HIDE DEF e, Event
<1>3. QED
  BY <1>1, <1>2, SMT

\* An event that relays leaves the stream as open as it was.
LEMMA RelayKeeps ==
    ASSUME EndInv, gen \in {"pull", "invoke", "flush"},
           NEW k \in {"text", "call"}, NEW c \in Calls \cup {0}, NEW s \in Seq(Nat), Yield(k, c, s)
    PROVE  /\ events' \in Seq(Event)
           /\ \A n \in 1..Len(events') : Relayed(events'[n])
<1>1. /\ events' \in Seq(Event) /\ Len(events') = Len(events) + 1
      /\ \A n \in 1..Len(events) : events'[n] = events[n]
      /\ events'[Len(events) + 1].kind = k
  <2>1. k \in Kinds /\ events \in Seq(Event)
    BY DEF Kinds, EndInv, StreamTypes
  <2>2. QED
    BY <2>1, YieldAppends
<1>2. \A n \in 1..Len(events) : Relayed(events[n])
  BY DEF EndInv
<1>3. Len(events) \in Nat
  BY DEF EndInv, StreamTypes
<1>4. ASSUME NEW n \in 1..Len(events')
      PROVE  Relayed(events'[n])
  <2>1. CASE n \in 1..Len(events)
    BY <1>1, <1>2, <2>1 DEF Relayed
  <2>2. CASE n = Len(events) + 1
    BY <1>1, <2>2 DEF Relayed
  <2>3. QED
    BY <1>1, <1>3, <2>1, <2>2, SMT
<1>5. QED
  BY <1>1, <1>4

\* A stream none of whose events ends it is as the invariant wants it.
LEMMA StillOpen ==
    ASSUME StreamTypes', gen' \in {"pull", "invoke", "flush", "sign", "over"},
           gen' = "pull" => flushed' = 0, gen' = "flush" => flushed' < Len(order'),
           \A n \in 1..Len(events') : Relayed(events'[n])
    PROVE  EndInv'
<1>1. ASSUME NEW n \in 1..Len(events')
      PROVE  events'[n].kind \notin {"final", "done", "error"}
  BY <1>1, SMT DEF Relayed
<1>2. EndsOnce'
  BY <1>1, Zenon DEF EndsOnce
<1>3. QED
  BY <1>2, Zenon DEF EndInv

\* What the provider sends is relayed or kept.
LEMMA SourceHolds ==
    ASSUME EndInv,
           TextChunk \/ ChunksEnd \/ (\E i \in Calls : CallChunk(i))
           \/ (\E d \in 0..MaxUsage : UsageChunk(d) \/ InvokeOnce(d))
    PROVE  EndInv'
<1> USE DEF EndInv, StreamTypes, Runs
<1>1. CASE TextChunk
  <2>1. /\ said' \in Nat /\ <<said'>> \in Seq(Nat) /\ 0 \in Calls \cup {0}
        /\ Yield("text", 0, <<said'>>)
    BY <1>1, SMT DEF TextChunk
  <2>2. events' \in Seq(Event) /\ \A n \in 1..Len(events') : Relayed(events'[n])
    BY <1>1, <2>1, RelayKeeps DEF TextChunk
  <2>3. UNCHANGED <<asked, buffer, order, flushed, gen>> /\ gen = "pull"
    BY <1>1 DEF TextChunk
  <2>4. QED
    BY <2>1, <2>2, <2>3, StillOpen
<1>2. CASE ChunksEnd
  <2>1. /\ UNCHANGED <<said, asked, buffer, order, flushed, events>> /\ gen = "pull"
        /\ gen' = IF provider = "buffered" /\ order # << >> THEN "flush" ELSE "sign"
    BY <1>2 DEF ChunksEnd, sourceVars, keptVars
  <2>2. \A n \in 1..Len(events') : Relayed(events'[n])
    BY <2>1
  <2>3. gen' = "flush" => order # << >>
    BY <2>1
  <2>4. ASSUME gen' = "flush" PROVE flushed < Len(order)
    BY <2>1, <2>3, <2>4, SMT
  <2>5. QED
    BY <2>1, <2>2, <2>4, StillOpen
<1>3. ASSUME NEW i \in Calls, CallChunk(i)
      PROVE  EndInv'
  <2>1. /\ asked' = [asked EXCEPT ![i] = @ + 1] /\ gen = "pull"
        /\ KeepPiece(i, asked'[i])
        /\ UNCHANGED <<said, flushed, gen>>
    BY <1>3 DEF CallChunk
  <2>2. asked' \in [Calls -> Nat] /\ asked'[i] \in Nat
    BY <2>1, SMT
  <2>3. buffer' \in [Calls -> Seq(Nat)]
    BY <2>1, <2>2, SMT DEF KeepPiece
  <2>4. order' \in Seq(Calls)
    BY <2>1, SMT DEF KeepPiece
  <2>5. events' \in Seq(Event) /\ \A n \in 1..Len(events') : Relayed(events'[n])
    <3>1. CASE events' = events
      BY <2>1, <3>1
    <3>2. CASE Yield("call", i, <<asked'[i]>>)
      <4>1. <<asked'[i]>> \in Seq(Nat)
        BY <2>2, SMT
      <4>2. QED
        BY <2>1, <3>2, <4>1, RelayKeeps
    <3>3. QED
      BY <1>3, <3>1, <3>2 DEF CallChunk
  <2>6. QED
    BY <2>1, <2>2, <2>3, <2>4, <2>5, StillOpen
<1>4. ASSUME NEW d \in 0..MaxUsage, UsageChunk(d)
      PROVE  EndInv'
  <2>1. UNCHANGED <<said, asked, buffer, order, flushed, gen, events>> /\ gen = "pull"
    BY <1>4 DEF UsageChunk
  <2>2. QED
    BY <2>1, StillOpen
<1>5. ASSUME NEW d \in 0..MaxUsage, InvokeOnce(d)
      PROVE  EndInv'
  <2>1. UNCHANGED <<asked, buffer, order, flushed>> /\ gen = "invoke" /\ gen' = "sign"
    BY <1>5 DEF InvokeOnce
  <2>2. said' \in Nat /\ events' \in Seq(Event) /\ \A n \in 1..Len(events') : Relayed(events'[n])
    <3>1. CASE said' = 1 /\ Yield("text", 0, <<1>>)
      <4>1. <<1>> \in Seq(Nat)
        BY SMT
      <4>2. QED
        BY <2>1, <3>1, <4>1, RelayKeeps
    <3>2. CASE UNCHANGED <<said, events>>
      BY <2>1, <3>2
    <3>3. QED
      BY <1>5, <3>1, <3>2 DEF InvokeOnce
  <2>3. QED
    BY <2>1, <2>2, StillOpen
<1>6. QED
  BY <1>1, <1>2, <1>3, <1>4, <1>5

\* The buffered calls are relayed too.
LEMMA FlushHolds == ASSUME EndInv, Flush PROVE EndInv'
<1> USE DEF EndInv, StreamTypes, Runs
<1>1. /\ gen = "flush" /\ flushed < Len(order) /\ flushed' = flushed + 1
      /\ gen' = IF flushed' = Len(order) THEN "sign" ELSE "flush"
      /\ Yield("call", order[flushed'], buffer[order[flushed']])
      /\ UNCHANGED <<said, asked, buffer, order>>
  BY DEF Flush, sourceVars
<1>2. flushed' \in 1..Len(order) /\ order[flushed'] \in Calls
  BY <1>1, SMT
<1>3. buffer[order[flushed']] \in Seq(Nat)
  BY <1>2
<1>4. events' \in Seq(Event) /\ \A n \in 1..Len(events') : Relayed(events'[n])
  BY <1>1, <1>2, <1>3, RelayKeeps
<1>5. gen' = "flush" => flushed' < Len(order')
  BY <1>1, <1>2, SMT
<1>6. flushed' \in Nat
  BY <1>1, SMT
<1>7. QED
  BY <1>1, <1>4, <1>5, <1>6, StillOpen

\* Ways for a stream to end.
LEMMA EndsWith ==
    ASSUME NEW l \in Nat, Len(events') = l + 1,
           \/ /\ events'[l + 1].kind \in {"final", "error"}
              /\ \A n \in 1..l : Relayed(events'[n])
           \/ /\ events'[l + 1].kind = "done" /\ l > 0 /\ events'[l].kind = "final"
              /\ \A n \in 1..(l - 1) : Relayed(events'[n])
    PROVE  EndsOnce'
<1> DEFINE m == l + 1
<1> DEFINE Kind(n) == events'[n].kind
<1>1. CASE Kind(m) \in {"final", "error"} /\ \A n \in 1..l : Relayed(events'[n])
  <2>1. \A n \in 1..l : Kind(n) \notin {"final", "done", "error"}
    BY <1>1, SMT DEF Relayed
  <2>2. \A n \in 1..m : n \in 1..l \/ n = m
    BY SMT
  <2>3. ASSUME NEW n \in 1..m
        PROVE  /\ Kind(n) # "done"
               /\ Kind(n) = "error" => n = m /\ \A k \in 1..m : Kind(k) # "final"
               /\ Kind(n) = "final" => m <= n + 1
    BY <1>1, <2>1, <2>2, SMT
  <2>4. QED
    BY <2>3, Zenon DEF EndsOnce, Finished
<1>2. CASE /\ Kind(m) = "done" /\ l > 0 /\ Kind(l) = "final"
           /\ \A n \in 1..(l - 1) : Relayed(events'[n])
  <2>1. \A n \in 1..(l - 1) : Kind(n) \notin {"final", "done", "error"}
    BY <1>2, SMT DEF Relayed
  <2>2. \A n \in 1..m : n \in 1..(l - 1) \/ n = l \/ n = m
    BY SMT
  <2>3. ASSUME NEW n \in 1..m
        PROVE  /\ Kind(n) = "done" => n = m /\ n > 1 /\ Kind(n - 1) = "final"
               /\ Kind(n) # "error"
               /\ Kind(n) = "final" => m <= n + 1
    BY <1>2, <2>1, <2>2, SMT
  <2>4. QED
    BY <2>3, Zenon DEF EndsOnce, Finished
<1>3. QED
  BY <1>1, <1>2

\* The final frame comes once, [DONE] after nothing else, an error instead of it.
LEMMA EndingHolds == ASSUME EndInv, SignFinal \/ SayDone \/ Break PROVE EndInv'
<1> DEFINE l == Len(events)
<1>1. UNCHANGED <<said, asked, buffer, order, flushed>> /\ StreamTypes
  BY DEF SignFinal, SayDone, Break, sourceVars, keptVars, EndInv
<1>2. l \in Nat /\ events \in Seq(Event)
  BY <1>1 DEF StreamTypes
<1>3. ASSUME NEW k \in {"final", "done", "error"}, Yield(k, 0, << >>)
      PROVE  /\ StreamTypes' /\ Len(events') = l + 1
             /\ \A n \in 1..l : events'[n] = events[n]
             /\ events'[l + 1].kind = k
  <2>1. k \in Kinds /\ << >> \in Seq(Nat) /\ 0 \in Calls \cup {0}
    BY DEF Kinds
  <2>2. /\ events' \in Seq(Event) /\ Len(events') = l + 1
        /\ \A n \in 1..l : events'[n] = events[n]
        /\ events'[l + 1].kind = k
    BY <1>2, <1>3, <2>1, YieldAppends
  <2>3. QED
    BY <1>1, <2>2, Zenon DEF StreamTypes
<1>4. CASE SignFinal
  <2>1. gen = "sign" /\ gen' = "done" /\ Yield("final", 0, << >>)
    BY <1>4 DEF SignFinal, Runs
  <2>2. StreamTypes' /\ Len(events') = l + 1 /\ events'[l + 1].kind = "final"
    BY <1>3, <2>1, Zenon
  <2>3. \A n \in 1..l : events'[n] = events[n]
    BY <1>3, <2>1, Zenon
  <2>4. \A n \in 1..l : Relayed(events[n])
    BY <2>1, Zenon DEF EndInv
  <2>5. \A n \in 1..l : Relayed(events'[n])
    BY <2>3, <2>4 DEF Relayed
  <2> HIDE DEF l
  <2>6. EndsOnce'
    BY <1>2, <2>2, <2>5, EndsWith
  <2>7. /\ Len(events') > 0 /\ events'[Len(events')].kind = "final"
        /\ \A n \in 1..(Len(events') - 1) : Relayed(events'[n])
    BY <1>2, <2>2, <2>5, SMT
  <2>8. gen' \notin {"pull", "flush", "invoke", "sign"}
    BY <2>1
  <2>9. QED
    BY <2>1, <2>2, <2>6, <2>7, <2>8, Zenon DEF EndInv
<1>5. CASE SayDone
  <2>1. gen = "done" /\ gen' = "over" /\ Yield("done", 0, << >>)
    BY <1>5 DEF SayDone, Runs
  <2>2. StreamTypes' /\ Len(events') = l + 1 /\ events'[l + 1].kind = "done"
    BY <1>3, <2>1, Zenon
  <2>3. \A n \in 1..l : events'[n] = events[n]
    BY <1>3, <2>1, Zenon
  <2>4. l > 0 /\ events[l].kind = "final" /\ \A n \in 1..(l - 1) : Relayed(events[n])
    BY <2>1, Zenon DEF EndInv
  <2> HIDE DEF l
  <2>5. l > 0 /\ events'[l].kind = "final" /\ \A n \in 1..(l - 1) : Relayed(events'[n])
    BY <1>2, <2>3, <2>4, SMT
  <2>6. EndsOnce'
    BY <1>2, <2>2, <2>5, EndsWith
  <2>7. gen' \notin {"pull", "flush", "invoke", "sign", "done"}
    BY <2>1
  <2>8. QED
    BY <2>1, <2>2, <2>6, <2>7, Zenon DEF EndInv
<1>6. CASE Break
  <2>1. gen \in {"pull", "invoke", "sign"} /\ gen' = "over" /\ Yield("error", 0, << >>)
    BY <1>6 DEF Break
  <2>2. StreamTypes' /\ Len(events') = l + 1 /\ events'[l + 1].kind = "error"
    BY <1>3, <2>1, Zenon
  <2>3. \A n \in 1..l : events'[n] = events[n]
    BY <1>3, <2>1, Zenon
  <2>4. \A n \in 1..l : Relayed(events[n])
    BY <2>1, Zenon DEF EndInv
  <2>5. \A n \in 1..l : Relayed(events'[n])
    BY <2>3, <2>4 DEF Relayed
  <2> HIDE DEF l
  <2>6. EndsOnce'
    BY <1>2, <2>2, <2>5, EndsWith
  <2>7. gen' \notin {"pull", "flush", "invoke", "sign", "done"}
    BY <2>1
  <2>8. QED
    BY <2>1, <2>2, <2>6, <2>7, Zenon DEF EndInv
<1>7. QED
  BY <1>4, <1>5, <1>6

\* A stream begins with no event.
LEMMA EndBegins == Init => EndInv
<1> SUFFICES ASSUME Init PROVE EndInv
  OBVIOUS
<1>1. StreamTypes
  BY SMT DEF Init, ChatInit, StreamTypes
<1>2. events = << >> /\ gen \in {"pull", "invoke", "sign"}
  BY SMT DEF Init, ChatInit
<1>3. \A n \in 1..Len(events) : FALSE
  BY <1>2, SMT
<1>4. gen = "pull" => flushed = 0
  BY DEF Init, ChatInit
<1>5. EndsOnce
  BY <1>3, Zenon DEF EndsOnce
<1>6. gen \notin {"flush", "done"}
  BY <1>2
<1>7. QED
  BY <1>1, <1>2, <1>3, <1>4, <1>5, <1>6, Zenon DEF EndInv

\* Every step leaves a stream open, or ended in one of the three ways.
LEMMA EndHolds == EndInv /\ [Next]_vars => EndInv'
<1> SUFFICES ASSUME EndInv, [Next]_vars PROVE EndInv'
  OBVIOUS
<1>1. CASE Generate
  BY <1>1, SourceHolds, FlushHolds, EndingHolds DEF Generate, Step
<1>2. CASE Leave
  <2>1. UNCHANGED <<said, asked, buffer, order, flushed, events>> /\ gen' = "over"
    BY <1>2 DEF Leave, sourceVars, keptVars
  <2>2. QED
    BY <2>1, SMT DEF EndInv, StreamTypes, EndsOnce, Finished
<1>3. CASE SendHeader \/ TakeEvent \/ Exhausted \/ SendBill \/ SealLast \/ UNCHANGED vars
  <2>1. UNCHANGED <<said, asked, buffer, order, flushed, events, gen>>
    BY <1>3, Zenon DEF SendHeader, TakeEvent, Exhausted, SendBill, SealLast, vars, chatVars,
                       sourceVars, keptVars
  <2>2. QED
    BY <2>1, SMT DEF EndInv, StreamTypes, EndsOnce, Finished
<1>4. QED
  BY <1>1, <1>2, <1>3 DEF Next

\* However the stream goes, and wherever its reader leaves it, its events tell a
\* client whether it is whole (chat_controller.py 826-876).
THEOREM EndIsClear == Spec => []EndsOnce
<1>1. EndInv => EndsOnce
  BY DEF EndInv
<1>2. QED
  BY <1>1, EndBegins, EndHolds, PTL DEF Spec

----------------------------------------------------------------------------
(* The usage.                                                               *)

\* What is kept of the usage is what was reported; a final frame carries it.
UsageInv == usage = consumed /\ (Finished => billed = consumed)

\* As long as a stream is open it has no final frame.
LEMMA StillUnfinished ==
    ASSUME EndInv', gen' \in {"pull", "invoke", "flush", "sign"} PROVE ~Finished'
<1>1. ASSUME NEW n \in 1..Len(events')
      PROVE  events'[n].kind # "final"
  <2>1. Relayed(events'[n])
    BY DEF EndInv, Relayed
  <2>2. QED
    BY <2>1, SMT DEF Relayed
<1>2. QED
  BY <1>1, Zenon DEF Finished

\* A client that finds its answer finished is billed for what the provider
\* reported, in increments or in running totals (chat_controller.py 791).
THEOREM UsageIsCounted == Spec => []UsageCounted
<1>1. Init => UsageInv
  <2> SUFFICES ASSUME Init PROVE UsageInv
    OBVIOUS
  <2>1. usage = 0 /\ consumed = 0 /\ events = << >>
    BY DEF Init, ChatInit
  <2>2. \A n \in 1..Len(events) : FALSE
    BY <2>1, SMT
  <2>3. ~Finished
    BY <2>2, Zenon DEF Finished
  <2>4. QED
    BY <2>1, <2>3, Zenon DEF UsageInv
<1>2. EndInv /\ EndInv' /\ UsageInv /\ [Next]_vars => UsageInv'
  <2> SUFFICES ASSUME EndInv, EndInv', UsageInv, [Next]_vars PROVE UsageInv'
    OBVIOUS
  <2>1. CASE UNCHANGED <<usage, consumed, billed>> /\ (Finished' => Finished)
    BY <2>1, Zenon DEF UsageInv
  <2>2. CASE \/ TextChunk \/ ChunksEnd \/ Flush \/ \E i \in Calls : CallChunk(i)
    <3>1. UNCHANGED <<usage, consumed, billed>> /\ gen' \in {"pull", "flush", "sign"}
      <4>1. CASE TextChunk
        BY <4>1, Zenon DEF TextChunk, frameVars, Runs
      <4>2. CASE ChunksEnd
        <5>1. UNCHANGED <<usage, consumed, billed>>
          BY <4>2, Zenon DEF ChunksEnd, sourceVars, keptVars, frameVars
        <5>2. gen' = "flush" \/ gen' = "sign"
          BY <4>2, Zenon DEF ChunksEnd
        <5>3. QED
          BY <5>1, <5>2
      <4>3. CASE Flush
        <5>1. UNCHANGED <<usage, consumed, billed>>
          BY <4>3, Zenon DEF Flush, sourceVars, frameVars
        <5>2. gen' = "flush" \/ gen' = "sign"
          BY <4>3, Zenon DEF Flush
        <5>3. QED
          BY <5>1, <5>2
      <4>4. ASSUME NEW i \in Calls, CallChunk(i)
            PROVE  UNCHANGED <<usage, consumed, billed>> /\ gen' = "pull"
        BY <4>4, Zenon DEF CallChunk, frameVars, Runs
      <4>5. QED
        BY <2>2, <4>1, <4>2, <4>3, <4>4
    <3>2. ~Finished'
      BY <3>1, StillUnfinished
    <3>3. QED
      BY <2>1, <3>1, <3>2
  <2>3. ASSUME NEW d \in 0..MaxUsage, UsageChunk(d) \/ InvokeOnce(d)
        PROVE  UsageInv'
    <3>1. gen' \in {"pull", "sign"}
      BY <2>3 DEF UsageChunk, InvokeOnce, Runs
    <3>2. ~Finished'
      BY <3>1, StillUnfinished
    <3>3. usage' = consumed'
      BY <2>3, SMT DEF UsageChunk, InvokeOnce, UsageInv
    <3>4. QED
      BY <3>2, <3>3, Zenon DEF UsageInv
  <2>4. CASE SignFinal
    BY <2>4, Zenon DEF SignFinal, UsageInv, sourceVars, keptVars
  <2>5. CASE SayDone
    <3>1. UNCHANGED <<usage, consumed, billed>> /\ gen = "done"
      BY <2>5 DEF SayDone, sourceVars, keptVars, frameVars, Runs
    <3>2. Len(events) \in 1..Len(events) /\ events[Len(events)].kind = "final"
      BY <3>1, SMT DEF EndInv, StreamTypes
    <3>3. Finished
      BY <3>2, Zenon DEF Finished
    <3>4. QED
      BY <2>1, <3>1, <3>3
  <2>6. CASE Break
    <3>1. UNCHANGED <<usage, consumed, billed>> /\ Yield("error", 0, << >>)
      BY <2>6, Zenon DEF Break, sourceVars, keptVars, frameVars
    <3>2. /\ events \in Seq(Event) /\ Len(events) \in Nat
      BY DEF EndInv, StreamTypes
    <3>3. Len(events') = Len(events) + 1 /\ events'[Len(events) + 1].kind = "error"
      <4>1. "error" \in Kinds /\ 0 \in Calls \cup {0} /\ << >> \in Seq(Nat)
        BY DEF Kinds
      <4>2. QED
        BY <3>1, <3>2, <4>1, YieldAppends
    <3>4. Len(events) + 1 \in 1..Len(events')
      BY <3>2, <3>3, SMT
    <3>5. ~Finished'
      BY <3>3, <3>4, Zenon DEF EndInv, EndsOnce
    <3>6. QED
      BY <2>1, <3>1, <3>5
  <2>7. CASE Leave \/ SendHeader \/ TakeEvent \/ Exhausted \/ SendBill \/ SealLast \/ UNCHANGED vars
    <3>1. UNCHANGED <<usage, consumed, billed, events>>
      BY <2>7, Zenon DEF Leave, SendHeader, TakeEvent, Exhausted, SendBill, SealLast, vars, chatVars,
                         sourceVars, keptVars, frameVars
    <3>2. Finished' = Finished
      BY <3>1 DEF Finished
    <3>3. QED
      BY <2>1, <3>1, <3>2
  <2>8. QED
    BY <2>2, <2>3, <2>4, <2>5, <2>6, <2>7 DEF Next, Generate, Step
<1>3. UsageInv => UsageCounted
  BY DEF UsageInv, UsageCounted
<1>4. QED
  BY <1>1, <1>2, <1>3, EndBegins, EndHolds, PTL DEF Spec

----------------------------------------------------------------------------
(* The frames.                                                              *)

\* A varint holds what is below 2^62.
LengthsFit == \A k \in DOMAIN Lengths : Encodable(Lengths[k])

\* The length in front of a chunk: 0 for the final one.
Announced(f) == IF f.final THEN 0 ELSE LengthOf(f.nonce)

Prefixes == {<< >>} \cup {EncodeVarint(v) : v \in Nat}

Frame == [tag : {"nonce", "bill", "chunk"}, prefix : Prefixes, nonce : Nat, final : BOOLEAN,
          body : Nat]

FrameInv ==
    /\ wire \in Seq(Frame)
    /\ counter \in Nat /\ taken \in Nat
    /\ \A k \in 1..Len(wire) :
          wire[k].tag = "chunk" => wire[k].prefix = EncodeVarint(Announced(wire[k]))

\* Every chunk has a length of its own to announce.
LEMMA LengthIsNatural ==
    ASSUME NEW n \in Nat
    PROVE  LengthOf(n) \in Nat /\ \E k \in DOMAIN Lengths : LengthOf(n) = Lengths[k]
<1> DEFINE l == Len(Lengths)
           i == (n % l) + 1
<1>1. Lengths \in Seq(Nat \ {0}) /\ l \in Nat /\ l > 0
  BY OhttpStreamAssumption, SMT
<1> HIDE DEF l
<1>2. i \in 1..l
  BY <1>1, SMT
<1>3. i \in DOMAIN Lengths /\ Lengths[i] \in Nat
  BY <1>1, <1>2 DEF l
<1>4. LengthOf(n) = Lengths[i]
  BY DEF LengthOf, l
<1>5. QED
  BY <1>3, <1>4

\* What is sent next comes after everything else.
LEMMA SendKeeps ==
    ASSUME FrameInv, NEW f, f.tag = "chunk" => f.prefix = EncodeVarint(Announced(f)),
           f \in Frame,
           wire' = Append(wire, f), counter' \in Nat, taken' \in Nat
    PROVE  FrameInv'
<1> DEFINE l == Len(wire)
<1>1. wire \in Seq(Frame)
  BY DEF FrameInv
<1>2. /\ wire' \in Seq(Frame) /\ l \in Nat /\ Len(wire') = l + 1 /\ wire'[l + 1] = f
      /\ \A k \in 1..l : wire'[k] = wire[k]
  BY <1>1, SMT
<1> HIDE DEF l
<1>3. ASSUME NEW k \in 1..Len(wire'), wire'[k].tag = "chunk"
      PROVE  wire'[k].prefix = EncodeVarint(Announced(wire'[k]))
  <2>1. k \in 1..l \/ k = l + 1
    BY <1>2, SMT
  <2>2. CASE k \in 1..l
    BY <1>2, <1>3, <2>2 DEF FrameInv, l
  <2>3. CASE k = l + 1
    BY <1>2, <1>3, <2>3
  <2>4. QED
    BY <2>1, <2>2, <2>3
<1>4. QED
  BY <1>2, <1>3 DEF FrameInv, Announced, LengthOf

\* A chunk announces the length it is sealed with.
LEMMA SealKeeps ==
    ASSUME FrameInv, NEW b \in Nat, NEW final \in BOOLEAN, EncryptChunk(b, final), taken' \in Nat
    PROVE  FrameInv'
<1> DEFINE length == IF final THEN 0 ELSE LengthOf(counter)
           f == [tag |-> "chunk", prefix |-> EncodeVarint(length),
                 nonce |-> counter, final |-> final, body |-> b]
<1>1. counter \in Nat /\ counter' \in Nat
  <2>1. counter \in Nat /\ counter' = counter + 1
    BY DEF FrameInv, EncryptChunk
  <2>2. QED
    BY <2>1, SMT
<1>2. length \in Nat
  BY <1>1, LengthIsNatural
<1>3. wire' = Append(wire, f)
  BY DEF EncryptChunk
<1>4. Announced(f) = length
  BY DEF Announced
<1> HIDE DEF length
<1>5. f \in Frame
  <2>1. EncodeVarint(length) \in Prefixes
    BY <1>2, Zenon DEF Prefixes
  <2> DEFINE prefix == EncodeVarint(length)
  <2> HIDE DEF prefix
  <2>2. [tag |-> "chunk", prefix |-> prefix, nonce |-> counter, final |-> final, body |-> b]
          \in Frame
    BY <1>1, <2>1, Zenon DEF Frame, prefix
  <2>3. QED
    BY <2>2 DEF prefix
<1>6. f.prefix = EncodeVarint(Announced(f))
  BY <1>4
<1> HIDE DEF f
<1>7. QED
  BY <1>1, <1>3, <1>5, <1>6, SendKeeps

\* Nothing is sent at first.
LEMMA FrameBegins == Init => FrameInv
<1> SUFFICES ASSUME Init PROVE FrameInv
  OBVIOUS
<1>1. wire = << >> /\ counter = 0 /\ taken = 0
  BY DEF Init, ChatInit
<1>2. \A k \in 1..Len(wire) : FALSE
  BY <1>1, SMT
<1>3. counter \in Nat /\ taken \in Nat
  BY <1>1
<1>4. \A S : wire \in Seq(S)
  BY <1>1
<1>5. QED
  BY <1>2, <1>3, <1>4, Zenon DEF FrameInv

\* Every step sends frames with the right length in front, or none.
LEMMA FrameHolds == FrameInv /\ [Next]_vars => FrameInv'
<1> SUFFICES ASSUME FrameInv, [Next]_vars PROVE FrameInv'
  OBVIOUS
<1>1. CASE UNCHANGED <<counter, wire>> /\ taken' = taken
  BY <1>1, Zenon DEF FrameInv, Announced, LengthOf
<1>2. counter \in Nat /\ taken \in Nat
  BY DEF FrameInv
<1>3. CASE (out = "take" /\ Generate /\ UNCHANGED streamVars) \/ Exhausted \/ Leave \/ UNCHANGED vars
  <2>1. UNCHANGED <<counter, wire>> /\ taken' = taken
    BY <1>3, Zenon DEF Generate, streamVars, Exhausted, Leave, vars, chatVars
  <2>2. QED
    BY <1>1, <2>1
<1>4. CASE SendHeader \/ SendBill
  <2>1. PICK t \in {"nonce", "bill"} : wire' = Append(wire, Plain(t))
    BY <1>4 DEF SendHeader, SendBill
  <2>2. Plain(t) \in Frame
    <3>1. << >> \in Prefixes /\ 0 \in Nat
      BY DEF Prefixes
    <3>2. t \in {"nonce", "bill", "chunk"}
      OBVIOUS
    <3>3. QED
      BY <3>1, <3>2, Zenon DEF Plain, Frame
  <2>5. Plain(t).tag # "chunk"
    BY DEF Plain
  <2>3. UNCHANGED <<counter, taken>>
    BY <1>4, Zenon DEF SendHeader, SendBill, chatVars
  <2>4. QED
    BY <1>2, <2>1, <2>2, <2>3, <2>5, SendKeeps
<1>5. CASE TakeEvent
  <2>1. taken' = taken + 1 /\ taken' \in Nat
    BY <1>2, <1>5, SMT DEF TakeEvent
  <2>2. CASE UNCHANGED <<counter, wire>>
    BY <1>2, <2>1, <2>2, Zenon DEF FrameInv, Announced, LengthOf
  <2>3. CASE EncryptChunk(taken, FALSE)
    BY <1>2, <2>1, <2>3, SealKeeps
  <2>4. QED
    BY <1>5, <2>2, <2>3 DEF TakeEvent
<1>6. CASE SealLast
  <2>1. EncryptChunk(taken, TRUE) /\ taken' = taken
    BY <1>6 DEF SealLast, chatVars
  <2>2. QED
    BY <1>2, <2>1, SealKeeps
<1>7. QED
  BY <1>3, <1>4, <1>5, <1>6 DEF Next

\* The length in front of a frame is read as it was announced.
LEMMA LengthIsRead ==
    ASSUME LengthsFit, NEW f, f.nonce \in Nat, f.final \in BOOLEAN,
           f.prefix = EncodeVarint(Announced(f))
    PROVE  LET p == f.prefix
               full == DecodeVarint(p)
           IN /\ full.ok /\ full.next = Len(p)
              /\ full.value = Announced(f)
              /\ \A n \in 0..(Len(p) - 1) : ~DecodeVarint(SubSeq(p, 1, n)).ok
<1> DEFINE v == Announced(f)
           p == f.prefix
<1>1. p = EncodeVarint(v)
  OBVIOUS
<1>2. v \in Nat /\ Encodable(v)
  <2>1. CASE f.final
    <3>1. v = 0
      BY <2>1, Zenon DEF Announced
    <3>2. 0 \in Nat /\ Encodable(0)
      BY SMT DEF Encodable
    <3> HIDE DEF v
    <3>3. QED
      BY <3>1, <3>2, SMT
  <2>2. CASE ~f.final
    <3>1. v = LengthOf(f.nonce)
      BY <2>2 DEF Announced
    <3>2. LengthOf(f.nonce) \in Nat
      BY LengthIsNatural
    <3>3. PICK j \in DOMAIN Lengths : LengthOf(f.nonce) = Lengths[j]
      BY LengthIsNatural
    <3>4. Encodable(Lengths[j])
      BY Zenon DEF LengthsFit
    <3> HIDE DEF v
    <3>5. QED
      BY <3>1, <3>2, <3>3, <3>4, Zenon
  <2>3. QED
    BY <2>1, <2>2
<1>3. DecodeVarint(EncodeVarint(v)) = Decoded(v, Len(EncodeVarint(v)))
  BY <1>2, VarintRoundTrip, SMT
<1>4. \A n \in 0..(Len(EncodeVarint(v)) - 1) : ~DecodeVarint(SubSeq(EncodeVarint(v), 1, n)).ok
  BY <1>2, CutLengthRefused, SMT
<1> HIDE DEF v, p
<1>5. /\ Decoded(v, Len(p)).ok /\ Decoded(v, Len(p)).next = Len(p)
      /\ Decoded(v, Len(p)).value = v
  BY SMT DEF Decoded
<1>6. QED
  BY <1>1, <1>3, <1>4, <1>5, SMT DEF v, p

\* What a client reads in front of a chunk is its length and no more, and no part
\* of it passes for a length (ohttp.py 65-115).
THEOREM FramesAreRead == Spec => [](LengthsFit => FramesDecode)
<1>1. FrameInv /\ LengthsFit => FramesDecode
  <2> SUFFICES ASSUME FrameInv, LengthsFit, NEW k \in 1..Len(wire), wire[k].tag = "chunk"
               PROVE  LET p == wire[k].prefix
                          full == DecodeVarint(p)
                      IN /\ full.ok /\ full.next = Len(p)
                         /\ full.value = Announced(wire[k])
                         /\ \A n \in 0..(Len(p) - 1) : ~DecodeVarint(SubSeq(p, 1, n)).ok
    BY DEF FramesDecode, Announced
  <2>1. wire[k].prefix = EncodeVarint(Announced(wire[k]))
    BY DEF FrameInv
  <2>2. wire[k].nonce \in Nat /\ wire[k].final \in BOOLEAN
    <3>1. wire \in Seq(Frame)
      BY DEF FrameInv
    <3>2. wire[k] \in Frame
      BY <3>1
    <3>3. QED
      BY <3>2 DEF Frame
  <2>3. QED
    BY <2>1, <2>2, LengthIsRead
<1>2. QED
  BY <1>1, FrameBegins, FrameHolds, PTL DEF Spec
=============================================================================
