---------------------------- MODULE ChannelProofs ----------------------------
(***************************************************************************)
(* What a streamed answer holds: its texts and tool calls are those the       *)
(* provider sent and the signature covers, and its sealed chunks implement   *)
(* the channel a client is promised, however far the stream was read.        *)
(***************************************************************************)
EXTENDS OhttpStreamProofs, WellFoundedInduction

----------------------------------------------------------------------------
(* Induction over the naturals, as a fact about sets.                       *)

\* A set of naturals that is not empty has a least element.
LEMMA LeastNatural ==
    ASSUME NEW T \in SUBSET Nat, NEW n \in T
    PROVE  \E k \in T : \A j \in T : k <= j
<1>1. PICK k \in T : \A j \in T : ~(<<j, k>> \in OpToRel(<, Nat))
  BY NatLessThanWellFounded, WFMin, Zenon
<1>2. ASSUME NEW j \in T
      PROVE  k <= j
  <2>1. <<j, k>> \notin OpToRel(<, Nat)
    BY <1>1
  <2>2. <<j, k>> \in Nat \X Nat
    OBVIOUS
  <2>3. ~(j < k)
    BY <2>1, <2>2 DEF OpToRel
  <2>4. QED
    BY <2>3, SMT
<1>3. QED
  BY <1>2

\* A set that holds 0 and with each natural the next one holds them all.
LEMMA AllNaturals ==
    ASSUME NEW T, 0 \in T, \A n \in Nat : n \in T => n + 1 \in T
    PROVE  Nat \subseteq T
<1> SUFFICES ASSUME NEW m \in Nat \ T
             PROVE  FALSE
  OBVIOUS
<1> DEFINE Missing == Nat \ T
<1>1. Missing \in SUBSET Nat /\ m \in Missing
  OBVIOUS
<1> HIDE DEF Missing
<1>2. PICK k \in Missing : \A j \in Missing : k <= j
  BY <1>1, LeastNatural
<1> USE DEF Missing
<1>3. k # 0
  BY <1>2
<1>4. k - 1 \in Nat
  BY <1>2, <1>3, SMT
<1>5. k - 1 \in T
  BY <1>2, <1>4, SMT
<1>6. QED
  BY <1>2, <1>4, <1>5, SMT

----------------------------------------------------------------------------
(* Parts put together.                                                      *)

\* g puts the parts together one after the other, up to the n-th.
Glues(g, parts, n) ==
    g = [k \in 0..n |-> IF k = 0 THEN << >> ELSE g[k - 1] \o parts[k]]

\* The next part goes behind what the parts before it make.
LEMMA GlueGrows ==
    ASSUME NEW parts, NEW n \in Nat, NEW g, Glues(g, parts, n)
    PROVE  \E h : Glues(h, parts, n + 1)
<1> DEFINE Join(x, k) == x \o parts[k]
           h == [k \in 0..(n + 1) |-> IF k <= n THEN g[k] ELSE Join(g[n], k)]
           full == [k \in 0..(n + 1) |-> IF k = 0 THEN << >> ELSE Join(h[k - 1], k)]
<1>1. g = [k \in 0..n |-> IF k = 0 THEN << >> ELSE Join(g[k - 1], k)]
  BY DEF Glues
<1> HIDE DEF Join
<1>2. ASSUME NEW k \in 0..(n + 1)
      PROVE  h[k] = full[k]
  <2>1. CASE k = 0
    BY <1>1, <2>1, SMT
  <2>2. CASE k # 0 /\ k <= n
    <3>1. k - 1 \in 0..(n + 1) /\ k - 1 <= n /\ k \in 0..n
      BY <2>2, SMT
    <3>2. h[k - 1] = g[k - 1] /\ h[k] = g[k]
      BY <2>2, <3>1
    <3>3. g[k] = Join(g[k - 1], k)
      BY <1>1, <2>2, <3>1
    <3>4. QED
      BY <2>2, <3>2, <3>3
  <2>3. CASE k = n + 1
    <3>1. n \in 0..(n + 1) /\ k - 1 = n /\ ~(k <= n) /\ k # 0
      BY <2>3, SMT
    <3>2. h[n] = g[n] /\ h[k] = Join(g[n], k)
      BY <3>1
    <3>3. QED
      BY <3>1, <3>2
  <2>4. QED
    BY <2>1, <2>2, <2>3, SMT
<1>3. h = full
  BY <1>2, Zenon
<1>4. Glues(h, parts, n + 1)
  BY <1>3, Zenon DEF Glues, Join
<1>5. QED
  BY <1>4

\* So any number of parts can be put together.
LEMMA GlueExists ==
    ASSUME NEW parts, NEW n \in Nat
    PROVE  \E g : Glues(g, parts, n)
<1> DEFINE T == {m \in Nat : \E g : Glues(g, parts, m)}
<1>1. 0 \in T
  <2> DEFINE g == [k \in 0..0 |-> IF k = 0 THEN << >> ELSE << >>[k - 1] \o parts[k]]
             h == [k \in 0..0 |-> IF k = 0 THEN << >> ELSE g[k - 1] \o parts[k]]
  <2>1. \A k \in 0..0 : k = 0
    BY SMT
  <2>2. g = h
    BY <2>1, Zenon
  <2>3. Glues(g, parts, 0)
    BY <2>2, Zenon DEF Glues
  <2>4. QED
    BY <2>3
<1>2. \A m \in Nat : m \in T => m + 1 \in T
  BY GlueGrows
<1> HIDE DEF T
<1>3. n \in T
  BY <1>1, <1>2, AllNaturals
<1>4. QED
  BY <1>3 DEF T

\* What the same parts make is the same.
LEMMA GlueAgrees ==
    ASSUME NEW p, NEW q, NEW n \in Nat, NEW m \in Nat, n <= m, \A k \in 1..n : p[k] = q[k],
           NEW g, Glues(g, p, n), NEW h, Glues(h, q, m)
    PROVE  \A k \in 0..n : g[k] = h[k]
<1> DEFINE T == {k \in Nat : k \in 0..n => g[k] = h[k]}
           Join(x, y) == x \o y
<1>1. /\ g = [k \in 0..n |-> IF k = 0 THEN << >> ELSE Join(g[k - 1], p[k])]
      /\ h = [k \in 0..m |-> IF k = 0 THEN << >> ELSE Join(h[k - 1], q[k])]
  BY DEF Glues
<1> HIDE DEF Join
<1>2. 0 \in T
  BY <1>1, SMT
<1>3. ASSUME NEW k \in Nat, k \in T
      PROVE  k + 1 \in T
  <2> SUFFICES ASSUME k + 1 \in 0..n
               PROVE  g[k + 1] = h[k + 1]
    BY SMT
  <2>1. k \in 0..n /\ k + 1 \in 0..m /\ k + 1 # 0 /\ (k + 1) - 1 = k /\ k + 1 \in 1..n
    BY SMT
  <2>2. g[k + 1] = Join(g[k], p[k + 1])
    BY <1>1, <2>1
  <2>3. h[k + 1] = Join(h[k], q[k + 1])
    BY <1>1, <2>1
  <2>4. g[k] = h[k]
    BY <1>3, <2>1
  <2>5. p[k + 1] = q[k + 1]
    BY <2>1
  <2>6. QED
    BY <2>2, <2>3, <2>4, <2>5
<1> HIDE DEF T
<1>4. Nat \subseteq T
  BY <1>2, <1>3, AllNaturals
<1>5. \A k \in 0..n : k \in Nat
  BY SMT
<1>6. QED
  BY <1>4, <1>5, Zenon DEF T

\* Glue() puts all parts together.
LEMMA GlueIsLast ==
    ASSUME NEW parts, Len(parts) \in Nat
    PROVE  \E g : Glues(g, parts, Len(parts)) /\ Glue(parts) = g[Len(parts)]
<1> DEFINE n == Len(parts)
           g == CHOOSE f : f = [k \in 0..n |-> IF k = 0 THEN << >> ELSE f[k - 1] \o parts[k]]
<1>1. \E f : f = [k \in 0..n |-> IF k = 0 THEN << >> ELSE f[k - 1] \o parts[k]]
  BY GlueExists DEF Glues
<1>2. g = [k \in 0..n |-> IF k = 0 THEN << >> ELSE g[k - 1] \o parts[k]]
  BY <1>1, Zenon
<1>3. Glue(parts) = g[n]
  BY Zenon DEF Glue
<1>4. QED
  BY <1>2, <1>3, Zenon DEF Glues

\* No parts make nothing.
LEMMA GlueEmpty == Glue(<< >>) = << >>
<1>1. Len(<< >>) = 0
  BY SMT
<1>2. PICK g : Glues(g, << >>, 0) /\ Glue(<< >>) = g[0]
  BY <1>1, GlueIsLast, SMT
<1>3. g[0] = << >>
  BY <1>2, SMT DEF Glues
<1>4. QED
  BY <1>2, <1>3

\* A part more goes behind what there is.
LEMMA GlueAppend ==
    ASSUME NEW S, NEW parts \in Seq(S), NEW p \in S
    PROVE  Glue(Append(parts, p)) = Glue(parts) \o p
<1> DEFINE n == Len(parts)
           more == Append(parts, p)
<1>1. /\ n \in Nat /\ Len(more) = n + 1 /\ more[n + 1] = p
      /\ \A k \in 1..n : parts[k] = more[k]
  BY SMT
<1> HIDE DEF n, more
<1>2. PICK g : Glues(g, parts, n) /\ Glue(parts) = g[n]
  BY <1>1, GlueIsLast DEF n
<1>3. PICK h : Glues(h, more, n + 1) /\ Glue(more) = h[n + 1]
  <2>1. n + 1 \in Nat
    BY <1>1, SMT
  <2>2. QED
    BY <1>1, <2>1, GlueIsLast
<1>4. g[n] = h[n]
  <2>1. n + 1 \in Nat /\ n <= n + 1 /\ n \in 0..n
    BY <1>1, SMT
  <2>2. QED
    BY <1>1, <1>2, <1>3, <2>1, GlueAgrees
<1>5. h[n + 1] = h[n] \o more[n + 1]
  <2> DEFINE Join(x, y) == x \o y
  <2>1. h = [k \in 0..(n + 1) |-> IF k = 0 THEN << >> ELSE Join(h[k - 1], more[k])]
    BY <1>3 DEF Glues
  <2> HIDE DEF Join
  <2>2. n + 1 \in 0..(n + 1) /\ n + 1 # 0 /\ (n + 1) - 1 = n
    BY <1>1, SMT
  <2>3. h[n + 1] = Join(h[n], more[n + 1])
    BY <2>1, <2>2
  <2>4. QED
    BY <2>3 DEF Join
<1>6. QED
  BY <1>1, <1>2, <1>3, <1>4, <1>5, Zenon DEF more

\* The same parts and one more.
LEMMA PartsGrow ==
    ASSUME NEW S, NEW P \in Seq(S), NEW Q \in Seq(S), Len(Q) = Len(P) + 1,
           \A k \in 1..Len(P) : Q[k] = P[k]
    PROVE  Glue(Q) = Glue(P) \o Q[Len(P) + 1]
<1> DEFINE n == Len(P)
           v == Q[n + 1]
<1>1. n \in Nat /\ v \in S
  BY SMT
<1>2. Append(P, v) \in Seq(S) /\ Len(Append(P, v)) = Len(Q)
  BY <1>1, SMT
<1>3. \A k \in 1..Len(Q) : Q[k] = Append(P, v)[k]
  BY <1>1, SMT
<1>4. Q = Append(P, v)
  BY <1>2, <1>3, SeqEqual
<1>5. QED
  BY <1>1, <1>4, GlueAppend

\* A yield adds to the text or to one of the calls, or to neither.
LEMMA YieldGrows ==
    ASSUME events \in Seq(Event), NEW k \in Kinds, NEW c \in Calls \cup {0}, NEW s \in Seq(Nat),
           Yield(k, c, s)
    PROVE  /\ TextOf(events') = TextOf(events) \o (IF k = "text" THEN s ELSE << >>)
           /\ \A i \in Calls : PiecesOf(events', i)
                = PiecesOf(events, i) \o (IF k = "call" /\ c = i THEN s ELSE << >>)
<1> DEFINE e == [kind |-> k, call |-> c, pieces |-> s]
           l == Len(events)
<1>1. e \in Event /\ e.kind = k /\ e.call = c /\ e.pieces = s
  BY DEF Event
<1>2. events' = Append(events, e)
  BY DEF Yield
<1> HIDE DEF e
<1>3. /\ events' \in Seq(Event) /\ l \in Nat /\ Len(events') = l + 1 /\ events'[l + 1] = e
      /\ \A n \in 1..l : events'[n] = events[n]
  BY <1>1, <1>2, SMT
<1>4. \A x \in Event : x.pieces \in Seq(Nat)
  BY DEF Event
<1>5. << >> \in Seq(Nat)
  BY SMT
<1> HIDE DEF l
<1>6. ASSUME NEW w \in Seq(Event), NEW n \in 1..Len(w)
      PROVE  w[n] \in Event
  BY <1>6, SMT
<1>7. TextOf(events') = TextOf(events) \o (IF k = "text" THEN s ELSE << >>)
  <2> DEFINE part(x) == IF x.kind = "text" THEN x.pieces ELSE << >>
             parts(w) == [n \in 1..Len(w) |-> part(w[n])]
  <2>1. \A w : TextOf(w) = Glue(parts(w))
    BY Zenon DEF TextOf
  <2>2. \A x \in Event : part(x) \in Seq(Nat)
    BY <1>4, <1>5
  <2>3. part(e) = IF k = "text" THEN s ELSE << >>
    BY <1>1
  <2> HIDE DEF part
  <2>4. ASSUME NEW w \in Seq(Event)
        PROVE  /\ parts(w) \in Seq(Seq(Nat)) /\ Len(parts(w)) = Len(w)
               /\ \A n \in 1..Len(w) : parts(w)[n] = part(w[n])
    BY <1>6, <2>2, SMT
  <2> HIDE DEF parts
  <2>5. ASSUME NEW n \in 1..l
        PROVE  parts(events')[n] = parts(events)[n]
    <3>1. n \in 1..Len(events) /\ n \in 1..Len(events')
      BY <1>3, SMT DEF l
    <3>2. parts(events')[n] = part(events'[n]) /\ parts(events)[n] = part(events[n])
      BY <1>3, <2>4, <3>1
    <3>3. QED
      BY <1>3, <3>2
  <2>6. parts(events')[l + 1] = part(e)
    <3>1. l + 1 \in 1..Len(events')
      BY <1>3, SMT
    <3>2. parts(events')[l + 1] = part(events'[l + 1])
      BY <1>3, <2>4, <3>1
    <3>3. QED
      BY <1>3, <3>2
  <2>7. Glue(parts(events')) = Glue(parts(events)) \o parts(events')[l + 1]
    <3>1. parts(events) \in Seq(Seq(Nat)) /\ Len(parts(events)) = l
      BY <2>4 DEF l
    <3>2. parts(events') \in Seq(Seq(Nat)) /\ Len(parts(events')) = l + 1
      BY <1>3, <2>4
    <3>3. QED
      BY <2>5, <3>1, <3>2, PartsGrow
  <2>8. QED
    BY <2>1, <2>3, <2>6, <2>7, Zenon
<1>8. ASSUME NEW i \in Calls
      PROVE  PiecesOf(events', i)
             = PiecesOf(events, i) \o (IF k = "call" /\ c = i THEN s ELSE << >>)
  <2> DEFINE part(x) == IF x.kind = "call" /\ x.call = i THEN x.pieces ELSE << >>
             parts(w) == [n \in 1..Len(w) |-> part(w[n])]
  <2>1. \A w : PiecesOf(w, i) = Glue(parts(w))
    BY Zenon DEF PiecesOf
  <2>2. \A x \in Event : part(x) \in Seq(Nat)
    BY <1>4, <1>5
  <2>3. part(e) = IF k = "call" /\ c = i THEN s ELSE << >>
    BY <1>1
  <2> HIDE DEF part
  <2>4. ASSUME NEW w \in Seq(Event)
        PROVE  /\ parts(w) \in Seq(Seq(Nat)) /\ Len(parts(w)) = Len(w)
               /\ \A n \in 1..Len(w) : parts(w)[n] = part(w[n])
    BY <1>6, <2>2, SMT
  <2> HIDE DEF parts
  <2>5. ASSUME NEW n \in 1..l
        PROVE  parts(events')[n] = parts(events)[n]
    <3>1. n \in 1..Len(events) /\ n \in 1..Len(events')
      BY <1>3, SMT DEF l
    <3>2. parts(events')[n] = part(events'[n]) /\ parts(events)[n] = part(events[n])
      BY <1>3, <2>4, <3>1
    <3>3. QED
      BY <1>3, <3>2
  <2>6. parts(events')[l + 1] = part(e)
    <3>1. l + 1 \in 1..Len(events')
      BY <1>3, SMT
    <3>2. parts(events')[l + 1] = part(events'[l + 1])
      BY <1>3, <2>4, <3>1
    <3>3. QED
      BY <1>3, <3>2
  <2>7. Glue(parts(events')) = Glue(parts(events)) \o parts(events')[l + 1]
    <3>1. parts(events) \in Seq(Seq(Nat)) /\ Len(parts(events)) = l
      BY <2>4 DEF l
    <3>2. parts(events') \in Seq(Seq(Nat)) /\ Len(parts(events')) = l + 1
      BY <1>3, <2>4
    <3>3. QED
      BY <2>5, <3>1, <3>2, PartsGrow
  <2>8. QED
    BY <2>1, <2>3, <2>6, <2>7, Zenon
<1>9. QED
  BY <1>7, <1>8

\* The pieces that have been sent, in their order.
Upto(n) == [k \in 1..n |-> k]

\* Sent in turn, each piece makes the sequence one longer.
LEMMA UptoGrows ==
    ASSUME NEW n \in Nat
    PROVE  /\ Upto(n) \in Seq(Nat) /\ (n = 0 <=> Upto(n) = << >>)
           /\ Append(Upto(n), n + 1) = Upto(n + 1)
           /\ Upto(n) \o <<n + 1>> = Upto(n + 1)
           /\ Upto(n) \o << >> = Upto(n) /\ << >> \o Upto(n) = Upto(n)
<1> DEFINE u == Upto(n)
           m == n + 1
<1>1. /\ u \in Seq(Nat) /\ Len(u) = n /\ (\A k \in 1..n : u[k] = k)
      /\ (n = 0 <=> u = << >>)
  BY SMT DEF Upto
<1>2. /\ Upto(m) \in Seq(Nat) /\ Len(Upto(m)) = m /\ (\A k \in 1..m : Upto(m)[k] = k)
  BY SMT DEF Upto
<1>3. m \in Nat
  BY SMT
<1> HIDE DEF u
<1>4. Append(u, m) = Upto(m)
  <2>1. Append(u, m) \in Seq(Nat) /\ Len(Append(u, m)) = m
        /\ \A k \in 1..m : Append(u, m)[k] = k
    BY <1>1, SMT
  <2>2. QED
    BY <1>2, <2>1, SeqEqual
<1>5. Append(u, m) = u \o <<m>>
  BY <1>1, <1>3, AppendIsConcat
<1>6. u \o << >> = u /\ << >> \o u = u
  BY <1>1, ConcatEmptySeq
<1>7. QED
  BY <1>1, <1>4, <1>5, <1>6, Zenon DEF u

----------------------------------------------------------------------------
(* The content.                                                             *)

\* The call i has been flushed.
Given(i) == \E k \in 1..flushed : order[k] = i

TextInv ==
    /\ content = Upto(said)
    /\ TextOf(events) = Upto(said)
    /\ gen = "invoke" => said = 0

\* What is kept of the calls: each one that has begun, once, in full.
OrderInv ==
    /\ buffer = [i \in Calls |-> Upto(asked[i])]
    /\ \A k, l \in 1..Len(order) : order[k] = order[l] => k = l
    /\ \A i \in Calls : asked[i] > 0 <=> \E k \in 1..Len(order) : order[k] = i
    /\ flushed <= Len(order)
    /\ gen = "invoke" => order = << >>

\* What has been relayed of them: buffered ones when they are flushed, the
\* others piece by piece.
PiecesInv ==
    /\ \A i \in Calls :
          PiecesOf(events, i) = IF provider = "buffered" /\ ~Given(i) THEN << >> ELSE Upto(asked[i])
    /\ gen = "flush" => provider = "buffered"
    /\ gen = "sign" /\ provider = "buffered" => flushed = Len(order)

SignedInv ==
    Finished => signed = Output /\ (provider = "buffered" => flushed = Len(order))

ContentInv == TextInv /\ OrderInv /\ PiecesInv /\ SignedInv

\* An event that is no text leaves the text alone, one that is no call the calls.
LEMMA OthersKept ==
    ASSUME EndInv, ContentInv,
           NEW k \in Kinds, NEW c \in Calls \cup {0}, NEW s \in Seq(Nat), Yield(k, c, s)
    PROVE  /\ k # "text" => TextOf(events') = TextOf(events)
           /\ \A i \in Calls : k # "call" \/ c # i => PiecesOf(events', i) = PiecesOf(events, i)
<1>1. /\ TextOf(events') = TextOf(events) \o (IF k = "text" THEN s ELSE << >>)
      /\ \A i \in Calls : PiecesOf(events', i)
           = PiecesOf(events, i) \o (IF k = "call" /\ c = i THEN s ELSE << >>)
  BY YieldGrows DEF EndInv, StreamTypes
<1>2. said \in Nat /\ \A i \in Calls : asked[i] \in Nat
  BY DEF EndInv, StreamTypes
<1>3. TextOf(events) \in Seq(Nat)
  BY <1>2, UptoGrows DEF ContentInv, TextInv
<1>4. ASSUME NEW i \in Calls
      PROVE  PiecesOf(events, i) \in Seq(Nat)
  <2>1. Upto(asked[i]) \in Seq(Nat)
    BY <1>2, UptoGrows
  <2>2. << >> \in Seq(Nat)
    BY SMT
  <2>3. QED
    BY <2>1, <2>2 DEF ContentInv, PiecesInv
<1>5. k # "text" => TextOf(events') = TextOf(events)
  BY <1>1, <1>3, ConcatEmptySeq
<1>6. ASSUME NEW i \in Calls, k # "call" \/ c # i
      PROVE  PiecesOf(events', i) = PiecesOf(events, i)
  <2>1. PiecesOf(events', i) = PiecesOf(events, i) \o << >>
    BY <1>1, <1>6
  <2>2. QED
    BY <1>4, <2>1, ConcatEmptySeq
<1>7. QED
  BY <1>5, <1>6

\* The calls stay in order when none is asked for.
LEMMA OrderKept ==
    ASSUME OrderInv, buffer' = buffer, asked' = asked, order' = order,
           flushed' <= Len(order'), gen' # "invoke"
    PROVE  OrderInv'
  BY Zenon DEF OrderInv

\* A piece of text is kept and relayed behind those before it.
LEMMA TextHolds == ASSUME EndInv, EndInv', ContentInv, TextChunk PROVE ContentInv'
<1>1. /\ gen = "pull" /\ said' = said + 1 /\ content' = Append(content, said')
      /\ Yield("text", 0, <<said'>>)
      /\ UNCHANGED <<provider, asked, buffer, order, flushed, gen>>
  BY Zenon DEF TextChunk, Runs
<1>2. said \in Nat /\ events \in Seq(Event) /\ said' \in Nat
  BY <1>1, SMT DEF EndInv, StreamTypes
<1>3. "text" \in Kinds /\ 0 \in Calls \cup {0} /\ <<said'>> \in Seq(Nat)
  BY <1>2, SMT DEF Kinds
<1>4. TextOf(events') = Upto(said) \o <<said'>>
  <2>1. TextOf(events') = TextOf(events) \o <<said'>>
    BY <1>1, <1>2, <1>3, YieldGrows
  <2>2. QED
    BY <2>1 DEF ContentInv, TextInv
<1>5. \A i \in Calls : PiecesOf(events', i) = PiecesOf(events, i)
  BY <1>1, <1>3, OthersKept
<1>6. TextInv'
  <2>1. TextOf(events') = Upto(said') /\ content' = Upto(said')
    BY <1>1, <1>2, <1>4, UptoGrows DEF ContentInv, TextInv
  <2>2. gen' # "invoke"
    BY <1>1
  <2>3. QED
    BY <2>1, <2>2, Zenon DEF TextInv
<1>7. OrderInv'
  <2>1. OrderInv /\ flushed <= Len(order)
    BY Zenon DEF ContentInv, OrderInv
  <2>2. flushed' <= Len(order') /\ gen' # "invoke"
    BY <1>1, <2>1
  <2>3. QED
    BY <1>1, <2>1, <2>2, OrderKept
<1>8. PiecesInv'
  BY <1>1, <1>5, Zenon DEF ContentInv, PiecesInv, Given
<1>9. SignedInv'
  BY <1>1, StillUnfinished DEF SignedInv
<1>10. QED
  BY <1>6, <1>7, <1>8, <1>9 DEF ContentInv

\* A piece of a call is kept behind those before it, and relayed unless the
\* calls are buffered.
LEMMA CallHolds ==
    ASSUME EndInv, EndInv', ContentInv, NEW i \in Calls, CallChunk(i)
    PROVE  ContentInv'
<1> DEFINE n == asked[i]
<1>1. /\ gen = "pull" /\ asked' = [asked EXCEPT ![i] = n + 1]
      /\ KeepPiece(i, asked'[i])
      /\ UNCHANGED <<provider, said, content, flushed, gen>>
      /\ IF provider = "buffered" THEN UNCHANGED events ELSE Yield("call", i, <<asked'[i]>>)
  BY Zenon DEF CallChunk, Runs
<1>2. /\ n \in Nat /\ asked \in [Calls -> Nat] /\ events \in Seq(Event) /\ order \in Seq(Calls)
      /\ flushed = 0 /\ asked' \in [Calls -> Nat]
  BY <1>1 DEF EndInv, StreamTypes
<1>3. asked'[i] = n + 1 /\ \A j \in Calls : j # i => asked'[j] = asked[j]
  BY <1>1, <1>2
<1> HIDE DEF n
<1>4. TextInv'
  <2>1. TextOf(events') = TextOf(events)
    <3>1. CASE events' = events
      BY <3>1
    <3>2. CASE Yield("call", i, <<asked'[i]>>)
      <4>1. "call" \in Kinds /\ i \in Calls \cup {0} /\ <<asked'[i]>> \in Seq(Nat) /\ "call" # "text"
        BY <1>2, <1>3, SMT DEF Kinds
      <4>2. QED
        BY <3>2, <4>1, OthersKept
    <3>3. QED
      BY <1>1, <3>1, <3>2
  <2>2. QED
    BY <1>1, <2>1, Zenon DEF ContentInv, TextInv
<1>5. OrderInv'
  <2>1. /\ buffer = [j \in Calls |-> Upto(asked[j])]
        /\ \A k, l \in 1..Len(order) : order[k] = order[l] => k = l
        /\ \A j \in Calls : asked[j] > 0 <=> \E k \in 1..Len(order) : order[k] = j
    BY DEF ContentInv, OrderInv
  <2>2. buffer[i] = Upto(n)
    BY <2>1 DEF n
  <2>3. buffer[i] = << >> <=> n = 0
    BY <1>2, <2>2, UptoGrows
  <2>4. buffer' = [buffer EXCEPT ![i] = Append(buffer[i], n + 1)]
    BY <1>1, <1>3, Zenon DEF KeepPiece
  <2>5. buffer' = [j \in Calls |-> Upto(asked'[j])]
    <3>1. Append(buffer[i], n + 1) = Upto(asked'[i])
      BY <1>2, <1>3, <2>2, UptoGrows
    <3>2. buffer' = [j \in Calls |-> IF j = i THEN Append(buffer[i], n + 1) ELSE buffer[j]]
      BY <2>1, <2>4
    <3>3. \A j \in Calls : j # i => buffer[j] = Upto(asked'[j])
      BY <1>3, <2>1
    <3>4. QED
      BY <3>1, <3>2, <3>3, Zenon
  <2>6. CASE n = 0
    <3> DEFINE l == Len(order)
    <3>1. order' = Append(order, i)
      BY <1>1, <2>3, <2>6 DEF KeepPiece
    <3>2. \A k \in 1..l : order[k] # i
      BY <2>1, <2>6 DEF n
    <3>3. l \in Nat /\ Len(order') = l + 1 /\ order'[l + 1] = i
          /\ \A k \in 1..l : order'[k] = order[k]
      BY <1>2, <3>1, SMT
    <3>4. \A k \in 1..(l + 1) : k \in 1..l \/ k = l + 1
      BY <3>3, SMT
    <3>5. \A k, m \in 1..Len(order') : order'[k] = order'[m] => k = m
      BY <2>1, <3>2, <3>3, <3>4
    <3>6. ASSUME NEW j \in Calls
          PROVE  asked'[j] > 0 <=> \E k \in 1..Len(order') : order'[k] = j
      <4>1. CASE j = i
        <5>1. asked'[j] > 0
          BY <1>2, <1>3, <4>1, SMT
        <5>2. l + 1 \in 1..Len(order')
          BY <3>3, SMT
        <5>3. QED
          BY <3>3, <4>1, <5>1, <5>2
      <4>2. CASE j # i
        <5>1. asked'[j] > 0 <=> \E k \in 1..l : order[k] = j
          BY <1>3, <2>1, <4>2
        <5>2. (\E k \in 1..l : order[k] = j) <=> \E k \in 1..Len(order') : order'[k] = j
          <6>1. \A k \in 1..l : k \in 1..Len(order')
            BY <3>3, SMT
          <6>2. QED
            BY <3>3, <3>4, <4>2, <6>1
        <5>3. QED
          BY <5>1, <5>2
      <4>3. QED
        BY <4>1, <4>2
    <3>7. flushed' <= Len(order') /\ gen' # "invoke"
      BY <1>1, <1>2, <3>3, SMT
    <3>8. QED
      BY <2>5, <3>5, <3>6, <3>7, Zenon DEF OrderInv
  <2>7. CASE n # 0
    <3>1. order' = order
      BY <1>1, <2>3, <2>7 DEF KeepPiece
    <3>2. asked[i] > 0 /\ asked'[i] > 0
      BY <1>2, <1>3, <2>7, SMT DEF n
    <3>3. \A j \in Calls : asked'[j] > 0 <=> asked[j] > 0
      BY <1>3, <3>2
    <3>4. \A j \in Calls : asked'[j] > 0 <=> \E k \in 1..Len(order') : order'[k] = j
      BY <2>1, <3>1, <3>3
    <3>5. flushed' <= Len(order') /\ gen' # "invoke"
      BY <1>1, <3>1 DEF ContentInv, OrderInv
    <3>6. QED
      BY <2>1, <2>5, <3>1, <3>4, <3>5, Zenon DEF OrderInv
  <2>8. QED
    BY <2>6, <2>7
<1>6. PiecesInv'
  <2>1. \A j \in Calls : ~Given(j) /\ ~Given(j)'
    BY <1>1, <1>2, SMT DEF Given
  <2>2. ASSUME NEW j \in Calls
        PROVE  PiecesOf(events', j) = IF provider = "buffered" THEN << >> ELSE Upto(asked'[j])
    <3>1. PiecesOf(events, j) = IF provider = "buffered" THEN << >> ELSE Upto(asked[j])
      BY <2>1 DEF ContentInv, PiecesInv
    <3>2. CASE provider = "buffered"
      BY <1>1, <3>1, <3>2
    <3>3. CASE provider # "buffered"
      <4>1. Yield("call", i, <<asked'[i]>>)
        BY <1>1, <3>3
      <4>2. "call" \in Kinds /\ i \in Calls \cup {0} /\ <<asked'[i]>> \in Seq(Nat)
        BY <1>2, <1>3, SMT DEF Kinds
      <4>3. CASE j = i
        <5>1. PiecesOf(events', j) = PiecesOf(events, j) \o <<asked'[i]>>
          BY <1>2, <4>1, <4>2, <4>3, YieldGrows
        <5>2. PiecesOf(events', j) = Upto(n) \o <<n + 1>>
          BY <1>3, <3>1, <3>3, <4>3, <5>1 DEF n
        <5>3. QED
          BY <1>2, <1>3, <3>3, <4>3, <5>2, UptoGrows
      <4>4. CASE j # i
        <5>1. PiecesOf(events', j) = PiecesOf(events, j)
          BY <4>1, <4>2, <4>4, OthersKept
        <5>2. QED
          BY <1>3, <3>1, <4>4, <5>1
      <4>5. QED
        BY <4>3, <4>4
    <3>4. QED
      BY <3>2, <3>3
  <2>3. provider' = provider /\ gen' = "pull"
    BY <1>1
  <2>4. QED
    BY <2>1, <2>2, <2>3, Zenon DEF PiecesInv
<1>7. SignedInv'
  BY <1>1, StillUnfinished DEF SignedInv
<1>8. QED
  BY <1>4, <1>5, <1>6, <1>7 DEF ContentInv

\* What neither sends nor relays anything keeps the content.
LEMMA ContentKept ==
    ASSUME ContentInv, UNCHANGED <<provider, said, asked, content, buffer, order, flushed>>,
           TextOf(events') = TextOf(events),
           \A i \in Calls : PiecesOf(events', i) = PiecesOf(events, i),
           gen' = "invoke" => gen = "invoke", gen' = "flush" => provider = "buffered",
           gen' = "sign" /\ provider = "buffered" => flushed = Len(order)
    PROVE  TextInv' /\ OrderInv' /\ PiecesInv'
<1>1. TextInv'
  BY Zenon DEF ContentInv, TextInv
<1>2. OrderInv'
  <2>1. gen' = "invoke" => order' = << >>
    BY DEF ContentInv, OrderInv
  <2>2. QED
    BY <2>1, Zenon DEF ContentInv, OrderInv
<1>3. PiecesInv'
  <2>1. \A i \in Calls : Given(i)' <=> Given(i)
    BY DEF Given
  <2>2. \A i \in Calls : PiecesOf(events', i)
           = IF provider = "buffered" /\ ~Given(i) THEN << >> ELSE Upto(asked[i])
    BY Zenon DEF ContentInv, PiecesInv
  <2>3. QED
    BY <2>1, <2>2, Zenon DEF PiecesInv
<1>4. QED
  BY <1>1, <1>2, <1>3

\* An answer that is not streamed is one text, or none.
LEMMA InvokeHolds ==
    ASSUME EndInv, EndInv', ContentInv, NEW d \in 0..MaxUsage, InvokeOnce(d)
    PROVE  ContentInv'
<1>1. /\ gen = "invoke" /\ gen' = "sign" /\ UNCHANGED <<provider, asked, buffer, order, flushed>>
      /\ \/ said' = 1 /\ content' = <<1>> /\ Yield("text", 0, <<1>>)
         \/ UNCHANGED <<said, content, events>>
  BY Zenon DEF InvokeOnce, Runs
<1>2. said = 0 /\ order = << >> /\ events \in Seq(Event)
  BY <1>1 DEF ContentInv, TextInv, OrderInv, EndInv, StreamTypes
<1>3. flushed = Len(order)
  BY <1>2, SMT DEF ContentInv, OrderInv, EndInv, StreamTypes
<1>4. TextInv' /\ \A i \in Calls : PiecesOf(events', i) = PiecesOf(events, i)
  <2>1. CASE said' = 1 /\ content' = <<1>> /\ Yield("text", 0, <<1>>)
    <3>1. "text" \in Kinds /\ 0 \in Calls \cup {0} /\ <<1>> \in Seq(Nat)
      BY SMT DEF Kinds
    <3>2. TextOf(events') = TextOf(events) \o <<1>>
      BY <1>2, <2>1, <3>1, YieldGrows
    <3>3. TextOf(events) = Upto(0)
      BY <1>2 DEF ContentInv, TextInv
    <3>4. 0 \in Nat /\ 0 + 1 = 1
      BY SMT
    <3>5. Upto(0) = << >> /\ Upto(0) \o <<0 + 1>> = Upto(0 + 1)
          /\ Append(Upto(0), 0 + 1) = Upto(0 + 1)
      BY <3>4, UptoGrows
    <3>6. Append(<< >>, 1) = <<1>>
      BY SMT
    <3>7. TextInv'
      BY <1>1, <2>1, <3>2, <3>3, <3>4, <3>5, <3>6, Zenon DEF TextInv
    <3>8. \A i \in Calls : PiecesOf(events', i) = PiecesOf(events, i)
      BY <2>1, <3>1, OthersKept
    <3>9. QED
      BY <3>7, <3>8
  <2>2. CASE UNCHANGED <<said, content, events>>
    BY <1>1, <2>2, Zenon DEF ContentInv, TextInv
  <2>3. QED
    BY <1>1, <2>1, <2>2
<1>5. OrderInv'
  <2>1. OrderInv /\ flushed <= Len(order)
    BY Zenon DEF ContentInv, OrderInv
  <2>2. flushed' <= Len(order') /\ gen' # "invoke"
    BY <1>1, <2>1
  <2>3. QED
    BY <1>1, <2>1, <2>2, OrderKept
<1>6. PiecesInv'
  BY <1>1, <1>3, <1>4, Zenon DEF ContentInv, PiecesInv, Given
<1>7. SignedInv'
  BY <1>1, StillUnfinished DEF SignedInv
<1>8. QED
  BY <1>4, <1>5, <1>6, <1>7 DEF ContentInv

\* A buffered call goes out whole, and no call twice.
LEMMA CallGoesOut == ASSUME EndInv, EndInv', ContentInv, Flush PROVE ContentInv'
<1> DEFINE n == flushed + 1
           i == order[n]
<1>1. /\ gen = "flush" /\ flushed' = n /\ Yield("call", i, buffer[i])
      /\ gen' = IF n = Len(order) THEN "sign" ELSE "flush"
      /\ UNCHANGED <<provider, said, asked, content, buffer, order>>
  BY Zenon DEF Flush, Runs, sourceVars
<1>2. /\ events \in Seq(Event) /\ order \in Seq(Calls) /\ flushed \in Nat
      /\ flushed < Len(order) /\ provider = "buffered" /\ asked \in [Calls -> Nat]
  BY <1>1 DEF EndInv, StreamTypes, ContentInv, PiecesInv
<1>3. n \in 1..Len(order) /\ n \notin 1..flushed /\ i \in Calls
      /\ \A k : k \in 1..n <=> k \in 1..flushed \/ k = n
  BY <1>2, SMT
<1>4. buffer[i] = Upto(asked[i])
  BY <1>3 DEF ContentInv, OrderInv
<1>5. buffer[i] \in Seq(Nat)
  BY <1>2, <1>3, <1>4, UptoGrows
<1>6. "call" \in Kinds /\ i \in Calls \cup {0} /\ "call" # "text"
  BY <1>3 DEF Kinds
<1> HIDE DEF n, i
<1>7. TextInv'
  <2>1. TextOf(events') = TextOf(events)
    BY <1>1, <1>5, <1>6, OthersKept
  <2>2. gen' # "invoke"
    BY <1>1
  <2>3. QED
    BY <1>1, <2>1, <2>2, Zenon DEF ContentInv, TextInv
<1>8. OrderInv'
  <2>1. flushed' <= Len(order') /\ gen' # "invoke"
    BY <1>1, <1>3, SMT
  <2>2. OrderInv
    BY DEF ContentInv
  <2>3. QED
    BY <1>1, <2>1, <2>2, OrderKept
<1>9. ASSUME NEW j \in Calls
      PROVE  PiecesOf(events', j) = IF Given(j)' THEN Upto(asked[j]) ELSE << >>
  <2>1. PiecesOf(events, j) = IF Given(j) THEN Upto(asked[j]) ELSE << >>
    BY <1>2 DEF ContentInv, PiecesInv
  <2>2. CASE j = i
    <3>1. ~Given(j)
      <4>1. ASSUME NEW k \in 1..flushed, order[k] = i
            PROVE  FALSE
        <5>1. k \in 1..Len(order)
          BY <1>2, SMT
        <5>2. k = n
          BY <1>3, <4>1, <5>1 DEF ContentInv, OrderInv, i
        <5>3. QED
          BY <1>3, <5>2
      <4>2. QED
        BY <2>2, <4>1 DEF Given
    <3>2. Given(j)'
      BY <1>1, <1>3, <2>2 DEF Given, i
    <3>3. PiecesOf(events', j) = PiecesOf(events, j) \o buffer[i]
      BY <1>1, <1>2, <1>5, <1>6, <2>2, YieldGrows
    <3>4. PiecesOf(events', j) = << >> \o Upto(asked[j])
      BY <1>4, <2>1, <2>2, <3>1, <3>3
    <3>5. QED
      BY <1>2, <3>2, <3>4, UptoGrows
  <2>3. CASE j # i
    <3>1. PiecesOf(events', j) = PiecesOf(events, j)
      BY <1>1, <1>5, <1>6, <2>3, OthersKept
    <3>2. Given(j)' <=> Given(j)
      BY <1>1, <1>3, <2>3 DEF Given, i
    <3>3. QED
      BY <2>1, <3>1, <3>2
  <2>4. QED
    BY <2>2, <2>3
<1>10. PiecesInv'
  BY <1>1, <1>2, <1>9, Zenon DEF PiecesInv
<1>11. SignedInv'
  BY <1>1, StillUnfinished DEF SignedInv
<1>12. QED
  BY <1>7, <1>8, <1>10, <1>11 DEF ContentInv

\* The events that end a stream relay nothing more.
LEMMA EndKeepsContent ==
    ASSUME EndInv, EndInv', ContentInv, SignFinal \/ SayDone \/ Break
    PROVE  ContentInv'
<1>1. UNCHANGED <<provider, said, asked, content, buffer, order, flushed>>
  BY Zenon DEF SignFinal, SayDone, Break, sourceVars, keptVars
<1>2. \E k \in {"final", "done", "error"} : Yield(k, 0, << >>)
  BY Zenon DEF SignFinal, SayDone, Break
<1>3. /\ TextOf(events') = TextOf(events)
      /\ \A i \in Calls : PiecesOf(events', i) = PiecesOf(events, i)
  <2>1. PICK k \in {"final", "done", "error"} : Yield(k, 0, << >>)
    BY <1>2
  <2>2. k \in Kinds /\ 0 \in Calls \cup {0} /\ << >> \in Seq(Nat) /\ k \notin {"text", "call"}
    BY SMT DEF Kinds
  <2>3. QED
    BY <2>1, <2>2, OthersKept
<1>4. gen' \in {"done", "over"} /\ gen' \notin {"invoke", "flush", "sign"}
  BY DEF SignFinal, SayDone, Break
<1>5. TextInv' /\ OrderInv' /\ PiecesInv'
  BY <1>1, <1>3, <1>4, ContentKept
<1>6. Output' = Output
  BY <1>1 DEF Output
<1>7. SignedInv'
  <2>1. CASE SignFinal
    <3>1. gen = "sign" /\ signed' = Output
      BY <2>1, Zenon DEF SignFinal, Runs
    <3>2. provider = "buffered" => flushed = Len(order)
      BY <3>1 DEF ContentInv, PiecesInv
    <3>3. QED
      BY <1>1, <1>6, <3>1, <3>2, Zenon DEF SignedInv
  <2>2. CASE SayDone
    <3>1. gen = "done" /\ signed' = signed
      BY <2>2, Zenon DEF SayDone, Runs, frameVars
    <3>2. Len(events) \in 1..Len(events) /\ events[Len(events)].kind = "final"
      BY <3>1, SMT DEF EndInv, StreamTypes
    <3>3. Finished
      BY <3>2, Zenon DEF Finished
    <3>4. QED
      BY <1>1, <1>6, <3>1, <3>3, Zenon DEF ContentInv, SignedInv
  <2>3. CASE Break
    <3>1. Yield("error", 0, << >>) /\ events \in Seq(Event)
      BY <2>3 DEF Break, EndInv, StreamTypes
    <3>2. "error" \in Kinds /\ 0 \in Calls \cup {0} /\ << >> \in Seq(Nat)
      BY SMT DEF Kinds
    <3>3. Len(events') = Len(events) + 1 /\ events'[Len(events) + 1].kind = "error"
      BY <3>1, <3>2, YieldAppends
    <3>4. Len(events) + 1 \in 1..Len(events')
      BY <3>1, <3>3, SMT
    <3>5. ~Finished'
      BY <3>3, <3>4, Zenon DEF EndInv, EndsOnce
    <3>6. QED
      BY <3>5, Zenon DEF SignedInv
  <2>4. QED
    BY <2>1, <2>2, <2>3
<1>8. QED
  BY <1>5, <1>7 DEF ContentInv

\* A stream begins with nothing said, kept or relayed.
LEMMA ContentBegins == Init => ContentInv
<1> SUFFICES ASSUME Init
             PROVE  ContentInv
  OBVIOUS
<1>1. /\ said = 0 /\ asked = [i \in Calls |-> 0] /\ content = << >> /\ order = << >>
      /\ buffer = [i \in Calls |-> << >>] /\ flushed = 0 /\ events = << >>
      /\ gen \in {"pull", "invoke", "sign"}
  BY DEF Init, ChatInit
<1>2. Upto(0) = << >>
  <2>1. 0 \in Nat
    BY SMT
  <2>2. QED
    BY <2>1, UptoGrows
<1>3. Len(order) = 0 /\ Len(events) = 0 /\ ~(0 > 0) /\ 0 <= 0
  BY <1>1, SMT
<1>4. \A k \in 1..0 : FALSE
  BY SMT
<1>5. TextOf(events) = << >> /\ \A i \in Calls : PiecesOf(events, i) = << >>
  <2>1. ASSUME NEW P, P = [k \in 1..0 |-> P[k]]
        PROVE  Glue(P) = << >>
    <3>1. P = << >>
      BY <2>1, SMT
    <3>2. QED
      BY <3>1, GlueEmpty
  <2>2. ASSUME NEW i
        PROVE  PiecesOf(events, i) = << >>
    <3> DEFINE P == [k \in 1..Len(events) |->
                        IF events[k].kind = "call" /\ events[k].call = i
                        THEN events[k].pieces ELSE << >>]
    <3>1. P = [k \in 1..0 |-> P[k]]
      BY <1>3, Zenon
    <3>2. PiecesOf(events, i) = Glue(P)
      BY Zenon DEF PiecesOf
    <3> HIDE DEF P
    <3>3. QED
      BY <2>1, <3>1, <3>2
  <2>3. TextOf(events) = << >>
    <3> DEFINE P == [k \in 1..Len(events) |->
                        IF events[k].kind = "text" THEN events[k].pieces ELSE << >>]
    <3>1. P = [k \in 1..0 |-> P[k]]
      BY <1>3, Zenon
    <3>2. TextOf(events) = Glue(P)
      BY Zenon DEF TextOf
    <3> HIDE DEF P
    <3>3. QED
      BY <2>1, <3>1, <3>2
  <2>4. QED
    BY <2>2, <2>3
<1>6. TextInv
  BY <1>1, <1>2, <1>5, Zenon DEF TextInv
<1>7. OrderInv
  <2>1. buffer = [i \in Calls |-> Upto(asked[i])]
    BY <1>1, <1>2
  <2>2. \A i \in Calls : ~(asked[i] > 0)
    BY <1>1, <1>3
  <2>3. QED
    BY <1>1, <1>3, <1>4, <2>1, <2>2, Zenon DEF OrderInv
<1>8. PiecesInv
  <2>1. \A i \in Calls : Upto(asked[i]) = << >>
    BY <1>1, <1>2
  <2>2. gen # "flush"
    BY <1>1
  <2>3. QED
    BY <1>1, <1>3, <1>5, <2>1, <2>2, Zenon DEF PiecesInv
<1>9. SignedInv
  BY <1>3, <1>4, Zenon DEF SignedInv, Finished
<1>10. QED
  BY <1>6, <1>7, <1>8, <1>9 DEF ContentInv

\* Every step keeps what was said, kept, relayed and signed together.
LEMMA ContentHolds == EndInv /\ EndInv' /\ ContentInv /\ [Next]_vars => ContentInv'
<1> SUFFICES ASSUME EndInv, EndInv', ContentInv, [Next]_vars
             PROVE  ContentInv'
  OBVIOUS
<1>1. CASE ChunksEnd
  <2>1. /\ UNCHANGED <<provider, said, asked, content, buffer, order, flushed, events>>
        /\ gen = "pull"
        /\ gen' = IF provider = "buffered" /\ order # << >> THEN "flush" ELSE "sign"
    BY <1>1, Zenon DEF ChunksEnd, Runs, sourceVars, keptVars
  <2>2. gen' \in {"pull", "invoke", "flush", "sign"} /\ gen' # "invoke"
    BY <2>1
  <2>3. gen' = "flush" => provider = "buffered"
    BY <2>1
  <2>4. gen' = "sign" /\ provider = "buffered" => flushed = Len(order)
    <3>1. flushed = 0 /\ Len(<< >>) = 0
      BY <2>1, SMT DEF EndInv
    <3>2. QED
      BY <2>1, <3>1
  <2>5. TextInv' /\ OrderInv' /\ PiecesInv'
    BY <2>1, <2>2, <2>3, <2>4, ContentKept
  <2>6. SignedInv'
    BY <2>2, StillUnfinished DEF SignedInv
  <2>7. QED
    BY <2>5, <2>6 DEF ContentInv
<1>2. CASE \E d \in 0..MaxUsage : UsageChunk(d)
  <2>1. /\ UNCHANGED <<provider, said, asked, content, buffer, order, flushed, events>>
        /\ gen = "pull" /\ gen' = "pull"
    BY <1>2, Zenon DEF UsageChunk, Runs
  <2>2. TextInv' /\ OrderInv' /\ PiecesInv'
    BY <2>1, ContentKept
  <2>3. SignedInv'
    BY <2>1, StillUnfinished DEF SignedInv
  <2>4. QED
    BY <2>2, <2>3 DEF ContentInv
<1>3. CASE \/ Leave \/ SendHeader \/ TakeEvent \/ Exhausted \/ SendBill \/ SealLast
           \/ UNCHANGED vars
  <2>1. /\ UNCHANGED <<provider, said, asked, content, buffer, order, flushed, events, signed>>
        /\ gen' = gen \/ gen' = "over"
    BY <1>3, Zenon DEF Leave, SendHeader, TakeEvent, Exhausted, SendBill, SealLast, vars, chatVars,
                       sourceVars, keptVars, frameVars
  <2>2. gen' = "sign" /\ provider = "buffered" => flushed = Len(order)
    BY <2>1 DEF ContentInv, PiecesInv
  <2>3. gen' = "flush" => provider = "buffered"
    BY <2>1 DEF ContentInv, PiecesInv
  <2>4. gen' = "invoke" => gen = "invoke"
    BY <2>1
  <2>5. TextInv' /\ OrderInv' /\ PiecesInv'
    BY <2>1, <2>2, <2>3, <2>4, ContentKept
  <2>6. SignedInv'
    BY <2>1, Zenon DEF ContentInv, SignedInv, Output, Finished
  <2>7. QED
    BY <2>5, <2>6 DEF ContentInv
<1>4. QED
  BY <1>1, <1>2, <1>3, TextHolds, CallHolds, InvokeHolds, CallGoesOut, EndKeepsContent
  DEF Next, Generate, Step

\* By the final frame every piece of every call has been relayed.
LEMMA AllRelayed ==
    ASSUME EndInv, ContentInv, Finished
    PROVE  \A i \in Calls : PiecesOf(events, i) = Upto(asked[i])
<1>1. provider = "buffered" => flushed = Len(order)
  BY DEF ContentInv, SignedInv
<1>2. ASSUME NEW i \in Calls, provider = "buffered" /\ ~Given(i)
      PROVE  PiecesOf(events, i) = Upto(asked[i])
  <2>1. ~(asked[i] > 0)
    BY <1>1, <1>2 DEF ContentInv, OrderInv, Given
  <2>2. asked[i] \in Nat
    BY DEF EndInv, StreamTypes
  <2>3. asked[i] = 0
    BY <2>1, <2>2, SMT
  <2>4. Upto(asked[i]) = << >>
    BY <2>2, <2>3, UptoGrows
  <2>5. QED
    BY <1>2, <2>4 DEF ContentInv, PiecesInv
<1>3. QED
  BY <1>2 DEF ContentInv, PiecesInv

\* A signature on a final frame covers what a client puts together from the
\* events before it, for any provider and any number and interleaving of texts
\* and tool calls (chat_controller.py 710-840).
THEOREM SignatureCoversAnswer == Spec => []SignedAsAssembled
<1>1. EndInv /\ ContentInv => SignedAsAssembled
  <2> SUFFICES ASSUME EndInv, ContentInv, Finished
               PROVE  SignedAsAssembled
    BY DEF SignedAsAssembled
  <2>1. signed = Output /\ (provider = "buffered" => flushed = Len(order))
    BY DEF ContentInv, SignedInv
  <2>2. \A i \in Calls : asked[i] \in Nat
    BY DEF EndInv, StreamTypes
  <2>3. \A i \in Calls : PiecesOf(events, i) = Upto(asked[i])
    BY AllRelayed
  <2>4. CASE order # << >>
    <3>1. signed.of = "calls" /\ signed.calls = buffer
      BY <2>1, <2>4 DEF Output
    <3>2. buffer = CallsOf(events)
      BY <2>3, Zenon DEF ContentInv, OrderInv, CallsOf
    <3>3. QED
      BY <3>1, <3>2, Zenon DEF SignedAsAssembled
  <2>5. CASE order = << >>
    <3>1. signed.of = "text" /\ signed.text = content
      BY <2>1, <2>5 DEF Output
    <3>2. content = TextOf(events)
      BY DEF ContentInv, TextInv
    <3>3. ASSUME NEW i \in Calls
          PROVE  PiecesOf(events, i) = << >>
      <4>1. \A k \in 1..Len(order) : FALSE
        BY <2>5, SMT
      <4>2. ~(asked[i] > 0)
        BY <4>1 DEF ContentInv, OrderInv
      <4>3. asked[i] = 0
        BY <2>2, <4>2, SMT
      <4>4. QED
        BY <2>2, <2>3, <4>3, UptoGrows
    <3>4. QED
      BY <3>1, <3>2, <3>3, Zenon DEF SignedAsAssembled
  <2>6. QED
    BY <2>4, <2>5
<1>2. QED
  BY <1>1, EndBegins, EndHolds, ContentBegins, ContentHolds, PTL DEF Spec

\* A stream that ends with [DONE] has relayed every piece of text and of every
\* call the provider sent, once and in its order (chat_controller.py 668-780).
THEOREM NothingIsLost == Spec => []NothingLost
<1>1. EndInv /\ ContentInv => NothingLost
  <2> SUFFICES ASSUME EndInv, ContentInv, NEW k \in 1..Len(events), events[k].kind = "done"
               PROVE  /\ TextOf(events) = [n \in 1..said |-> n]
                      /\ CallsOf(events) = [i \in Calls |-> [n \in 1..asked[i] |-> n]]
    BY DEF NothingLost
  <2>1. k > 1 /\ events[k - 1].kind = "final"
    BY DEF EndInv, EndsOnce
  <2>2. k - 1 \in 1..Len(events)
    BY <2>1, SMT DEF EndInv, StreamTypes
  <2>3. Finished
    BY <2>1, <2>2, Zenon DEF Finished
  <2>4. \A i \in Calls : PiecesOf(events, i) = Upto(asked[i])
    BY <2>3, AllRelayed
  <2>5. CallsOf(events) = [i \in Calls |-> Upto(asked[i])]
    BY <2>4, Zenon DEF CallsOf
  <2>6. TextOf(events) = Upto(said)
    BY DEF ContentInv, TextInv
  <2>7. QED
    BY <2>5, <2>6, Zenon DEF Upto
<1>2. QED
  BY <1>1, EndBegins, EndHolds, ContentBegins, ContentHolds, PTL DEF Spec

----------------------------------------------------------------------------
(* The chunks.                                                              *)

\* The k-th chunk is the k-th event, sealed under the nonce of its place, as the
\* last one or not.
Sealed(f, k, last) ==
    /\ f.nonce = k - 1 /\ f.body = k /\ f.prefix = EncodeVarint(Announced(f))
    /\ f.final <=> last

\* The last of these chunks is a final one.
Whole(c) == c # << >> /\ c[Len(c)].final

\* The chunks of what was sent, and that nothing less would pass for whole.
ChunkInv ==
    /\ Chunks(wire) \in Seq(Frame) /\ Len(Chunks(wire)) = counter
    /\ \A k \in 1..counter : Sealed(Chunks(wire)[k], k, finalized /\ k = counter)
    /\ \A n \in 0..(Len(wire) - 1) : ~Whole(Chunks(SubSeq(wire, 1, n)))

\* A frame more is a chunk more, or none.
LEMMA ChunksGrow ==
    ASSUME NEW w \in Seq(Frame), NEW f \in Frame, NEW t, t = Append(w, f)
    PROVE  Chunks(t) = Chunks(w) \o (IF f.tag = "chunk" THEN <<f>> ELSE << >>)
<1> DEFINE part(x) == IF x.tag = "chunk" THEN <<x>> ELSE << >>
           parts(v) == [n \in 1..Len(v) |-> part(v[n])]
           l == Len(w)
<1> HIDE DEF Frame
<1>1. /\ t \in Seq(Frame) /\ l \in Nat /\ Len(t) = l + 1 /\ t[l + 1] = f
      /\ \A n \in 1..l : t[n] = w[n]
  BY SMT
<1>2. \A v : Chunks(v) = Glue(parts(v))
  BY Zenon DEF Chunks
<1>3. \A x \in Frame : part(x) \in Seq(Frame)
  BY SMT
<1>4. part(f) = IF f.tag = "chunk" THEN <<f>> ELSE << >>
  OBVIOUS
<1> HIDE DEF part, l
<1>5. ASSUME NEW v \in Seq(Frame)
      PROVE  /\ parts(v) \in Seq(Seq(Frame)) /\ Len(parts(v)) = Len(v)
             /\ \A n \in 1..Len(v) : parts(v)[n] = part(v[n])
  <2>1. \A n \in 1..Len(v) : v[n] \in Frame
    BY SMT
  <2>2. QED
    BY <1>3, <2>1, SMT
<1> HIDE DEF parts
<1>6. ASSUME NEW n \in 1..l
      PROVE  parts(t)[n] = parts(w)[n]
  <2>1. n \in 1..Len(w) /\ n \in 1..Len(t)
    BY <1>1, SMT DEF l
  <2>2. parts(t)[n] = part(t[n]) /\ parts(w)[n] = part(w[n])
    BY <1>1, <1>5, <2>1
  <2>3. QED
    BY <1>1, <2>2
<1>7. parts(t)[l + 1] = part(f)
  <2>1. l + 1 \in 1..Len(t)
    BY <1>1, SMT
  <2>2. QED
    BY <1>1, <1>5, <2>1
<1>8. Glue(parts(t)) = Glue(parts(w)) \o parts(t)[l + 1]
  <2>1. parts(w) \in Seq(Seq(Frame)) /\ Len(parts(w)) = l
    BY <1>5 DEF l
  <2>2. parts(t) \in Seq(Seq(Frame)) /\ Len(parts(t)) = l + 1
    BY <1>1, <1>5
  <2>3. QED
    BY <1>6, <2>1, <2>2, PartsGrow
<1>9. QED
  BY <1>2, <1>4, <1>7, <1>8, Zenon

\* What a shorter cut holds does not change by what is sent later.
LEMMA CutsKept ==
    ASSUME NEW S, NEW w \in Seq(S), NEW f \in S, NEW t, t = Append(w, f)
    PROVE  /\ SubSeq(t, 1, Len(w)) = w
           /\ \A n \in 0..Len(w) : SubSeq(t, 1, n) = SubSeq(w, 1, n)
<1>1. /\ t \in Seq(S) /\ Len(w) \in Nat /\ Len(t) = Len(w) + 1
      /\ \A n \in 1..Len(w) : t[n] = w[n]
  BY SMT
<1>2. ASSUME NEW n \in 0..Len(w)
      PROVE  SubSeq(t, 1, n) = SubSeq(w, 1, n)
  <2> DEFINE a == SubSeq(t, 1, n)
             b == SubSeq(w, 1, n)
  <2>1. a \in Seq(S) /\ b \in Seq(S) /\ Len(a) = n /\ Len(b) = n
    BY <1>1, SMT
  <2>2. \A k \in 1..n : a[k] = b[k]
    BY <1>1, SMT
  <2> HIDE DEF a, b
  <2>3. a = b
    BY <2>1, <2>2, SeqEqual
  <2>4. QED
    BY <2>3 DEF a, b
<1>3. SubSeq(t, 1, Len(w)) = w
  <2> DEFINE a == SubSeq(t, 1, Len(w))
  <2>1. a \in Seq(S) /\ Len(a) = Len(w)
    BY <1>1, SMT
  <2>2. \A k \in 1..Len(w) : a[k] = w[k]
    BY <1>1, SMT
  <2> HIDE DEF a
  <2>3. a = w
    BY <2>1, <2>2, SeqEqual
  <2>4. QED
    BY <2>3 DEF a
<1>4. QED
  BY <1>2, <1>3

\* Short of the final chunk, what was sent is not whole, nor is any cut of it.
LEMMA NotYetWhole ==
    ASSUME FrameInv, ChunkInv, ~finalized, NEW f \in Frame, wire' = Append(wire, f)
    PROVE  \A n \in 0..(Len(wire') - 1) : ~Whole(Chunks(SubSeq(wire', 1, n)))
<1> DEFINE c == Chunks(wire)
           l == Len(wire)
<1>1. wire \in Seq(Frame) /\ c \in Seq(Frame) /\ Len(c) = counter
  BY DEF FrameInv, ChunkInv
<1>2. ~Whole(c)
  <2>1. SUFFICES ASSUME c # << >>
                 PROVE  ~c[Len(c)].final
    BY Zenon DEF Whole
  <2>2. counter \in 1..counter
    BY <1>1, <2>1, SMT
  <2>3. Sealed(c[counter], counter, finalized /\ counter = counter)
    BY <2>2 DEF ChunkInv
  <2>4. QED
    BY <1>1, <2>3, Zenon DEF Sealed
<1>3. l \in Nat /\ Len(wire') = l + 1
  BY <1>1, SMT
<1>4. SubSeq(wire', 1, l) = wire /\ \A n \in 0..l : SubSeq(wire', 1, n) = SubSeq(wire, 1, n)
  BY <1>1, CutsKept
<1> HIDE DEF l, c
<1>5. ASSUME NEW n \in 0..(Len(wire') - 1)
      PROVE  ~Whole(Chunks(SubSeq(wire', 1, n)))
  <2>1. n \in 0..l /\ (n = l \/ n \in 0..(l - 1))
    BY <1>3, SMT
  <2>2. CASE n = l
    BY <1>2, <1>4, <2>2 DEF c
  <2>3. CASE n \in 0..(l - 1)
    BY <1>4, <2>1, <2>3 DEF ChunkInv, l
  <2>4. QED
    BY <2>1, <2>2, <2>3
<1>6. QED
  BY <1>5

\* A frame that is no chunk leaves the chunks alone.
LEMMA PlainSent ==
    ASSUME FrameInv, ChunkInv, ~finalized, NEW f \in Frame, f.tag # "chunk",
           wire' = Append(wire, f), UNCHANGED <<counter, finalized>>
    PROVE  ChunkInv'
<1>1. wire \in Seq(Frame) /\ Chunks(wire) \in Seq(Frame)
  BY DEF FrameInv, ChunkInv
<1>2. Chunks(wire') = Chunks(wire) \o << >>
  BY <1>1, ChunksGrow
<1>3. Chunks(wire') = Chunks(wire)
  BY <1>1, <1>2, ConcatEmptySeq
<1>4. \A n \in 0..(Len(wire') - 1) : ~Whole(Chunks(SubSeq(wire', 1, n)))
  BY NotYetWhole
<1>5. QED
  BY <1>3, <1>4, Zenon DEF ChunkInv

\* A sealed event is one chunk more, under the next nonce, and the final one if
\* it is sealed as that.
LEMMA ChunkSent ==
    ASSUME FrameInv, ChunkInv, ~finalized, NEW final \in BOOLEAN, EncryptChunk(counter + 1, final)
    PROVE  ChunkInv'
<1> DEFINE prefix == EncodeVarint(IF final THEN 0 ELSE LengthOf(counter))
           f == [tag |-> "chunk", prefix |-> prefix, nonce |-> counter, final |-> final,
                 body |-> counter + 1]
           c == Chunks(wire)
           m == counter + 1
<1>1. wire' = Append(wire, f) /\ counter' = m /\ finalized' = final
  BY Zenon DEF EncryptChunk
<1>2. wire \in Seq(Frame) /\ c \in Seq(Frame) /\ Len(c) = counter /\ counter \in Nat /\ m \in Nat
  BY SMT DEF FrameInv, ChunkInv
<1>3. f \in Frame /\ f.tag = "chunk"
  <2>1. prefix \in Prefixes
    <3>1. (IF final THEN 0 ELSE LengthOf(counter)) \in Nat
      BY <1>2, LengthIsNatural
    <3>2. QED
      BY <3>1, Zenon DEF Prefixes
  <2> HIDE DEF prefix
  <2>2. f \in Frame
    BY <1>2, <2>1, Zenon DEF Frame
  <2>3. QED
    BY <2>2
<1>4. Announced(f) = IF final THEN 0 ELSE LengthOf(counter)
  BY DEF Announced
<1>5. f.nonce = counter /\ f.body = m /\ f.final = final /\ f.prefix = EncodeVarint(Announced(f))
  BY <1>4
<1> HIDE DEF f, prefix, m
<1>6. Chunks(wire') = Append(c, f)
  <2>1. Chunks(wire') = c \o <<f>>
    BY <1>1, <1>2, <1>3, ChunksGrow
  <2>2. QED
    BY <1>2, <1>3, <2>1, AppendIsConcat
<1> DEFINE d == Chunks(wire')
<1> HIDE DEF c, Frame
<1>7. /\ d \in Seq(Frame) /\ Len(d) = m /\ d[m] = f /\ m = counter + 1
      /\ \A k \in 1..counter : d[k] = c[k]
  BY <1>2, <1>3, <1>6, SMT DEF m
<1> HIDE DEF d
<1>8. ASSUME NEW k \in 1..m
      PROVE  Sealed(d[k], k, final /\ k = m)
  <2>1. CASE k = m
    <3>1. d[k] = f /\ k - 1 = counter
      BY <1>2, <1>7, <2>1, SMT
    <3>2. Sealed(f, k, final /\ k = m)
      BY <1>5, <2>1, <3>1, Zenon DEF Sealed
    <3>3. QED
      BY <3>1, <3>2
  <2>2. CASE k # m
    <3>1. k \in 1..counter
      BY <1>2, <1>7, <2>2, SMT
    <3>2. Sealed(c[k], k, finalized /\ k = counter)
      BY <3>1 DEF ChunkInv, c
    <3>3. Sealed(c[k], k, final /\ k = m)
      BY <2>2, <3>2, Zenon DEF Sealed
    <3>4. QED
      BY <1>7, <3>1, <3>3
  <2>3. QED
    BY <2>1, <2>2
<1>9. \A n \in 0..(Len(wire') - 1) : ~Whole(Chunks(SubSeq(wire', 1, n)))
  BY <1>1, <1>3, NotYetWhole
<1>10. \A k \in 1..counter' : Sealed(Chunks(wire')[k], k, finalized' /\ k = counter')
  BY <1>1, <1>8 DEF d
<1>11. Chunks(wire') \in Seq(Frame) /\ Len(Chunks(wire')) = counter'
  BY <1>1, <1>7 DEF d
<1>12. QED
  BY <1>9, <1>10, <1>11, Zenon DEF ChunkInv

\* The stream has come to its own end.
Ended == events # << >> /\ events[Len(events)].kind \in {"done", "error"}

\* How far the events, their chunks and the billing frame have come.
PlaceInv ==
    /\ out \in {"header", "take", "bill", "last", "closed"} /\ finalized \in BOOLEAN
    /\ taken \in 0..Len(events)
    /\ out = "header" => counter = 0 /\ taken = 0 /\ gen # "over"
    /\ out \in {"take", "bill", "last"} => counter = IF taken = 0 THEN 0 ELSE taken - 1
    /\ out \in {"bill", "last"} => taken = Len(events) /\ Ended
    /\ gen = "over" /\ out = "take" => Ended
    /\ out = "last" /\ Priced => wire # << >> /\ wire[Len(wire)].tag = "bill"
    /\ finalized => /\ out = "closed" /\ counter = Len(events) /\ Ended
                    /\ Priced => wire[Len(wire) - 1].tag = "bill"

WireInv == FrameInv /\ ChunkInv /\ PlaceInv

\* The generator adds at most one event, and ends with the one that says so.
LEMMA EventsGrow ==
    ASSUME EndInv, Generate
    PROVE  /\ \/ events' = events
              \/ /\ events' \in Seq(Event) /\ Len(events') = Len(events) + 1
                 /\ \A n \in 1..Len(events) : events'[n] = events[n]
           /\ gen' = "over" => Ended'
<1>1. events \in Seq(Event) /\ Len(events) \in Nat
  BY DEF EndInv, StreamTypes
<1>2. ASSUME NEW k \in Kinds, NEW c \in Calls \cup {0}, NEW s \in Seq(Nat), Yield(k, c, s)
      PROVE  /\ events' \in Seq(Event) /\ Len(events') = Len(events) + 1
             /\ \A n \in 1..Len(events) : events'[n] = events[n]
             /\ k \in {"done", "error"} => Ended'
  <2>1. /\ events' \in Seq(Event) /\ Len(events') = Len(events) + 1
        /\ \A n \in 1..Len(events) : events'[n] = events[n]
        /\ events'[Len(events) + 1].kind = k
    BY <1>1, <1>2, YieldAppends
  <2>2. events' # << >>
    BY <1>1, <2>1, SMT
  <2>3. QED
    BY <2>1, <2>2 DEF Ended
<1>3. Step
  BY DEF Generate
<1>4. CASE TextChunk
  <2>1. Yield("text", 0, <<said'>>) /\ gen' # "over" /\ said' = said + 1
    BY <1>4, Zenon DEF TextChunk, Runs
  <2>2. <<said'>> \in Seq(Nat) /\ "text" \in Kinds /\ 0 \in Calls \cup {0}
    BY <2>1, SMT DEF EndInv, StreamTypes, Kinds
  <2>3. QED
    BY <1>2, <2>1, <2>2
<1>5. ASSUME NEW i \in Calls, CallChunk(i)
      PROVE  /\ \/ events' = events
                \/ /\ events' \in Seq(Event) /\ Len(events') = Len(events) + 1
                   /\ \A n \in 1..Len(events) : events'[n] = events[n]
             /\ gen' # "over"
  <2>1. /\ events' = events \/ Yield("call", i, <<asked'[i]>>)
        /\ gen' # "over" /\ asked' = [asked EXCEPT ![i] = @ + 1]
    BY <1>5, Zenon DEF CallChunk, Runs
  <2>2. <<asked'[i]>> \in Seq(Nat)
    BY <2>1, SMT DEF EndInv, StreamTypes
  <2>3. "call" \in Kinds /\ i \in Calls \cup {0}
    BY DEF Kinds
  <2>4. QED
    BY <1>2, <2>1, <2>2, <2>3
<1>6. CASE ChunksEnd \/ \E d \in 0..MaxUsage : UsageChunk(d)
  <2>1. CASE ChunksEnd
    BY <2>1 DEF ChunksEnd
  <2>2. CASE \E d \in 0..MaxUsage : UsageChunk(d)
    BY <2>2, Zenon DEF UsageChunk, Runs
  <2>3. QED
    BY <1>6, <2>1, <2>2
<1>7. ASSUME NEW d \in 0..MaxUsage, InvokeOnce(d)
      PROVE  /\ \/ events' = events
                \/ /\ events' \in Seq(Event) /\ Len(events') = Len(events) + 1
                   /\ \A n \in 1..Len(events) : events'[n] = events[n]
             /\ gen' # "over"
  <2>1. (events' = events \/ Yield("text", 0, <<1>>)) /\ gen' # "over"
    BY <1>7, Zenon DEF InvokeOnce
  <2>2. <<1>> \in Seq(Nat) /\ "text" \in Kinds /\ 0 \in Calls \cup {0}
    BY SMT DEF Kinds
  <2>3. QED
    BY <1>2, <2>1, <2>2
<1>8. CASE Flush
  <2>1. Yield("call", order[flushed'], buffer[order[flushed']]) /\ flushed' = flushed + 1
        /\ gen = "flush" /\ gen' # "over"
    BY <1>8 DEF Flush, Runs
  <2>2. flushed' \in 1..Len(order)
    BY <2>1, SMT DEF EndInv, StreamTypes
  <2>3. order[flushed'] \in Calls
    BY <2>2 DEF EndInv, StreamTypes
  <2>4. buffer[order[flushed']] \in Seq(Nat) /\ "call" \in Kinds /\ order[flushed'] \in Calls \cup {0}
    BY <2>3 DEF EndInv, StreamTypes, Kinds
  <2>5. QED
    BY <1>2, <2>1, <2>4
<1>9. CASE SignFinal \/ SayDone \/ Break
  <2>1. \/ Yield("final", 0, << >>) /\ gen' # "over"
        \/ Yield("done", 0, << >>)
        \/ Yield("error", 0, << >>)
    BY <1>9, Zenon DEF SignFinal, SayDone, Break
  <2>2. /\ << >> \in Seq(Nat) /\ 0 \in Calls \cup {0}
        /\ "final" \in Kinds /\ "done" \in Kinds /\ "error" \in Kinds
    BY SMT DEF Kinds
  <2>3. QED
    BY <1>2, <2>1, <2>2
<1>10. QED
  BY <1>3, <1>4, <1>5, <1>6, <1>7, <1>8, <1>9 DEF Step

\* While events are produced nothing is sent.
LEMMA ProducingHolds ==
    ASSUME EndInv, WireInv, out = "take", Generate, UNCHANGED streamVars
    PROVE  ChunkInv' /\ PlaceInv'
<1>1. UNCHANGED <<out, counter, finalized, wire>> /\ taken' = taken
  BY Zenon DEF streamVars, Generate
<1>2. ChunkInv'
  BY <1>1, Zenon DEF WireInv, ChunkInv
<1>3. ~finalized /\ finalized \in BOOLEAN /\ taken \in 0..Len(events)
      /\ counter = IF taken = 0 THEN 0 ELSE taken - 1
  BY Zenon DEF WireInv, PlaceInv
<1>4. taken' \in 0..Len(events')
  <2>1. CASE events' = events
    BY <1>1, <1>3, <2>1
  <2>2. CASE Len(events') = Len(events) + 1
    <3>1. Len(events) \in Nat
      BY DEF EndInv, StreamTypes
    <3>2. QED
      BY <1>1, <1>3, <2>2, <3>1, SMT
  <2>3. QED
    BY <2>1, <2>2, EventsGrow
<1>5. gen' = "over" => Ended'
  BY EventsGrow
<1>6. out' = "take" /\ out' # "header" /\ out' \notin {"bill", "last"} /\ out' # "last"
  BY <1>1
<1>7. PlaceInv'
  BY <1>1, <1>3, <1>4, <1>5, <1>6, Zenon DEF PlaceInv
<1>8. QED
  BY <1>2, <1>7

\* The nonce goes first, the billing frame when all events have been taken.
LEMMA PlainHolds == ASSUME WireInv, SendHeader \/ SendBill PROVE ChunkInv' /\ PlaceInv'
<1>1. PICK t \in {"nonce", "bill"} : wire' = Append(wire, Plain(t)) /\ (SendBill => t = "bill")
  BY DEF SendHeader, SendBill
<1>2. UNCHANGED <<counter, finalized, taken, events, gen, signed, mode, billed>>
  BY Zenon DEF SendHeader, SendBill, chatVars, sourceVars, frameVars
<1>3. ~finalized /\ finalized \in BOOLEAN /\ taken \in 0..Len(events)
  BY DEF WireInv, PlaceInv, SendHeader, SendBill
<1>4. Plain(t) \in Frame /\ Plain(t).tag = t /\ t # "chunk"
  <2>1. << >> \in Prefixes /\ 0 \in Nat
    BY DEF Prefixes
  <2>2. t \in {"nonce", "bill", "chunk"}
    OBVIOUS
  <2>3. Plain(t) \in Frame
    BY <2>1, <2>2, Zenon DEF Plain, Frame
  <2>4. QED
    BY <2>3 DEF Plain
<1>5. ChunkInv'
  BY <1>1, <1>2, <1>3, <1>4, PlainSent DEF WireInv
<1>6. ~finalized'
  BY <1>2, <1>3
<1>7. CASE SendHeader
  <2>1. counter' = 0 /\ taken' = 0 /\ gen' # "over" /\ out' = "take"
    BY <1>2, <1>7 DEF SendHeader, WireInv, PlaceInv
  <2>2. PlaceInv'
    BY <1>2, <1>3, <1>6, <2>1 DEF PlaceInv
  <2>3. QED
    BY <1>5, <2>2
<1>8. CASE SendBill
  <2>1. /\ out' = "last" /\ counter' = IF taken' = 0 THEN 0 ELSE taken' - 1
        /\ taken' = Len(events') /\ Ended'
    BY <1>2, <1>8, Zenon DEF SendBill, WireInv, PlaceInv, Ended
  <2>2. wire \in Seq(Frame) /\ t = "bill"
    BY <1>1, <1>8 DEF WireInv, FrameInv
  <2> DEFINE f == Plain(t)
  <2>3. f \in Frame /\ f.tag = "bill" /\ wire' = Append(wire, f)
    BY <1>1, <1>4, <2>2
  <2> HIDE DEF f, Frame
  <2>4. wire' # << >> /\ wire'[Len(wire')] = f
    BY <2>2, <2>3, SMT
  <2>5. PlaceInv'
    BY <1>2, <1>3, <1>6, <2>1, <2>3, <2>4, Zenon DEF PlaceInv
  <2>6. QED
    BY <1>5, <2>5
<1>9. QED
  BY <1>7, <1>8

\* An event is sealed when the one after it is taken.
LEMMA TakingHolds == ASSUME EndInv, WireInv, TakeEvent PROVE ChunkInv' /\ PlaceInv'
<1>1. /\ out = "take" /\ out' = "take" /\ taken < Len(events) /\ taken' = taken + 1
      /\ UNCHANGED <<events, gen>>
      /\ IF taken = 0 THEN UNCHANGED <<counter, finalized, wire>> ELSE EncryptChunk(taken, FALSE)
  BY Zenon DEF TakeEvent
<1>2. /\ ~finalized /\ finalized \in BOOLEAN /\ taken \in 0..Len(events)
      /\ counter = IF taken = 0 THEN 0 ELSE taken - 1
      /\ gen = "over" => Ended
  BY <1>1, Zenon DEF WireInv, PlaceInv
<1>3. taken' \in 0..Len(events') /\ taken' # 0 /\ taken' - 1 = taken
  <2>1. Len(events) \in Nat
    BY DEF EndInv, StreamTypes
  <2>2. QED
    BY <1>1, <1>2, <2>1, SMT
<1>4. ChunkInv' /\ counter' = taken /\ ~finalized' /\ finalized' \in BOOLEAN
  <2>1. CASE taken = 0
    <3>1. UNCHANGED <<counter, finalized, wire>>
      BY <1>1, <2>1
    <3>2. ChunkInv'
      BY <3>1, Zenon DEF WireInv, ChunkInv
    <3>3. QED
      BY <1>2, <2>1, <3>1, <3>2
  <2>2. CASE taken # 0
    <3>1. EncryptChunk(taken, FALSE) /\ counter' = counter + 1 /\ finalized' = FALSE
      BY <1>1, <2>2 DEF EncryptChunk
    <3>2. counter + 1 = taken
      BY <1>2, <2>2, SMT
    <3>3. EncryptChunk(counter + 1, FALSE) /\ FALSE \in BOOLEAN
      BY <3>1, <3>2
    <3>4. ChunkInv'
      BY <1>2, <3>3, ChunkSent DEF WireInv
    <3>5. QED
      BY <3>1, <3>2, <3>4
  <2>3. QED
    BY <2>1, <2>2
<1>5. gen' = "over" => Ended'
  BY <1>1, <1>2 DEF Ended
<1>6. PlaceInv'
  BY <1>1, <1>3, <1>4, <1>5, Zenon DEF PlaceInv
<1>7. QED
  BY <1>4, <1>6

\* The last event is sealed as the final chunk, behind the billing frame.
LEMMA LastHolds == ASSUME EndInv, WireInv, SealLast PROVE ChunkInv' /\ PlaceInv'
<1> DEFINE l == Len(wire)
<1>1. /\ out = "last" /\ out' = "closed" /\ EncryptChunk(taken, TRUE)
      /\ counter' = counter + 1 /\ finalized' = TRUE
      /\ UNCHANGED <<events, gen, taken, signed, mode, billed>>
  BY Zenon DEF SealLast, EncryptChunk, chatVars, sourceVars, frameVars
<1>2. /\ ~finalized /\ taken \in 0..Len(events) /\ taken = Len(events) /\ Ended
      /\ counter = IF taken = 0 THEN 0 ELSE taken - 1
      /\ Priced => wire # << >> /\ wire[l].tag = "bill"
  BY <1>1, Zenon DEF WireInv, PlaceInv
<1>3. Len(events) \in Nat /\ events # << >> /\ events \in Seq(Event)
  BY <1>2 DEF EndInv, StreamTypes, Ended
<1>4. taken # 0 /\ counter + 1 = taken
  <2>1. Len(events) # 0
    BY <1>3, SMT
  <2>2. QED
    BY <1>2, <1>3, <2>1, SMT
<1>5. ChunkInv'
  <2>1. EncryptChunk(counter + 1, TRUE) /\ TRUE \in BOOLEAN
    BY <1>1, <1>4
  <2>2. QED
    BY <1>2, <2>1, ChunkSent DEF WireInv
<1>6. Priced' => wire'[Len(wire') - 1].tag = "bill"
  <2> SUFFICES ASSUME Priced
               PROVE  wire'[Len(wire') - 1].tag = "bill"
    BY <1>1, Zenon DEF Priced
  <2>1. PICK f : wire' = Append(wire, f)
    BY <1>1 DEF EncryptChunk
  <2>2. wire \in Seq(Frame) /\ wire # << >>
    BY <1>2 DEF WireInv, FrameInv
  <2> HIDE DEF Frame
  <2>3. Len(wire') - 1 = l /\ wire'[l] = wire[l]
    BY <2>1, <2>2, SMT
  <2>4. QED
    BY <1>2, <2>3
<1>7. PlaceInv'
  <2>1. counter' = Len(events') /\ Ended' /\ taken' \in 0..Len(events')
    BY <1>1, <1>2, <1>4 DEF Ended
  <2>2. finalized' \in BOOLEAN /\ out' = "closed"
    BY <1>1
  <2>3. out' \notin {"header", "take", "bill", "last"} /\ out' # "header" /\ out' # "take"
        /\ out' # "last" /\ out' \notin {"bill", "last"} /\ out' \notin {"take", "bill", "last"}
    BY <2>2
  <2>4. QED
    BY <1>6, <2>1, <2>2, <2>3, Zenon DEF PlaceInv
<1>8. QED
  BY <1>5, <1>7

\* At first nothing has been produced, taken or sent.
LEMMA WireBegins == Init => WireInv
<1> SUFFICES ASSUME Init
             PROVE  WireInv
  OBVIOUS
<1>1. /\ wire = << >> /\ counter = 0 /\ taken = 0 /\ finalized = FALSE /\ out = "header"
      /\ gen # "over" /\ events = << >>
  BY DEF Init, ChatInit
<1>2. Len(wire) = 0 /\ Len(events) = 0 /\ 0 \in 0..0 /\ \A n \in 0..(0 - 1) : FALSE
  BY <1>1, SMT
<1>3. Chunks(wire) = << >>
  <2> DEFINE P == [k \in 1..Len(wire) |-> IF wire[k].tag = "chunk" THEN <<wire[k]>> ELSE << >>]
  <2>1. P = [k \in 1..0 |-> P[k]]
    BY <1>2, Zenon
  <2>2. Chunks(wire) = Glue(P)
    BY Zenon DEF Chunks
  <2> HIDE DEF P
  <2>3. P = << >>
    BY <2>1, SMT
  <2>4. QED
    BY <2>2, <2>3, GlueEmpty
<1>4. ChunkInv
  <2>1. << >> \in Seq(Frame) /\ Len(<< >>) = 0 /\ \A k \in 1..0 : FALSE
    BY SMT
  <2>2. QED
    BY <1>1, <1>2, <1>3, <2>1, Zenon DEF ChunkInv
<1>5. PlaceInv
  <2>1. out \notin {"take", "bill", "last"} /\ out \notin {"bill", "last"} /\ out # "take"
        /\ out # "last"
    BY <1>1
  <2>2. QED
    BY <1>1, <1>2, <2>1, Zenon DEF PlaceInv
<1>6. QED
  BY <1>4, <1>5, FrameBegins DEF WireInv

\* Every step keeps the chunks in step with the events.
LEMMA WireHolds == EndInv /\ WireInv /\ [Next]_vars => WireInv'
<1> SUFFICES ASSUME EndInv, WireInv, [Next]_vars
             PROVE  ChunkInv' /\ PlaceInv'
  BY FrameHolds DEF WireInv
<1>1. CASE Exhausted
  <2>1. /\ out = "take" /\ gen = "over" /\ taken = Len(events) /\ out' \in {"bill", "last"}
        /\ (Priced => out' = "bill")
        /\ UNCHANGED <<events, gen, taken, signed, mode, billed, counter, finalized, wire>>
    BY <1>1, Zenon DEF Exhausted, Runs, chatVars, sourceVars, frameVars
  <2>2. Ended /\ ~finalized /\ finalized \in BOOLEAN /\ taken \in 0..Len(events)
        /\ counter = IF taken = 0 THEN 0 ELSE taken - 1
    BY <2>1, Zenon DEF WireInv, PlaceInv
  <2>3. ChunkInv'
    BY <2>1, Zenon DEF WireInv, ChunkInv
  <2>4. Ended' /\ (Priced' => Priced)
    BY <2>1, <2>2, Zenon DEF Ended, Priced
  <2>5. ~(out' = "last" /\ Priced') /\ out' # "header" /\ out' # "take"
        /\ out' \in {"header", "take", "bill", "last", "closed"}
    BY <2>1, <2>4
  <2>6. PlaceInv'
    BY <2>1, <2>2, <2>4, <2>5, Zenon DEF PlaceInv
  <2>7. QED
    BY <2>3, <2>6
<1>2. CASE Leave
  <2>1. /\ out \in {"take", "bill", "last"} /\ out' = "closed"
        /\ UNCHANGED <<events, taken, counter, finalized, wire>>
    BY <1>2, Zenon DEF Leave
  <2>2. ~finalized /\ finalized \in BOOLEAN /\ taken \in 0..Len(events)
    BY <2>1 DEF WireInv, PlaceInv
  <2>3. ChunkInv'
    BY <2>1, Zenon DEF WireInv, ChunkInv
  <2>4. out' \notin {"header", "take", "bill", "last"} /\ out' # "header" /\ out' # "take"
        /\ out' # "last" /\ out' \notin {"bill", "last"} /\ out' \notin {"take", "bill", "last"}
        /\ out' \in {"header", "take", "bill", "last", "closed"}
    BY <2>1
  <2>5. PlaceInv'
    BY <2>1, <2>2, <2>4, Zenon DEF PlaceInv
  <2>6. QED
    BY <2>3, <2>5
<1>3. CASE UNCHANGED vars
  BY <1>3, Zenon DEF vars, chatVars, sourceVars, keptVars, frameVars, streamVars, WireInv, ChunkInv,
                     PlaceInv, Ended, Priced
<1>4. QED
  BY <1>1, <1>2, <1>3, ProducingHolds, PlainHolds, TakingHolds, LastHolds DEF Next

----------------------------------------------------------------------------
(* What a client makes of it.                                               *)

\* The last chunk is final exactly when the stream was sealed to its end.
LEMMA WholeIsFinal ==
    ASSUME EndInv, WireInv
    PROVE  Whole(Chunks(wire)) <=> finalized
<1> DEFINE c == Chunks(wire)
<1>1. c \in Seq(Frame) /\ Len(c) = counter /\ counter \in Nat
  BY DEF WireInv, ChunkInv, FrameInv
<1>2. ASSUME c # << >>
      PROVE  c[Len(c)].final <=> finalized
  <2>1. counter \in 1..counter
    BY <1>1, <1>2, SMT
  <2>2. Sealed(c[counter], counter, finalized /\ counter = counter)
    BY <2>1 DEF WireInv, ChunkInv
  <2>3. QED
    BY <1>1, <2>2, Zenon DEF Sealed
<1>3. finalized => c # << >>
  <2> SUFFICES ASSUME finalized, c = << >>
               PROVE  FALSE
    OBVIOUS
  <2>1. counter = 0
    BY <1>1, SMT
  <2>2. counter = Len(events) /\ events # << >>
    BY DEF WireInv, PlaceInv, Ended
  <2>3. QED
    BY <2>1, <2>2, SMT DEF EndInv, StreamTypes
<1>4. QED
  BY <1>2, <1>3, Zenon DEF Whole

\* A response cut anywhere, or left by its client or its provider, cannot pass
\* for a whole one (ohttp_controller.py 434-497).
THEOREM CutIsSeen == Spec => []CutShowsItself
<1>1. EndInv /\ WireInv => CutShowsItself
  <2> SUFFICES ASSUME EndInv, WireInv, NEW n \in 0..Len(wire), Complete(SubSeq(wire, 1, n))
               PROVE  /\ n = Len(wire)
                      /\ Opened(wire) = [k \in 1..Len(events) |-> k]
                      /\ events[Len(events)].kind \in {"done", "error"}
                      /\ Priced => wire[n - 1].tag = "bill"
    BY DEF CutShowsItself
  <2> DEFINE l == Len(wire)
             c == Chunks(wire)
  <2>1. wire \in Seq(Frame) /\ l \in Nat
    BY DEF WireInv, FrameInv
  <2>2. Whole(Chunks(SubSeq(wire, 1, n)))
    BY DEF Complete, Whole
  <2>3. n = l
    <3>1. n \notin 0..(l - 1)
      BY <2>2 DEF WireInv, ChunkInv
    <3>2. QED
      BY <2>1, <3>1, SMT
  <2>4. SubSeq(wire, 1, n) = wire
    <3> DEFINE a == SubSeq(wire, 1, n)
    <3> HIDE DEF Frame
    <3>1. a \in Seq(Frame) /\ Len(a) = l /\ \A k \in 1..l : a[k] = wire[k]
      BY <2>1, <2>3, SMT
    <3> HIDE DEF a
    <3>2. a = wire
      BY <2>1, <3>1, SeqEqual
    <3>3. QED
      BY <3>2 DEF a
  <2>5. finalized
    BY <2>2, <2>4, WholeIsFinal
  <2>6. /\ counter = Len(events) /\ Ended /\ (Priced => wire[l - 1].tag = "bill")
        /\ Len(c) = counter
    BY <2>5, Zenon DEF WireInv, PlaceInv, ChunkInv
  <2>7. CountOpened(c) = Len(c)
    BY <2>4 DEF Complete
  <2>8. \A k \in 1..counter : c[k].body = k
    BY Zenon DEF WireInv, ChunkInv, Sealed
  <2>9. Opened(wire) = [k \in 1..Len(events) |-> k]
    BY <2>6, <2>7, <2>8, Zenon DEF Opened
  <2>10. QED
    BY <2>3, <2>6, <2>9, Zenon DEF Ended
<1>2. QED
  BY <1>1, EndBegins, EndHolds, WireBegins, WireHolds, PTL DEF Spec

\* A client can open what has been sealed, and sees the end when it has been.
OpenInv ==
    /\ Received = [k \in 1..counter |-> events[k]]
    /\ Complete(wire) <=> finalized

\* Every chunk opens at its place.
LEMMA AllOpen == ASSUME LengthsFit PROVE EndInv /\ WireInv => OpenInv
<1> SUFFICES ASSUME EndInv, WireInv
             PROVE  OpenInv
  OBVIOUS
<1> DEFINE c == Chunks(wire)
<1>1. c \in Seq(Frame) /\ Len(c) = counter /\ counter \in Nat
  BY DEF WireInv, ChunkInv, FrameInv
<1>2. ASSUME NEW k \in 1..counter
      PROVE  Opens(c, k) /\ c[k].body = k
  <2> DEFINE f == c[k]
  <2>1. f \in Frame
    BY <1>1
  <2>2. f.nonce \in Nat /\ f.final \in BOOLEAN
    BY <2>1 DEF Frame
  <2>3. f.nonce = k - 1 /\ f.body = k /\ f.prefix = EncodeVarint(Announced(f))
    BY Zenon DEF WireInv, ChunkInv, Sealed
  <2> HIDE DEF f
  <2>4. DecodeVarint(f.prefix).ok /\ DecodeVarint(f.prefix).value = Announced(f)
    BY <2>2, <2>3, LengthIsRead
  <2>5. Announced(f) = IF f.final THEN 0 ELSE LengthOf(k - 1)
    BY <2>3 DEF Announced
  <2>6. QED
    BY <2>3, <2>4, <2>5, Zenon DEF Opens, f
<1>3. CountOpened(c) = counter
  <2>1. {k \in 1..Len(c) : ~Opens(c, k)} = {}
    BY <1>1, <1>2
  <2>2. QED
    BY <1>1, <2>1, Zenon DEF CountOpened
<1>4. Received = [k \in 1..counter |-> events[k]]
  BY <1>2, <1>3, Zenon DEF Received
<1>5. Complete(wire) <=> Whole(c)
  BY <1>1, <1>3, Zenon DEF Complete, Whole
<1>6. QED
  BY <1>4, <1>5, WholeIsFinal DEF OpenInv

\* One event more for the client is the next one.
LEMMA OneMore ==
    ASSUME NEW S, NEW s \in Seq(S), NEW n \in Nat, n < Len(s)
    PROVE  /\ Len([k \in 1..n |-> s[k]]) = n
           /\ [k \in 1..(n + 1) |-> s[k]] = Append([k \in 1..n |-> s[k]], s[n + 1])
<1> DEFINE a == [k \in 1..n |-> s[k]]
           b == [k \in 1..(n + 1) |-> s[k]]
<1>1. a \in Seq(S) /\ Len(a) = n /\ \A k \in 1..n : a[k] = s[k]
  BY SMT
<1>2. b \in Seq(S) /\ Len(b) = n + 1 /\ \A k \in 1..(n + 1) : b[k] = s[k]
  BY SMT
<1>3. s[n + 1] \in S
  BY SMT
<1> HIDE DEF a, b
<1>4. /\ Append(a, s[n + 1]) \in Seq(S) /\ Len(Append(a, s[n + 1])) = n + 1
      /\ \A k \in 1..(n + 1) : Append(a, s[n + 1])[k] = s[k]
  BY <1>1, <1>3, SMT
<1>5. b = Append(a, s[n + 1])
  BY <1>2, <1>4, SeqEqual
<1>6. QED
  BY <1>1, <1>5 DEF a, b

\* A client that reads a sealed stream gets its events one by one, in the order
\* they were produced, none before the next is known to exist, and takes the end
\* for the end only with all of them, as long as the lengths can be encoded
\* (ohttp_controller.py 434-497, ohttp.py 65-115).
THEOREM StreamIsChannel == ASSUME LengthsFit PROVE Spec => ImplementsChannel
<1>1. Init => Channel!Init
  <2> SUFFICES ASSUME Init
               PROVE  Channel!Init
    OBVIOUS
  <2>1. events = << >> /\ counter = 0 /\ finalized = FALSE
    BY DEF Init, ChatInit
  <2>2. Received = [k \in 1..0 |-> events[k]] /\ ~Complete(wire)
    BY <2>1, AllOpen, EndBegins, WireBegins DEF OpenInv
  <2>3. Received = << >>
    BY <2>2, SMT
  <2>4. Complete(wire) = FALSE
    BY <2>2, Zenon DEF Complete
  <2>5. QED
    BY <2>1, <2>3, <2>4 DEF Channel!Init
<1>2. EndInv /\ EndInv' /\ WireInv /\ OpenInv /\ OpenInv' /\ [Next]_vars
        => [Channel!Next]_<<events, Received, Complete(wire)>>
  <2> SUFFICES ASSUME EndInv, EndInv', WireInv, OpenInv, OpenInv', [Next]_vars
               PROVE  Channel!Next \/ UNCHANGED <<events, Received, Complete(wire)>>
    BY Zenon
  <2> DEFINE o == Received
             p == Received'
             e == Complete(wire)
             f == Complete(wire)'
  <2>1. o = [k \in 1..counter |-> events[k]] /\ (e <=> finalized) /\ e \in BOOLEAN
    BY Zenon DEF OpenInv, Complete
  <2>2. p = [k \in 1..counter' |-> events'[k]] /\ (f <=> finalized') /\ f \in BOOLEAN
    BY Zenon DEF OpenInv, Complete
  <2>3. /\ events \in Seq(Event) /\ Len(events) \in Nat /\ counter \in Nat /\ taken \in 0..Len(events)
    BY DEF EndInv, StreamTypes, WireInv, FrameInv, PlaceInv
  <2>4. ASSUME out \in {"take", "bill", "last"}
        PROVE  ~finalized /\ ~e /\ e = FALSE /\ counter = IF taken = 0 THEN 0 ELSE taken - 1
    BY <2>1, <2>4, Zenon DEF WireInv, PlaceInv
  <2>5. CASE UNCHANGED <<events, counter, finalized>>
    <3> HIDE DEF o, p, e, f
    <3>1. p = o
      BY <2>1, <2>2, <2>5, Zenon
    <3>2. f <=> e
      <4>1. finalized' <=> finalized
        BY <2>5
      <4>2. QED
        BY <2>1, <2>2, <4>1, Zenon
    <3>3. f = e
      BY <2>1, <2>2, <3>2, Zenon
    <3>4. QED
      BY <2>5, <3>1, <3>3, Zenon DEF o, p, e, f
  <2>6. CASE out = "take" /\ Generate /\ UNCHANGED streamVars
    <3>1. UNCHANGED <<counter, finalized>>
      BY <2>6, Zenon DEF streamVars
    <3>2. CASE events' = events
      BY <2>5, <3>1, <3>2
    <3>3. CASE /\ events' \in Seq(Event) /\ Len(events') = Len(events) + 1
               /\ \A n \in 1..Len(events) : events'[n] = events[n]
      <4> HIDE DEF o, p, e, f
      <4>1. SubSeq(events', 1, Len(events)) = events
        <5> DEFINE a == SubSeq(events', 1, Len(events))
        <5>1. a \in Seq(Event) /\ Len(a) = Len(events) /\ \A k \in 1..Len(events) : a[k] = events[k]
          BY <2>3, <3>3, SMT
        <5> HIDE DEF a
        <5>2. a = events
          BY <2>3, <5>1, SeqEqual
        <5>3. QED
          BY <5>2 DEF a
      <4>2. \A k \in 1..counter : events'[k] = events[k]
        <5>1. \A k \in 1..counter : k \in 1..Len(events)
          BY <2>3, <2>4, <2>6, SMT
        <5>2. QED
          BY <3>3, <5>1
      <4>3. p = o
        BY <2>1, <2>2, <3>1, <4>2
      <4>4. f = e /\ ~e
        BY <2>1, <2>2, <2>4, <2>6, <3>1, Zenon
      <4> USE DEF o, p, e, f
      <4>5. Channel!Produce
        BY <3>3, <4>1, <4>3, <4>4, Zenon DEF Channel!Produce
      <4>6. QED
        BY <4>5 DEF Channel!Next
    <3>4. QED
      BY <2>6, <3>2, <3>3, EventsGrow
  <2>7. CASE TakeEvent
    <3>1. out = "take" /\ taken < Len(events) /\ events' = events
      BY <2>7 DEF TakeEvent
    <3>2. CASE taken = 0
      <4>1. UNCHANGED <<events, counter, finalized>>
        BY <2>7, <3>2 DEF TakeEvent
      <4>2. QED
        BY <2>5, <4>1
    <3>3. CASE taken # 0
      <4>1. counter' = counter + 1 /\ finalized' = FALSE
        BY <2>7, <3>3 DEF TakeEvent, EncryptChunk
      <4>2. counter + 1 = taken /\ ~e
        BY <2>3, <2>4, <3>1, <3>3, SMT
      <4>3. counter < Len(events) /\ counter + 1 < Len(events)
        BY <2>3, <3>1, <4>2, SMT
      <4> HIDE DEF o, p, e, f
      <4>4. /\ Len([k \in 1..counter |-> events[k]]) = counter
            /\ [k \in 1..(counter + 1) |-> events[k]]
               = Append([k \in 1..counter |-> events[k]], events[counter + 1])
        BY <2>3, <4>3, OneMore
      <4>5. Len(o) = counter
        BY <2>1, <4>4, Zenon
      <4>6. p = Append(o, events[counter + 1])
        BY <2>1, <2>2, <3>1, <4>1, <4>4, Zenon
      <4>7. f = e
        BY <2>1, <2>2, <2>4, <3>1, <4>1, Zenon
      <4> USE DEF o, p, e, f
      <4>8. Channel!Open
        BY <3>1, <4>2, <4>3, <4>5, <4>6, <4>7, Zenon DEF Channel!Open
      <4>9. QED
        BY <4>8 DEF Channel!Next
    <3>4. QED
      BY <3>2, <3>3
  <2>8. CASE SealLast
    <3>1. /\ out = "last" /\ counter' = counter + 1 /\ finalized' = TRUE /\ events' = events
      BY <2>8, Zenon DEF SealLast, EncryptChunk, chatVars
    <3>2. taken = Len(events) /\ events # << >>
      BY <3>1 DEF WireInv, PlaceInv, Ended
    <3>3. counter + 1 = Len(events) /\ ~e
      <4>1. taken # 0
        BY <2>3, <3>2, SMT
      <4>2. QED
        BY <2>3, <2>4, <3>1, <3>2, <4>1, SMT
    <3> HIDE DEF o, p, e, f
    <3>4. Len(o) = counter
      <4>1. counter < Len(events)
        BY <2>3, <3>3, SMT
      <4>2. Len([k \in 1..counter |-> events[k]]) = counter
        BY <2>3, <4>1, OneMore
      <4>3. QED
        BY <2>1, <4>2, Zenon
    <3>5. p = events
      <4>1. p = [k \in 1..Len(events) |-> events[k]]
        BY <2>2, <3>1, <3>3, Zenon
      <4>2. QED
        BY <2>3, <4>1, SMT
    <3>6. f = TRUE
      BY <2>2, <3>1, Zenon
    <3> USE DEF o, p, e, f
    <3>7. Channel!Finish
      BY <3>1, <3>3, <3>4, <3>5, <3>6, Zenon DEF Channel!Finish
    <3>8. QED
      BY <3>7 DEF Channel!Next
  <2>9. CASE SendHeader \/ Exhausted \/ SendBill \/ Leave \/ UNCHANGED vars
    <3>1. UNCHANGED <<events, counter, finalized>>
      BY <2>9, Zenon DEF SendHeader, Exhausted, SendBill, Leave, vars, chatVars, streamVars
    <3>2. QED
      BY <2>5, <3>1
  <2>10. QED
    BY <2>6, <2>7, <2>8, <2>9 DEF Next
<1>3. QED
  BY <1>1, <1>2, AllOpen, EndBegins, EndHolds, WireBegins, WireHolds, PTL
  DEF Spec, ImplementsChannel, Channel!Spec

----------------------------------------------------------------------------
(* The types.                                                               *)

\* The values the source, the usage and the frames take.
SizeInv ==
    /\ provider \in Providers /\ mode \in Modes
    /\ said \in 0..(MaxText + 1) /\ consumed \in 0..MaxUsage
    /\ asked \in [Calls -> 0..MaxPieces]
    /\ usage = consumed /\ billed \in 0..MaxUsage

\* A stream begins with nothing said, asked or used.
LEMMA SizeBegins == Init => SizeInv
<1> SUFFICES ASSUME Init
             PROVE  SizeInv
  OBVIOUS
<1>1. /\ provider \in Providers /\ mode \in Modes /\ said = 0 /\ consumed = 0 /\ usage = 0
      /\ billed = 0 /\ asked = [i \in Calls |-> 0]
  BY DEF Init, ChatInit
<1>2. 0 \in 0..(MaxText + 1) /\ 0 \in 0..MaxUsage /\ 0 \in 0..MaxPieces
  BY ChatStreamAssumption, SMT
<1>3. QED
  BY <1>1, <1>2 DEF SizeInv

\* No step goes beyond the bounds.
LEMMA SizeHolds == SizeInv /\ [Next]_vars => SizeInv'
<1> SUFFICES ASSUME SizeInv, [Next]_vars
             PROVE  SizeInv'
  OBVIOUS
<1>1. CASE UNCHANGED <<provider, mode, said, asked, consumed, usage, billed>>
  BY <1>1, Zenon DEF SizeInv
<1>2. CASE TextChunk
  <2>1. /\ said < MaxText /\ said' = said + 1
        /\ UNCHANGED <<provider, mode, asked, consumed, usage, billed>>
    BY <1>2, Zenon DEF TextChunk, frameVars
  <2>2. said' \in 0..(MaxText + 1)
    BY <2>1, ChatStreamAssumption, SMT DEF SizeInv
  <2>3. QED
    BY <2>1, <2>2, Zenon DEF SizeInv
<1>3. ASSUME NEW i \in Calls, CallChunk(i)
      PROVE  SizeInv'
  <2>1. /\ asked[i] < MaxPieces /\ asked' = [asked EXCEPT ![i] = @ + 1]
        /\ UNCHANGED <<provider, mode, said, consumed, usage, billed>>
    BY <1>3, Zenon DEF CallChunk, frameVars
  <2>2. asked[i] + 1 \in 0..MaxPieces
    BY <2>1, ChatStreamAssumption, SMT DEF SizeInv
  <2>3. asked' \in [Calls -> 0..MaxPieces]
    BY <2>1, <2>2 DEF SizeInv
  <2>4. QED
    BY <2>1, <2>3, Zenon DEF SizeInv
<1>4. ASSUME NEW d \in 0..MaxUsage, UsageChunk(d)
      PROVE  SizeInv'
  <2>1. /\ consumed + d <= MaxUsage /\ consumed' = consumed + d
        /\ usage' = (IF provider = "snapshots" THEN consumed' ELSE usage + d)
        /\ UNCHANGED <<provider, mode, said, asked, billed>>
    BY <1>4, Zenon DEF UsageChunk, frameVars
  <2>2. consumed' \in 0..MaxUsage
    BY <2>1, ChatStreamAssumption, SMT DEF SizeInv
  <2>3. usage' = consumed'
    BY <2>1, Zenon DEF SizeInv
  <2>4. QED
    BY <2>1, <2>2, <2>3, Zenon DEF SizeInv
<1>5. ASSUME NEW d \in 0..MaxUsage, InvokeOnce(d)
      PROVE  SizeInv'
  <2>1. /\ consumed' = d /\ usage' = d /\ (said' = 1 \/ said' = said)
        /\ UNCHANGED <<provider, mode, asked, billed>>
    BY <1>5, Zenon DEF InvokeOnce, frameVars
  <2>2. said' \in 0..(MaxText + 1)
    BY <2>1, ChatStreamAssumption, SMT DEF SizeInv
  <2>3. QED
    BY <2>1, <2>2, Zenon DEF SizeInv
<1>6. CASE SignFinal
  <2>1. billed' = usage /\ UNCHANGED <<provider, mode, said, asked, consumed, usage>>
    BY <1>6, Zenon DEF SignFinal, sourceVars, keptVars
  <2>2. QED
    BY <2>1, Zenon DEF SizeInv
<1>7. CASE ChunksEnd \/ Flush \/ SayDone \/ Break
  BY <1>1, <1>7, Zenon DEF ChunksEnd, Flush, SayDone, Break, sourceVars, keptVars, frameVars
<1>8. CASE \/ Leave \/ SendHeader \/ TakeEvent \/ Exhausted \/ SendBill \/ SealLast
           \/ UNCHANGED vars
  <2>1. UNCHANGED <<provider, mode, said, asked, consumed, usage, billed>>
    BY <1>8, Zenon DEF Leave, SendHeader, TakeEvent, Exhausted, SendBill, SealLast, vars, chatVars,
                       sourceVars, keptVars, frameVars
  <2>2. QED
    BY <1>1, <2>1
<1>9. QED
  BY <1>2, <1>3, <1>4, <1>5, <1>6, <1>7, <1>8 DEF Next, Generate, Step

\* Every variable keeps to its values, and the counter of the encrypter counts
\* the chunks that were sent (ohttp.py 470-520).
THEOREM StreamTypesHold == Spec => []TypeOK
<1>1. EndInv /\ ContentInv /\ WireInv /\ SizeInv => TypeOK
  <2> SUFFICES ASSUME EndInv, ContentInv, WireInv, SizeInv
               PROVE  TypeOK
    OBVIOUS
  <2>1. flushed \in 0..Len(order)
    BY SMT DEF EndInv, StreamTypes, ContentInv, OrderInv
  <2>2. counter = Len(Chunks(wire)) /\ taken \in 0..Len(events) /\ finalized \in BOOLEAN
        /\ out \in {"header", "take", "bill", "last", "closed"}
    BY Zenon DEF WireInv, ChunkInv, PlaceInv
  <2>3. gen \in {"pull", "invoke", "flush", "sign", "done", "over"}
    BY DEF EndInv
  <2>4. QED
    BY <2>1, <2>2, <2>3, Zenon DEF SizeInv, TypeOK
<1>2. QED
  BY <1>1, EndBegins, EndHolds, ContentBegins, ContentHolds, WireBegins, WireHolds, SizeBegins,
     SizeHolds, PTL DEF Spec

----------------------------------------------------------------------------
(* The nonces.                                                               *)

\* No nonce seals two chunks, and no chunk follows the final one.
NoncesDiffer ==
    \A k, l \in 1..Len(wire) :
        k < l /\ wire[k].tag = "chunk" /\ wire[l].tag = "chunk" =>
            wire[k].nonce < wire[l].nonce /\ ~wire[k].final

\* The counter is ahead of every nonce, and a final chunk is remembered.
CounterAhead ==
    \A k \in 1..Len(wire) :
        wire[k].tag = "chunk" => wire[k].nonce < counter /\ (wire[k].final => finalized)

NonceInv == NoncesDiffer /\ CounterAhead

\* A frame more, sealed with the counter or not sealed at all.
LEMMA NoncesGrow ==
    ASSUME FrameInv, FrameInv', NonceInv, NEW f, wire' = Append(wire, f),
           \/ f.tag # "chunk" /\ counter' = counter /\ finalized' = finalized
           \/ /\ ~finalized /\ f.nonce = counter /\ counter' = counter + 1
              /\ f.final => finalized'
    PROVE  NonceInv'
<1> DEFINE n == Len(wire)
<1>1. /\ n \in Nat /\ Len(wire') = n + 1 /\ wire'[n + 1] = f
      /\ \A k \in 1..n : wire'[k] = wire[k]
  <2>1. wire \in Seq(Frame)
    BY DEF FrameInv
  <2> HIDE DEF Frame
  <2>2. QED
    BY <2>1, SMT
<1>2. counter \in Nat /\ counter' \in Nat
  BY DEF FrameInv
<1>3. \A k \in 1..n : wire[k].tag = "chunk" => wire[k].nonce \in Nat
  <2>1. wire \in Seq(Frame)
    BY DEF FrameInv
  <2>2. \A k \in 1..n : wire[k] \in Frame
    BY <2>1, SMT
  <2>3. QED
    BY <2>2 DEF Frame
<1>4. \A k \in 1..n : wire[k].tag = "chunk" => wire[k].nonce < counter /\ (wire[k].final => finalized)
  BY DEF NonceInv, CounterAhead
<1> HIDE DEF n
<1>5. \A k \in 1..(n + 1) : k \in 1..n \/ k = n + 1
  BY <1>1, SMT
<1>6. CounterAhead'
  <2> SUFFICES ASSUME NEW k \in 1..Len(wire'), wire'[k].tag = "chunk"
               PROVE  wire'[k].nonce < counter' /\ (wire'[k].final => finalized')
    BY Zenon DEF CounterAhead
  <2>1. CASE k \in 1..n
    <3>1. wire[k].tag = "chunk" /\ wire'[k] = wire[k]
      BY <1>1, <2>1
    <3>2. wire[k].nonce < counter /\ wire[k].nonce \in Nat /\ (wire[k].final => finalized)
      BY <1>3, <1>4, <2>1, <3>1
    <3> DEFINE x == wire[k].nonce
    <3> HIDE DEF x
    <3>3. x < counter' /\ (finalized => finalized')
      BY <1>2, <3>2, SMT DEF x
    <3>4. QED
      BY <3>1, <3>2, <3>3 DEF x
  <2>2. CASE k = n + 1
    BY <1>1, <1>2, <2>2, SMT
  <2>3. QED
    BY <1>1, <1>5, <2>1, <2>2
<1>7. NoncesDiffer'
  <2> SUFFICES ASSUME NEW k \in 1..Len(wire'), NEW l \in 1..Len(wire'),
                      k < l, wire'[k].tag = "chunk", wire'[l].tag = "chunk"
               PROVE  wire'[k].nonce < wire'[l].nonce /\ ~wire'[k].final
    BY Zenon DEF NoncesDiffer
  <2>1. k \in 1..n
    BY <1>1, SMT
  <2>2. CASE l \in 1..n
    <3>1. wire'[k] = wire[k] /\ wire'[l] = wire[l]
      BY <1>1, <2>1, <2>2
    <3>2. QED
      BY <2>1, <2>2, <3>1, Zenon DEF NonceInv, NoncesDiffer, n
  <2>3. CASE l = n + 1
    <3>1. wire'[k] = wire[k] /\ wire'[l] = f /\ f.tag = "chunk"
      BY <1>1, <2>1, <2>3
    <3>2. f.nonce = counter /\ ~finalized
      BY <3>1
    <3>3. QED
      BY <1>4, <2>1, <3>1, <3>2
  <2>4. QED
    BY <1>1, <1>5, <2>2, <2>3
<1>8. QED
  BY <1>6, <1>7 DEF NonceInv

\* Every step seals with a nonce of its own, or sends nothing sealed.
LEMMA NoncesHold == FrameInv /\ FrameInv' /\ NonceInv /\ [Next]_vars => NonceInv'
<1> SUFFICES ASSUME FrameInv, FrameInv', NonceInv, [Next]_vars
             PROVE  NonceInv'
  OBVIOUS
<1>1. CASE UNCHANGED <<counter, finalized, wire>>
  BY <1>1, Zenon DEF NonceInv, NoncesDiffer, CounterAhead
<1>2. ASSUME NEW b, NEW final \in BOOLEAN, EncryptChunk(b, final)
      PROVE  NonceInv'
  <2> DEFINE f == [tag |-> "chunk",
                   prefix |-> EncodeVarint(IF final THEN 0 ELSE LengthOf(counter)),
                   nonce |-> counter, final |-> final, body |-> b]
  <2>1. /\ wire' = Append(wire, f) /\ ~finalized /\ counter' = counter + 1
        /\ finalized' = final
    BY <1>2, Zenon DEF EncryptChunk
  <2>2. f.nonce = counter /\ f.final = final
    OBVIOUS
  <2> HIDE DEF f
  <2>3. QED
    BY <2>1, <2>2, NoncesGrow
<1>3. ASSUME NEW t, t # "chunk", wire' = Append(wire, Plain(t)), counter' = counter,
             finalized' = finalized
      PROVE  NonceInv'
  <2>1. Plain(t).tag # "chunk"
    BY <1>3 DEF Plain
  <2>2. QED
    BY <1>3, <2>1, NoncesGrow
<1>4. CASE (out = "take" /\ Generate /\ UNCHANGED streamVars) \/ Exhausted \/ Leave \/ UNCHANGED vars
  <2>1. UNCHANGED <<counter, finalized, wire>>
    BY <1>4, Zenon DEF streamVars, Exhausted, Leave, vars
  <2>2. QED
    BY <1>1, <2>1
<1>5. CASE SendHeader
  BY <1>3, <1>5 DEF SendHeader
<1>6. CASE SendBill
  BY <1>3, <1>6 DEF SendBill
<1>7. CASE TakeEvent
  BY <1>1, <1>2, <1>7 DEF TakeEvent
<1>8. CASE SealLast
  BY <1>2, <1>8 DEF SealLast
<1>9. QED
  BY <1>4, <1>5, <1>6, <1>7, <1>8 DEF Next

\* However a stream ends, no two of its chunks are sealed under the same nonce
\* and nothing is sealed behind the final one (ohttp.py 240-277).
THEOREM NoncesAreFresh == Spec => []NoncesDiffer
<1>1. Init => NonceInv
  <2> SUFFICES ASSUME Init PROVE NonceInv
    OBVIOUS
  <2>1. wire = << >>
    BY DEF Init
  <2>2. \A k \in 1..Len(wire) : FALSE
    BY <2>1, SMT
  <2>3. QED
    BY <2>2, Zenon DEF NonceInv, NoncesDiffer, CounterAhead
<1>2. NonceInv => NoncesDiffer
  BY DEF NonceInv
<1>3. QED
  BY <1>1, <1>2, FrameBegins, FrameHolds, NoncesHold, PTL DEF Spec
=============================================================================
