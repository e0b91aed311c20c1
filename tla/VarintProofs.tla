---------------------------- MODULE VarintProofs ----------------------------
(***************************************************************************)
(* What the runs show of a few lengths, for every length below 2^62.        *)
(***************************************************************************)
EXTENDS Varint, SequenceTheorems, TLAPS

\* Below 2^62, which is what encode_varint() takes: its upper word is below 2^30.
Encodable(v) == (v \div 65536) \div 65536 < 1073741824

\* Two words hold such a number, the upper one below 2^30.
LEMMA Halves ==
    ASSUME NEW v \in Nat, Encodable(v)
    PROVE  LET high == (v \div 65536) \div 65536
               low  == v - high * 65536 * 65536
           IN /\ high \in Nat /\ high < 1073741824
              /\ low \in Nat /\ low < 65536 * 65536
  BY SMT DEF Encodable

\* Four bytes are bytes.
IsWord(s) ==
    /\ s = <<s[1], s[2], s[3], s[4]>>
    /\ s[1] \in 0..255 /\ s[2] \in 0..255 /\ s[3] \in 0..255 /\ s[4] \in 0..255

\* Four bytes give back the number they were made of.
LEMMA WordOfFourBytes ==
    ASSUME NEW v \in Nat, v < 65536 * 65536
    PROVE  LET s == FourBytes(v)
           IN /\ IsWord(s)
              /\ s[1] = v \div 16777216
              /\ ((s[1] * 256 + s[2]) * 256 + s[3]) * 256 + s[4] = v
<1> DEFINE a == v \div 256
           b == a \div 256
           c == b \div 256
<1>1. a \in Nat /\ b \in Nat /\ c \in Nat /\ c < 256
  BY SMT
<1>2. v \div 65536 = b
  BY SMT
<1>3. v \div 16777216 = c
  BY SMT
<1>4. /\ v % 256 \in 0..255 /\ v = (a * 256) + (v % 256)
      /\ a % 256 \in 0..255 /\ a = (b * 256) + (a % 256)
      /\ b % 256 \in 0..255 /\ b = (c * 256) + (b % 256)
  BY <1>1, SMT
<1>5. FourBytes(v) = <<c, b % 256, a % 256, v % 256>>
  BY <1>2, <1>3, SMT DEF FourBytes
<1>6. c \in 0..255
  BY <1>1, SMT
<1> DEFINE x == v % 256
           y == a % 256
           z == b % 256
<1> HIDE DEF a, b, c, x, y, z
<1>7. ((c * 256 + z) * 256 + y) * 256 + x = v
  BY <1>1, <1>4, SMT DEF x, y, z
<1>8. FourBytes(v) = <<c, z, y, x>>
  BY <1>5, SMT DEF x, y, z
<1>9. x \in 0..255 /\ y \in 0..255 /\ z \in 0..255
  BY <1>4, SMT DEF x, y, z
<1>10. QED
  BY <1>3, <1>6, <1>7, <1>8, <1>9, SMT DEF IsWord

\* Tagging a word changes its first byte and no other.
LEMMA TaggedForm ==
    ASSUME NEW s, IsWord(s), NEW bits \in 0..3
    PROVE  Tagged(bits, s) = <<64 * bits + s[1], s[2], s[3], s[4]>>
<1> DEFINE p == s[1]
           q == s[2]
           r == s[3]
           t == s[4]
<1>1. s = <<p, q, r, t>> /\ p \in Int /\ q \in Int /\ r \in Int /\ t \in Int
  BY SMT DEF IsWord
<1> HIDE DEF p, q, r, t
<1>2. [<<p, q, r, t>> EXCEPT ![1] = 64 * bits + @] = <<64 * bits + p, q, r, t>>
  BY <1>1, SMT
<1>3. Tagged(bits, s) = [<<p, q, r, t>> EXCEPT ![1] = 64 * bits + @]
  BY <1>1, Zenon DEF Tagged
<1>4. QED
  BY <1>2, <1>3, Zenon DEF p, q, r, t

\* Marking the top bits of the first byte leaves the rest of the word readable.
LEMMA TaggedWord ==
    ASSUME NEW v \in Nat, v < 1073741824, NEW bits \in 0..3
    PROVE  LET f == FourBytes(v)
               s == Tagged(bits, f)
           IN /\ IsWord(s) /\ s = <<64 * bits + f[1], f[2], f[3], f[4]>>
              /\ s[1] \div 64 = bits
              /\ Word(s[1] % 64, s, 1) = v
<1> DEFINE f == FourBytes(v)
           g == 64 * bits + f[1]
<1>1. /\ IsWord(f) /\ f[1] = v \div 16777216
      /\ ((f[1] * 256 + f[2]) * 256 + f[3]) * 256 + f[4] = v
  BY WordOfFourBytes, SMT
<1>2. f[1] \in 0..63
  BY <1>1, SMT
<1> HIDE DEF f
<1>4. Tagged(bits, f) = <<g, f[2], f[3], f[4]>>
  BY <1>1, TaggedForm, SMT
<1>5. g \in 0..255 /\ g \div 64 = bits /\ g % 64 = f[1]
  BY <1>2, SMT
<1> HIDE DEF g
<1>6. IsWord(Tagged(bits, f))
  BY <1>1, <1>4, <1>5, SMT DEF IsWord
<1>7. Word(g % 64, Tagged(bits, f), 1) = v
  BY <1>1, <1>4, <1>5, SMT DEF Word
<1>8. QED
  BY <1>4, <1>5, <1>6, <1>7, SMT DEF f, g

\* What has the four elements of one sequence and then the four of another.
LEMMA EightOf ==
    ASSUME NEW x \in Seq(Int), NEW y \in Seq(Int), NEW z \in Seq(Int),
           Len(x) = 4, Len(y) = 4, Len(z) = 8,
           \A i \in 1..8 : z[i] = IF i <= 4 THEN x[i] ELSE y[i - 4]
    PROVE  x \o y = z
<1> DEFINE w == x \o y
<1>1. /\ w \in Seq(Int) /\ Len(w) = Len(x) + Len(y)
      /\ \A i \in 1 .. Len(x) + Len(y) : w[i] = IF i <= Len(x) THEN x[i] ELSE y[i - Len(x)]
  BY ConcatProperties, Zenon
<1> HIDE DEF w
<1>2. Len(w) = Len(z) /\ \A i \in 1..Len(w) : w[i] = z[i]
  BY <1>1, SMT
<1>3. w = z
  BY <1>1, <1>2, SeqEqual, Zenon
<1>4. QED
  BY <1>3 DEF w

\* Two words make eight bytes.
LEMMA TwoWords ==
    ASSUME NEW f, NEW l, IsWord(f), IsWord(l)
    PROVE  f \o l = <<f[1], f[2], f[3], f[4], l[1], l[2], l[3], l[4]>>
<1> DEFINE a == f[1]
           b == f[2]
           c == f[3]
           d == f[4]
           p == l[1]
           q == l[2]
           r == l[3]
           t == l[4]
           x == <<a, b, c, d>>
           y == <<p, q, r, t>>
           z == <<a, b, c, d, p, q, r, t>>
<1>1. f = x /\ l = y
  BY Zenon DEF IsWord
<1>2. /\ a \in Int /\ b \in Int /\ c \in Int /\ d \in Int
      /\ p \in Int /\ q \in Int /\ r \in Int /\ t \in Int
  BY SMT DEF IsWord
<1> HIDE DEF a, b, c, d, p, q, r, t
<1>3. x \in Seq(Int) /\ y \in Seq(Int) /\ Len(x) = 4 /\ Len(y) = 4
  BY <1>2, SMT
<1>4. z \in Seq(Int) /\ Len(z) = 8
  BY <1>2, SMT
<1>5. \A i \in 1..8 : z[i] = IF i <= 4 THEN x[i] ELSE y[i - 4]
  BY SMT
<1> HIDE DEF x, y, z
<1>6. x \o y = z
  BY <1>3, <1>4, <1>5, EightOf, Zenon
<1>7. QED
  BY <1>1, <1>6, Zenon DEF z, a, b, c, d, p, q, r, t

\* Tagging them changes the first one.
LEMMA TaggedWords ==
    ASSUME NEW f, NEW l, IsWord(f), IsWord(l), NEW bits \in 0..3
    PROVE  Tagged(bits, f \o l)
           = <<64 * bits + f[1], f[2], f[3], f[4], l[1], l[2], l[3], l[4]>>
<1> DEFINE a == f[1]
           b == f[2]
           c == f[3]
           d == f[4]
           p == l[1]
           q == l[2]
           r == l[3]
           t == l[4]
<1>1. f \o l = <<a, b, c, d, p, q, r, t>>
  BY TwoWords, Zenon
<1>2. a \in Int
  BY SMT DEF IsWord
<1> HIDE DEF a, b, c, d, p, q, r, t
<1>3. [<<a, b, c, d, p, q, r, t>> EXCEPT ![1] = 64 * bits + @]
      = <<64 * bits + a, b, c, d, p, q, r, t>>
  BY <1>2, SMT
<1>4. Tagged(bits, f \o l) = <<64 * bits + a, b, c, d, p, q, r, t>>
  BY <1>1, <1>3, Zenon DEF Tagged
<1>5. QED
  BY <1>4, Zenon DEF a, b, c, d, p, q, r, t

\* The eight bytes of the longest form: the upper word, tagged, and the lower one.
LEMMA LongForm ==
    ASSUME NEW high \in Nat, high < 1073741824, NEW low \in Nat, low < 65536 * 65536
    PROVE  LET h == Tagged(3, FourBytes(high))
               l == FourBytes(low)
           IN /\ IsWord(h) /\ IsWord(l)
              /\ Tagged(3, FourBytes(high) \o l)
                 = <<h[1], h[2], h[3], h[4], l[1], l[2], l[3], l[4]>>
<1> DEFINE h == Tagged(3, FourBytes(high))
           l == FourBytes(low)
           f == FourBytes(high)
           g == 64 * 3 + f[1]
           whole == Tagged(3, f \o l)
<1>1. IsWord(l)
  BY WordOfFourBytes, SMT
<1>2. IsWord(h)
  BY TaggedWord, SMT
<1>3. IsWord(f) /\ h = <<g, f[2], f[3], f[4]>>
  BY WordOfFourBytes, TaggedWord, SMT
<1>4. h[1] = g /\ h[2] = f[2] /\ h[3] = f[3] /\ h[4] = f[4]
  <2> HIDE DEF h, g, f
  <2>1. QED
    BY <1>3, SMT
<1>5. whole = <<g, f[2], f[3], f[4], l[1], l[2], l[3], l[4]>>
  <2> HIDE DEF f, l
  <2>1. 3 \in 0..3
    BY SMT
  <2>2. QED
    BY <1>1, <1>3, <2>1, TaggedWords
<1> HIDE DEF f, h, l, g, whole
<1>6. whole = <<h[1], h[2], h[3], h[4], l[1], l[2], l[3], l[4]>>
  BY <1>4, <1>5, SMT
<1>7. QED
  BY <1>1, <1>2, <1>6, SMT DEF f, h, l, whole

\* A length decodes to itself and the next field starts right behind it: the
\* framing of a chunk (ohttp.py 65-115) is exact for every length it can encode,
\* at the boundaries 2^6, 2^14 and 2^30 as between them.
THEOREM VarintRoundTrip ==
    ASSUME NEW v \in Nat, Encodable(v)
    PROVE  LET s == EncodeVarint(v)
           IN DecodeVarint(s) = Decoded(v, Len(s))
<1> DEFINE high == (v \div 65536) \div 65536
           low == v - high * 65536 * 65536
<1>1. CASE v < 64
  <2>1. EncodeVarint(v) = <<v>>
    BY <1>1, SMT DEF EncodeVarint
  <2>2. v \div 64 = 0
    BY <1>1, SMT
  <2>3. QED
    BY <2>1, <2>2, SMT DEF DecodeVarint
<1>2. CASE v >= 64 /\ v < 16384
  <2>1. EncodeVarint(v) = <<64 + v \div 256, v % 256>>
    BY <1>2, SMT DEF EncodeVarint
  <2>2. /\ (64 + v \div 256) \div 64 = 1
        /\ ((64 + v \div 256) % 64) * 256 + (v % 256) = v
    BY <1>2, SMT
  <2> DEFINE p == 64 + v \div 256
             q == v % 256
  <2>3. p \div 64 = 1 /\ (p % 64) * 256 + q = v
    BY <2>2
  <2> HIDE DEF p, q
  <2>4. Len(<<p, q>>) = 2 /\ <<p, q>> # << >> /\ <<p, q>>[1] = p /\ <<p, q>>[2] = q
    BY SMT
  <2>5. DecodeVarint(<<p, q>>) = Decoded((p % 64) * 256 + q, 2)
    BY <2>3, <2>4, SMT DEF DecodeVarint
  <2>6. DecodeVarint(<<p, q>>) = Decoded(v, Len(<<p, q>>))
    BY <2>3, <2>4, <2>5, SMT
  <2>7. EncodeVarint(v) = <<p, q>>
    BY <2>1 DEF p, q
  <2>8. QED
    BY <2>6, <2>7, SMT
<1>3. CASE v >= 16384 /\ v < 1073741824
  <2> DEFINE s == Tagged(2, FourBytes(v))
  <2>1. EncodeVarint(v) = s
    BY <1>3, SMT DEF EncodeVarint
  <2>2. IsWord(s) /\ s[1] \div 64 = 2 /\ Word(s[1] % 64, s, 1) = v
    BY <1>3, TaggedWord, SMT
  <2> HIDE DEF s
  <2>3. s # << >> /\ Len(s) = 4
    BY <2>2, SMT DEF IsWord
  <2>4. QED
    BY <2>1, <2>2, <2>3, SMT DEF DecodeVarint
<1>4. CASE v >= 1073741824
  <2> DEFINE h == Tagged(3, FourBytes(high))
             l == FourBytes(low)
             s == Tagged(3, FourBytes(high) \o l)
  <2>1. high \in Nat /\ high < 1073741824 /\ low \in Nat /\ low < 65536 * 65536
    BY Halves
  <2>2. EncodeVarint(v) = s
    BY <1>4, SMT DEF EncodeVarint
  <2>3. IsWord(h) /\ h[1] \div 64 = 3 /\ Word(h[1] % 64, h, 1) = high
    BY <2>1, TaggedWord, SMT
  <2>4. IsWord(l) /\ ((l[1] * 256 + l[2]) * 256 + l[3]) * 256 + l[4] = low
    BY <2>1, WordOfFourBytes, SMT
  <2>5. s = <<h[1], h[2], h[3], h[4], l[1], l[2], l[3], l[4]>>
    BY <2>1, LongForm, SMT
  <2>6. Len(s) = 8 /\ \A k \in 1..4 : s[k] = h[k] /\ s[k + 4] = l[k]
    BY <2>5, SMT
  <2>7. Word(s[1] % 64, s, 1) = high
    BY <2>3, <2>6, SMT DEF Word
  <2>8. Word(s[5], s, 5) = low
    BY <2>4, <2>6, SMT DEF Word
  <2>9. high * 65536 * 65536 + low = v
    BY <2>1, SMT DEF low
  <2>10. s # << >> /\ s[1] \div 64 = 3
    BY <2>3, <2>6, SMT
  <2> HIDE DEF s, h, l, high, low
  <2>11. DecodeVarint(s)
         = Decoded(Word(s[1] % 64, s, 1) * 65536 * 65536 + Word(s[5], s, 5), 8)
    BY <2>6, <2>10, SMT DEF DecodeVarint
  <2>12. DecodeVarint(s) = Decoded(v, Len(s))
    BY <2>6, <2>7, <2>8, <2>9, <2>11, SMT
  <2>13. QED
    BY <2>2, <2>12, SMT DEF s
<1>5. QED
  BY <1>1, <1>2, <1>3, <1>4, SMT

\* Words are strings of bytes, one or two of them.
LEMMA WordsAreBytes ==
    ASSUME NEW f, NEW l, IsWord(f), IsWord(l)
    PROVE  /\ f \in Seq(Nat)
           /\ <<f[1], f[2], f[3], f[4], l[1], l[2], l[3], l[4]>> \in Seq(Nat)
<1> DEFINE a == f[1]
           b == f[2]
           c == f[3]
           d == f[4]
           p == l[1]
           q == l[2]
           r == l[3]
           t == l[4]
<1>1. f = <<a, b, c, d>>
  BY Zenon DEF IsWord
<1>2. /\ a \in 0..255 /\ b \in 0..255 /\ c \in 0..255 /\ d \in 0..255
      /\ p \in 0..255 /\ q \in 0..255 /\ r \in 0..255 /\ t \in 0..255
  BY Zenon DEF IsWord
<1> HIDE DEF a, b, c, d, p, q, r, t
<1>3. /\ a \in Nat /\ b \in Nat /\ c \in Nat /\ d \in Nat
      /\ p \in Nat /\ q \in Nat /\ r \in Nat /\ t \in Nat
  BY <1>2, SMT
<1>4. <<a, b, c, d>> \in Seq(Nat) /\ <<a, b, c, d, p, q, r, t>> \in Seq(Nat)
  BY <1>3, SMT
<1>5. QED
  BY <1>1, <1>4, Zenon DEF a, b, c, d, p, q, r, t

\* An encoded length is a string of bytes.
LEMMA EncodedIsBytes ==
    ASSUME NEW v \in Nat, Encodable(v)
    PROVE  EncodeVarint(v) \in Seq(Nat)
<1> DEFINE high == (v \div 65536) \div 65536
           low == v - high * 65536 * 65536
<1>1. CASE v < 64
  BY <1>1, SMT DEF EncodeVarint
<1>2. CASE v >= 64 /\ v < 16384
  <2>1. 64 + v \div 256 \in Nat /\ v % 256 \in Nat
    BY SMT
  <2>2. EncodeVarint(v) = <<64 + v \div 256, v % 256>>
    BY <1>2, SMT DEF EncodeVarint
  <2>3. QED
    BY <2>1, <2>2, SMT
<1>3. CASE v >= 16384 /\ v < 1073741824
  <2> DEFINE s == Tagged(2, FourBytes(v))
  <2>1. EncodeVarint(v) = s
    BY <1>3, SMT DEF EncodeVarint
  <2>2. IsWord(s)
    BY <1>3, TaggedWord, SMT
  <2> HIDE DEF s
  <2>3. QED
    BY <2>1, <2>2, WordsAreBytes, SMT
<1>4. CASE v >= 1073741824
  <2> DEFINE h == Tagged(3, FourBytes(high))
             l == FourBytes(low)
             whole == Tagged(3, FourBytes(high) \o l)
             bytes == <<h[1], h[2], h[3], h[4], l[1], l[2], l[3], l[4]>>
  <2>1. high \in Nat /\ high < 1073741824 /\ low \in Nat /\ low < 65536 * 65536
    BY Halves
  <2>2. EncodeVarint(v) = whole
    BY <1>4, SMT DEF EncodeVarint
  <2>3. IsWord(h) /\ IsWord(l) /\ whole = bytes
    BY <2>1, LongForm, SMT
  <2>4. bytes \in Seq(Nat)
    <3> HIDE DEF h, l
    <3>1. QED
      BY <2>3, WordsAreBytes
  <2> HIDE DEF whole, bytes
  <2>5. QED
    BY <2>2, <2>3, <2>4, SMT
<1>5. QED
  BY <1>1, <1>2, <1>3, <1>4, SMT

\* What is read in full has the bytes its first one announces.
LEMMA WholeLength ==
    ASSUME NEW s \in Seq(Nat), NEW v \in Nat, DecodeVarint(s) = Decoded(v, Len(s))
    PROVE  /\ s # << >>
           /\ Len(s) = IF s[1] \div 64 = 0 THEN 1 ELSE IF s[1] \div 64 = 1 THEN 2
                       ELSE IF s[1] \div 64 = 2 THEN 4 ELSE 8
<1>1. Decoded(v, Len(s)).ok /\ ~Truncated.ok /\ Decoded(v, Len(s)).next = Len(s)
  BY Zenon DEF Decoded, Truncated
<1>2. DecodeVarint(s) # Truncated
  BY <1>1, Zenon
<1>3. s # << >>
  <2>1. s = << >> => DecodeVarint(s) = Truncated
    BY SMT DEF DecodeVarint
  <2>2. QED
    BY <1>2, <2>1
<1>4. \A w, n : Decoded(w, n).next = n
  BY Zenon DEF Decoded
<1> DEFINE bits == s[1] \div 64
           D == DecodeVarint(s)
<1>5. ASSUME NEW w, NEW n, D = Truncated \/ D = Decoded(w, n)
      PROVE  Len(s) = n
  <2>1. D = Decoded(w, n)
    BY <1>2, <1>5
  <2>2. Decoded(w, n).next = Decoded(v, Len(s)).next
    BY <2>1
  <2>3. QED
    BY <1>4, <2>2, SMT
<1>6. /\ bits = 0 => Len(s) = 1
      /\ bits = 1 => Len(s) = 2
      /\ bits = 2 => Len(s) = 4
      /\ bits \notin {0, 1, 2} => Len(s) = 8
  <2>1. CASE bits = 0
    <3>1. D = Decoded(s[1], 1)
      BY <1>3, <2>1, SMT DEF DecodeVarint
    <3>2. Len(s) = 1
      BY <1>5, <3>1, Zenon
    <3>3. QED
      BY <2>1, <3>2, SMT
  <2>2. CASE bits = 1
    <3>1. D = Truncated \/ D = Decoded((s[1] % 64) * 256 + s[2], 2)
      BY <1>3, <2>2, SMT DEF DecodeVarint
    <3>2. Len(s) = 2
      BY <1>5, <3>1, Zenon
    <3>3. QED
      BY <2>2, <3>2, SMT
  <2>3. CASE bits = 2
    <3>1. D = Truncated \/ D = Decoded(Word(s[1] % 64, s, 1), 4)
      BY <1>3, <2>3, SMT DEF DecodeVarint
    <3>2. Len(s) = 4
      BY <1>5, <3>1, Zenon
    <3>3. QED
      BY <2>3, <3>2, SMT
  <2>4. CASE bits \notin {0, 1, 2}
    <3> DEFINE w == Word(s[1] % 64, s, 1) * 65536 * 65536 + Word(s[5], s, 5)
    <3>1. D = Truncated \/ D = Decoded(w, 8)
      BY <1>3, <2>4, SMT DEF DecodeVarint
    <3> HIDE DEF w
    <3>2. Len(s) = 8
      BY <1>5, <3>1, Zenon
    <3>3. QED
      BY <2>4, <3>2, SMT
  <2>5. QED
    BY <2>1, <2>2, <2>3, <2>4
<1> HIDE DEF bits
<1>7. QED
  BY <1>3, <1>6, SMT DEF bits

\* Short of those bytes nothing is read.
LEMMA TooShort ==
    ASSUME NEW s \in Seq(Nat), s = << >> \/ Len(s) < IF s[1] \div 64 = 0 THEN 1
               ELSE IF s[1] \div 64 = 1 THEN 2 ELSE IF s[1] \div 64 = 2 THEN 4 ELSE 8
    PROVE  ~DecodeVarint(s).ok
<1>1. DecodeVarint(s) = Truncated
  BY SMT DEF DecodeVarint
<1>2. ~Truncated.ok
  BY Zenon DEF Truncated
<1>3. QED
  BY <1>1, <1>2, Zenon

\* No part of an encoded length, short of the whole, is taken for a length: a
\* frame that was cut within its length is seen to be cut (ohttp.py 91-115).
THEOREM CutLengthRefused ==
    ASSUME NEW v \in Nat, Encodable(v),
           NEW n \in 0..(Len(EncodeVarint(v)) - 1)
    PROVE  ~DecodeVarint(SubSeq(EncodeVarint(v), 1, n)).ok
<1> DEFINE s == EncodeVarint(v)
           t == SubSeq(s, 1, n)
<1>1. s \in Seq(Nat) /\ Len(s) \in Nat
  BY EncodedIsBytes, SMT
<1>2. DecodeVarint(s) = Decoded(v, Len(s))
  BY VarintRoundTrip, SMT
<1>3. n \in 0..(Len(s) - 1)
  OBVIOUS
<1> HIDE DEF s
<1>4. s # << >>
  BY <1>1, <1>2, WholeLength, SMT
<1>5. Len(s) = IF s[1] \div 64 = 0 THEN 1 ELSE IF s[1] \div 64 = 1 THEN 2
               ELSE IF s[1] \div 64 = 2 THEN 4 ELSE 8
  BY <1>1, <1>2, WholeLength, SMT
<1>6. t \in Seq(Nat) /\ Len(t) = n /\ (n > 0 => t[1] = s[1]) /\ (n = 0 => t = << >>)
  BY <1>1, <1>3, SMT
<1> HIDE DEF t
<1>7. ~DecodeVarint(t).ok
  BY <1>3, <1>5, <1>6, TooShort, SMT
<1>8. QED
  BY <1>7, SMT DEF s, t
=============================================================================
