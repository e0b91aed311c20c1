------------------------------- MODULE Varint -------------------------------
(***************************************************************************)
(* QUIC's variable-length integers (ohttp.py, RFC 9000 section 16), which   *)
(* frame the chunks of a streamed OHTTP response.  A byte string is a       *)
(* sequence of 0..255; the two top bits of its first byte tell its length.  *)
(***************************************************************************)
EXTENDS Integers, Sequences

\* struct.pack(">I", v).
FourBytes(v) ==
    << v \div 16777216, (v \div 65536) % 256, (v \div 256) % 256, v % 256 >>

Tagged(bits, s) == [s EXCEPT ![1] = 64 * bits + @]

MutantEncodeVarint(v) ==     \* "<=" where two bytes end
    IF v < 64 THEN << v >>
    ELSE IF v <= 16384 THEN << 64 + v \div 256, v % 256 >>
    ELSE IF v < 1073741824 THEN Tagged(2, FourBytes(v))
    ELSE LET high == (v \div 65536) \div 65536
         IN Tagged(3, FourBytes(high) \o FourBytes(v - high * 65536 * 65536))

\* encode_varint(), for v below 2^62.
EncodeVarint(v) ==
    IF v < 64 THEN << v >>
    ELSE IF v < 16384 THEN << 64 + v \div 256, v % 256 >>
    ELSE IF v < 1073741824 THEN Tagged(2, FourBytes(v))
    ELSE LET high == (v \div 65536) \div 65536
         IN Tagged(3, FourBytes(high) \o FourBytes(v - high * 65536 * 65536))

Truncated == [ok |-> FALSE, value |-> 0, next |-> 0]
Decoded(v, n) == [ok |-> TRUE, value |-> v, next |-> n]

\* int.from_bytes of four bytes from position i on, the first one given.
Word(first, s, i) == ((first * 256 + s[i + 1]) * 256 + s[i + 2]) * 256 + s[i + 3]

\* decode_varint(buf) at offset 0: the value and where the next field starts.
DecodeVarint(s) ==
    IF s = << >> THEN Truncated
    ELSE LET bits == s[1] \div 64
             low  == s[1] % 64
         IN IF bits = 0 THEN Decoded(s[1], 1)
            ELSE IF bits = 1
            THEN IF Len(s) < 2 THEN Truncated ELSE Decoded(low * 256 + s[2], 2)
            ELSE IF bits = 2
            THEN IF Len(s) < 4 THEN Truncated ELSE Decoded(Word(low, s, 1), 4)
            ELSE IF Len(s) < 8 THEN Truncated
            ELSE Decoded(Word(low, s, 1) * 65536 * 65536 + Word(s[5], s, 5), 8)
=============================================================================
