------------------------------ MODULE TraceUtil ------------------------------
(***************************************************************************)
(* The pure helpers of src/bpf/common/trace_util.h: the hex codec of trace *)
(* and span ids, and the two bounded searches for the traceparent header.  *)
(* Characters are their ASCII codes.  The search is checked at a scaled    *)
(* size: BufSize, HeaderLen, the marker and the legacy loop count stand    *)
(* for TRACE_BUF_SIZE 1024, TRACE_PARENT_HEADER_LEN 68, the 13 bytes       *)
(* "Traceparent: " and k_besteffort_max_loops 350.                        *)
(* Each step is one call with inputs from small sets; Finish ends it.      *)
(***************************************************************************)
EXTENDS Integers, Sequences

CONSTANTS
    MaxBytes,     \* longest byte string given to encode_hex
    ByteVals,     \* the byte values those strings hold
    HexInputs,    \* the strings given to decode_hex
    Alphabet,     \* the characters a scanned buffer holds
    Marker,       \* Marker[k]: the characters is_traceparent accepts at k
    BufSize,      \* TRACE_BUF_SIZE
    HeaderLen,    \* TRACE_PARENT_HEADER_LEN
    LegacyLoops   \* k_besteffort_max_loops

MarkerLen == Len(Marker)
ASSUME MarkerLen <= HeaderLen /\ HeaderLen <= BufSize /\ ByteVals \subseteq 0 .. 255
Bytes == 0 .. 255
NotFound == -1

(***************************************************************************)
(* Hex codec.                                                              *)
(***************************************************************************)

\* hex[n]: "0123456789abcdef"
HexChar(n) == IF n < 10 THEN 48 + n ELSE 87 + n

\* reverse_hex without its 'A'..'F' entries.
ReverseHexNoUpper(c) ==
    CASE c \in 48 .. 57 -> c - 48
      [] c \in 97 .. 102 -> c - 87
      [] OTHER -> 255

\* reverse_hex[c]: 0..15 for '0'-'9', 'A'-'F' and 'a'-'f', 0xff otherwise.
ReverseHex(c) ==
    CASE c \in 48 .. 57 -> c - 48
      [] c \in 65 .. 70 -> c - 55
      [] c \in 97 .. 102 -> c - 87
      [] OTHER -> 255

\* One decode_hex step without the & 0x0f masks on a and b.
DecodePairNoMask(p, q) == ReverseHex(p) * 16 + ReverseHex(q)

\* One decode_hex step: ((a & 0x0f) << 4 | (b & 0x0f)) & 0xff.
DecodePair(p, q) == (ReverseHex(p) % 16) * 16 + (ReverseHex(q) % 16)

\* One encode_hex step with the nibbles written low first.
EncodeByteSwapped(p) == <<HexChar(p % 16), HexChar(p \div 16)>>

\* One encode_hex step: hex[(p >> 4) & 0xff], hex[p & 0x0f].
EncodeByte(p) == <<HexChar(p \div 16), HexChar(p % 16)>>

\* encode_hex(dst, src, src_len)
RECURSIVE EncodeHex(_)
EncodeHex(s) == IF s = <<>> THEN <<>> ELSE EncodeByte(Head(s)) \o EncodeHex(Tail(s))

\* decode_hex(dst, src, src_len): pairs while i < src_len, so an odd last
\* character is ignored.
RECURSIVE DecodeHex(_)
DecodeHex(s) ==
    IF Len(s) < 2 THEN <<>>
    ELSE <<DecodePair(s[1], s[2])>> \o DecodeHex(SubSeq(s, 3, Len(s)))

IsHexChar(c) == c \in (48 .. 57) \cup (65 .. 70) \cup (97 .. 102)
Lower(c) == IF c \in 65 .. 70 THEN c + 32 ELSE c

(***************************************************************************)
(* Traceparent search.  A buffer is a function from 0 .. BufSize - 1;     *)
(* bytes at and past buf_len are what an earlier use left there.          *)
(***************************************************************************)

Buffers == [0 .. BufSize - 1 -> Alphabet]

\* is_traceparent(&buf[i]); a byte past the buffer never matches.
IsTraceparent(buf, i) ==
    \A k \in 1 .. MarkerLen :
        i + k - 1 < BufSize /\ buf[i + k - 1] \in Marker[k]

\* The last byte is_traceparent(&buf[i]) may compare.
LastRead(i) == i + MarkerLen - 1

\* tp_match without its index >= TRACE_BUF_SIZE - TRACE_PARENT_HEADER_LEN stop.
RECURSIVE TpLoopUnbounded(_, _, _, _)
TpLoopUnbounded(buf, index, nr, read) ==
    IF index >= nr THEN [pos |-> 0, read |-> read]
    ELSE IF IsTraceparent(buf, index)
         THEN [pos |-> index, read |-> LastRead(index)]
         ELSE TpLoopUnbounded(buf, index + 1, nr, LastRead(index))

\* bpf_loop(nr_loops, tp_match, &data, 0): index from 0 while < nr_loops;
\* tp_match stops the loop at the bound or at a match, whose index it
\* stores in data.pos (left 0 otherwise).  read: the last byte compared.
RECURSIVE TpLoop(_, _, _, _)
TpLoop(buf, index, nr, read) ==
    IF index >= nr THEN [pos |-> 0, read |-> read]
    ELSE IF index >= BufSize - HeaderLen THEN [pos |-> 0, read |-> read]
    ELSE IF IsTraceparent(buf, index)
         THEN [pos |-> index, read |-> LastRead(index)]
         ELSE TpLoop(buf, index + 1, nr, LastRead(index))

\* bpf_strstr_tp_loop(buf, buf_len): data.pos == 0 means not found.
BpfStrstrTpLoop(buf, len, enabled) ==
    IF ~enabled THEN [pos |-> NotFound, read |-> -1]
    ELSE LET r == TpLoop(buf, 0, len, -1)
         IN  [pos |-> IF r.pos # 0 /\ r.pos <= BufSize - HeaderLen
                      THEN r.pos ELSE NotFound,
              read |-> r.read]

\* bpf_strstr_tp_loop__legacy(buf, buf_len): buf_len is ignored, offsets
\* 0 .. k_besteffort_max_loops - 1 are tried.
RECURSIVE LegacyLoop(_, _, _)
LegacyLoop(buf, i, read) ==
    IF i >= LegacyLoops THEN [pos |-> NotFound, read |-> read]
    ELSE IF IsTraceparent(buf, i) THEN [pos |-> i, read |-> LastRead(i)]
    ELSE LegacyLoop(buf, i + 1, LastRead(i))

BpfStrstrTpLoopLegacy(buf, len, enabled) ==
    IF ~enabled THEN [pos |-> NotFound, read |-> -1]
    ELSE LegacyLoop(buf, 0, -1)

\* The search the spec describes (4.1): the first offset whose marker lies
\* inside the buf_len bytes, among the capped candidate offsets.
FirstMatch(buf, len, enabled) ==
    LET C == {i \in 0 .. BufSize - HeaderLen - 1 :
                 i + MarkerLen <= len /\ IsTraceparent(buf, i)}
    IN  IF ~enabled \/ C = {} THEN NotFound
        ELSE CHOOSE i \in C : \A j \in C : i <= j

(***************************************************************************)
(* Calls.                                                                  *)
(***************************************************************************)

VARIABLES op, arg, res
vars == <<op, arg, res>>

ByteStrings == UNION {[1 .. n -> ByteVals] : n \in 0 .. MaxBytes}
ScanArgs == [buf : Buffers, len : 0 .. BufSize, enabled : BOOLEAN]

TypeOK ==
    /\ op \in {"none", "roundtrip", "decode", "scan", "legacy"}
    /\ op \in {"roundtrip", "decode"} => res \in Seq(Bytes)
    /\ op \in {"scan", "legacy"} =>
            res \in [pos : {NotFound} \cup 0 .. BufSize - 1,
                     read : -1 .. BufSize + MarkerLen]

Init == op = "none" /\ arg = <<>> /\ res = <<>>

\* encode_hex of a byte string, then decode_hex of the text it wrote.
EncodeThenDecode(b) ==
    /\ op = "none"
    /\ op' = "roundtrip" /\ arg' = b /\ res' = DecodeHex(EncodeHex(b))

\* decode_hex of a string read from a header.
Decode(s) ==
    /\ op = "none"
    /\ op' = "decode" /\ arg' = s /\ res' = DecodeHex(s)

Scan(a) ==
    /\ op = "none"
    /\ op' = "scan" /\ arg' = a
    /\ res' = BpfStrstrTpLoop(a.buf, a.len, a.enabled)

ScanLegacy(a) ==
    /\ op = "none"
    /\ op' = "legacy" /\ arg' = a
    /\ res' = BpfStrstrTpLoopLegacy(a.buf, a.len, a.enabled)

Finish == op # "none" /\ op' = "none" /\ arg' = <<>> /\ res' = <<>>

Next ==
    \/ \E b \in ByteStrings : EncodeThenDecode(b)
    \/ \E s \in HexInputs : Decode(s)
    \/ \E a \in ScanArgs : Scan(a) \/ ScanLegacy(a)
    \/ Finish

Spec == Init /\ [][Next]_vars

(***************************************************************************)
(* Properties.                                                             *)
(***************************************************************************)

\* decode_hex(encode_hex(bytes)) == bytes: the ids written into a
\* traceparent header come back unchanged when it is parsed.
HexRoundTrip == op = "roundtrip" => res = arg

\* Decoding any even-length hex text, upper or lower case, and encoding the
\* result again gives the text in lower case: decode_hex accepts both cases
\* and loses nothing.
HexDecodeCanonical ==
    (op = "decode" /\ Len(arg) % 2 = 0 /\ \A i \in DOMAIN arg : IsHexChar(arg[i]))
    => EncodeHex(res) = [i \in DOMAIN arg |-> Lower(arg[i])]

\* Both searches stay inside the buffer and only report an offset that
\* leaves room for the whole header after it: tp_match's index bound and
\* the legacy loop count keep every read below TRACE_BUF_SIZE.
ScanBounded ==
    op \in {"scan", "legacy"} =>
        /\ res.read < BufSize
        /\ res.pos # NotFound => res.pos + HeaderLen <= BufSize

\* bpf_strstr_tp_loop returns the first offset at which the marker lies
\* inside the buf_len bytes (spec 4.1).
ScanFindsFirstMatch ==
    op = "scan" => res.pos = FirstMatch(arg.buf, arg.len, arg.enabled)
=============================================================================
