---------------------------- MODULE MC_TraceUtil ----------------------------
(* Inputs for TLC: byte strings of up to three bytes over values at the  *)
(* nibble boundaries (0, 9, 10, 15, 16, 160, 255);                       *)
(* hex texts of up to three characters over digits, both cases of the   *)
(* letters and two non-hex characters; a six-byte buffer scanned for a   *)
(* two-character marker whose header is three bytes long, so that the    *)
(* index bound (BufSize - HeaderLen) and buf_len both cut the search.     *)
EXTENDS TraceUtil

MCByteVals == {0, 9, 10, 15, 16, 160, 255}

MCHexInputs ==
    LET C == {48, 57, 65, 70, 97, 102, 71, 103}   \* 0 9 A F a f G g
    IN  UNION {[1 .. n -> C] : n \in 0 .. 3}
\* "Traceparent: " scaled to two positions, the first and the sixth, which
\* are the case-insensitive ones: T/t and p/P.
MCMarker == <<{"T", "t"}, {"p", "P"}>>
MCAlphabet == {"t", "P", "x"}
=============================================================================
