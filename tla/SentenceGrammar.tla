-------------------------- MODULE SentenceGrammar --------------------------
(***************************************************************************)
(* What a NMEA 0183 sentence is, with no state machine: the reference the  *)
(* byte-by-byte parser is checked against.  A frame is what follows the    *)
(* last delimiter: a body with neither '*' nor an end of line, a '*' and   *)
(* two hexadecimal digits.  The limits are those of the static buffers of  *)
(* parser/Parser.hpp.                                                      *)
(***************************************************************************)
EXTENDS Integers, Sequences

CONSTANTS
    Delimiters,     \* '$' and '!'
    Eol,            \* CR and LF
    Star, Comma,
    Payload,        \* every other byte
    Hex,            \* the payload bytes that are hexadecimal digits
    HexNibble,      \* their value
    Code,           \* the eight bits of a payload byte and of the comma
    ChecksumXor(_, _),      \* on eight bits
    kMaxSentence,   \* capacity of buf_
    kMaxFields      \* capacity of field_views_; tokens_ has one more

Bytes == Delimiters \cup Eol \cup {Star, Comma} \cup Payload

ASSUME GrammarAssumption ==
    /\ Delimiters \cap (Eol \cup {Star, Comma} \cup Payload) = {}
    /\ Eol \cap ({Star, Comma} \cup Payload) = {}
    /\ Star # Comma /\ Star \notin Payload /\ Comma \notin Payload
    /\ Hex \subseteq Payload
    /\ HexNibble \in [Hex -> 0..15]
    /\ Code \in [Payload \cup {Comma} -> 0..255]
    /\ kMaxSentence \in Nat /\ kMaxFields \in Nat

ASSUME XorAssumption == \A a, b \in 0..255 : ChecksumXor(a, b) \in 0..255

(* The checksum of a body: the exclusive or of its bytes, commas included. *)
Checksum(body) ==
    LET x[i \in 0..Len(body)] == IF i = 0 THEN 0 ELSE ChecksumXor(x[i-1], Code[body[i]])
    IN  x[Len(body)]

Count(s, set) == LET c[i \in 0..Len(s)] ==
                         IF i = 0 THEN 0 ELSE c[i-1] + (IF s[i] \in set THEN 1 ELSE 0)
                 IN  c[Len(s)]

Body(frame) == SubSeq(frame, 1, Len(frame) - 3)

(* The bytes since the delimiter are a frame the buffers can hold. *)
IsFrame(frame) ==
    LET n == Len(frame) IN
    /\ n >= 3
    /\ frame[n-2] = Star /\ frame[n-1] \in Hex /\ frame[n] \in Hex
    /\ Count(Body(frame), Eol \cup {Star}) = 0
    /\ Count(Body(frame), Payload) <= kMaxSentence
    /\ Count(Body(frame), {Comma}) <= kMaxFields

Announced(frame) ==
    16 * HexNibble[frame[Len(frame) - 1]] + HexNibble[frame[Len(frame)]]

(* The pieces of a body, put together again. *)
JoinedByCommas(pieces) ==
    LET j[i \in 1..Len(pieces)] == IF i = 1 THEN pieces[1]
                                   ELSE j[i-1] \o <<Comma>> \o pieces[i]
    IN  j[Len(pieces)]
=============================================================================
