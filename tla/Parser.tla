------------------------------- MODULE Parser -------------------------------
(***************************************************************************)
(* The byte-driven NMEA parser (parser/Parser.hpp, .cpp): framing,         *)
(* checksum and tokenization into fixed buffers.  One action per case of   *)
(* consume(); the bytes arrive in any order, as they do on a noisy line or *)
(* when a connection opens in mid-sentence.                                *)
(*                                                                         *)
(* buf_ is the sequence of its first len_ bytes, tokens_ that of its first *)
(* token_count_ tokens.  `stream' is a history variable: what arrived      *)
(* since the last delimiter.                                               *)
(***************************************************************************)
EXTENDS SentenceGrammar

CONSTANTS
    NoStream,       \* no delimiter has arrived yet
    MaxStream       \* bound: bytes explored after a delimiter

ASSUME StreamAssumption == NoStream \notin Seq(Bytes)

VARIABLES
    fsm,            \* state_
    buf,            \* buf_[0 .. len_)
    tokens,         \* tokens_[0 .. token_count_)
    token_start,    \* cur_token_start_
    checksum,       \* checksum_
    expected,       \* expected_
    result,         \* what the last consume() returned
    stream          \* history

tokenVars == <<buf, tokens, token_start>>
vars == <<fsm, tokenVars, checksum, expected, result, stream>>

Token == [start : 0..kMaxSentence, len : 0..kMaxSentence]

TypeOK ==
    /\ fsm \in {"WaitStart", "Body", "Csum1", "Csum2"}
    /\ buf \in Seq(Payload) /\ Len(buf) <= kMaxSentence
    /\ tokens \in Seq(Token) /\ Len(tokens) <= kMaxFields + 1
    /\ token_start \in 0..kMaxSentence
    /\ checksum \in 0..255 /\ expected \in 0..255
    /\ result \in {"Incomplete", "Complete", "ChecksumError", "Overflow", "Framing"}
    /\ stream \in Seq(Bytes) \cup {NoStream}

Init ==
    /\ fsm = "WaitStart"
    /\ buf = <<>> /\ tokens = <<>> /\ token_start = 0
    /\ checksum = 0 /\ expected = 0
    /\ result = "Incomplete"
    /\ stream = NoStream

----------------------------------------------------------------------------
Seen(byte) ==
    /\ stream # NoStream => Len(stream) < MaxStream
    /\ stream' = IF stream = NoStream THEN NoStream ELSE Append(stream, byte)

GoOn(state) == fsm' = state /\ result' = "Incomplete"

GiveUp(why) == fsm' = "WaitStart" /\ result' = why

(* Variant: the start of the token is not among what reset() clears. *)
DelimiterKeepsTokenStart(byte) ==
    /\ byte \in Delimiters
    /\ buf' = <<>> /\ tokens' = <<>>
    /\ checksum' = 0 /\ expected' = 0
    /\ GoOn("Body")
    /\ stream' = <<>>
    /\ UNCHANGED token_start

(* '$' or '!', wherever it comes: reset() and a new body. *)
Delimiter(byte) ==
    /\ byte \in Delimiters
    /\ buf' = <<>> /\ tokens' = <<>> /\ token_start' = 0
    /\ checksum' = 0 /\ expected' = 0
    /\ GoOn("Body")
    /\ stream' = <<>>

(* Outside a sentence everything else is skipped. *)
Skip(byte) ==
    /\ fsm = "WaitStart"
    /\ byte \notin Delimiters
    /\ GoOn("WaitStart")
    /\ Seen(byte)
    /\ UNCHANGED <<tokenVars, checksum, expected>>

(* A line that ends without a checksum. *)
EndOfLine(byte) ==
    /\ fsm = "Body"
    /\ byte \in Eol
    /\ GiveUp("Framing")
    /\ Seen(byte)
    /\ UNCHANGED <<tokenVars, checksum, expected>>

TokenRoom == Len(tokens) <= kMaxFields

CurrentToken == [start |-> token_start, len |-> Len(buf) - token_start]

(* '*' closes the address or the last field. *)
CloseBody ==
    /\ fsm = "Body"
    /\ IF TokenRoom
       THEN tokens' = Append(tokens, CurrentToken) /\ GoOn("Csum1")
       ELSE GiveUp("Overflow") /\ UNCHANGED tokens
    /\ Seen(Star)
    /\ UNCHANGED <<buf, token_start, checksum, expected>>

(* Variant: the next field begins where this one did. *)
CloseFieldAndStay ==
    /\ fsm = "Body"
    /\ checksum' = ChecksumXor(checksum, Code[Comma])
    /\ IF TokenRoom
       THEN tokens' = Append(tokens, CurrentToken) /\ GoOn("Body")
       ELSE GiveUp("Overflow") /\ UNCHANGED tokens
    /\ Seen(Comma)
    /\ UNCHANGED <<buf, token_start, expected>>

(* A comma closes a field; it counts for the checksum and is not stored. *)
CloseField ==
    /\ fsm = "Body"
    /\ checksum' = ChecksumXor(checksum, Code[Comma])
    /\ IF TokenRoom
       THEN /\ tokens' = Append(tokens, CurrentToken)
            /\ token_start' = Len(buf)
            /\ GoOn("Body")
       ELSE GiveUp("Overflow") /\ UNCHANGED <<tokens, token_start>>
    /\ Seen(Comma)
    /\ UNCHANGED <<buf, expected>>

(* Variant: `len_ > kMaxSentence'. *)
StoreOneMore(byte) ==
    /\ fsm = "Body"
    /\ byte \in Payload
    /\ IF Len(buf) > kMaxSentence
       THEN GiveUp("Overflow") /\ UNCHANGED <<buf, checksum>>
       ELSE /\ checksum' = ChecksumXor(checksum, Code[byte])
            /\ buf' = Append(buf, byte)
            /\ GoOn("Body")
    /\ Seen(byte)
    /\ UNCHANGED <<tokens, token_start, expected>>

(* Any other byte of the body is stored, while there is room. *)
Store(byte) ==
    /\ fsm = "Body"
    /\ byte \in Payload
    /\ IF Len(buf) >= kMaxSentence
       THEN GiveUp("Overflow") /\ UNCHANGED <<buf, checksum>>
       ELSE /\ checksum' = ChecksumXor(checksum, Code[byte])
            /\ buf' = Append(buf, byte)
            /\ GoOn("Body")
    /\ Seen(byte)
    /\ UNCHANGED <<tokens, token_start, expected>>

(* hexNibble() >= 0, and < 0. *)
FirstDigit(byte) ==
    /\ fsm = "Csum1"
    /\ byte \in Hex
    /\ expected' = 16 * HexNibble[byte]
    /\ GoOn("Csum2")
    /\ Seen(byte)
    /\ UNCHANGED <<tokenVars, checksum>>

NotADigit(byte) ==
    /\ fsm \in {"Csum1", "Csum2"}
    /\ byte \notin Delimiters \cup Hex
    /\ GiveUp("Framing")
    /\ Seen(byte)
    /\ UNCHANGED <<tokenVars, checksum, expected>>

(* Variant: the second digit replaces the first. *)
SecondDigitAlone(byte) ==
    /\ fsm = "Csum2"
    /\ byte \in Hex
    /\ expected' = HexNibble[byte]
    /\ fsm' = "WaitStart"
    /\ result' = IF checksum = expected' THEN "Complete" ELSE "ChecksumError"
    /\ Seen(byte)
    /\ UNCHANGED <<tokenVars, checksum>>

(* The second digit, and finalize(); `expected_ |=' on a clear low nibble. *)
SecondDigit(byte) ==
    /\ fsm = "Csum2"
    /\ byte \in Hex
    /\ expected' = expected + HexNibble[byte]
    /\ fsm' = "WaitStart"
    /\ result' = IF checksum = expected' THEN "Complete" ELSE "ChecksumError"
    /\ Seen(byte)
    /\ UNCHANGED <<tokenVars, checksum>>

Consume(byte) ==
    \/ Delimiter(byte)
    \/ Skip(byte)
    \/ EndOfLine(byte)
    \/ byte = Star /\ CloseBody
    \/ byte = Comma /\ CloseField
    \/ Store(byte)
    \/ FirstDigit(byte) \/ NotADigit(byte)
    \/ SecondDigit(byte)

Next == \E byte \in Bytes : Consume(byte)

Spec == Init /\ [][Next]_vars

----------------------------------------------------------------------------
(* The bytes a token stands for: string_view(buf_.data() + start, len). *)
Text(token) == SubSeq(buf, token.start + 1, token.start + token.len)

(***************************************************************************)
(* The address and the fields are consecutive and cover the buffer: no     *)
(* token overlaps another, reaches past the bytes stored since the last    *)
(* delimiter, or is left over from an earlier sentence                     *)
(* (Parser.cpp:23-34, 68-86).                                              *)
(***************************************************************************)
TokensTileTheBuffer ==
    LET End(i) == IF i = 0 THEN 0 ELSE tokens[i].start + tokens[i].len IN
    /\ \A i \in 1..Len(tokens) : tokens[i].start = End(i - 1)
    /\ fsm = "Body" => token_start = End(Len(tokens)) /\ token_start <= Len(buf)
    /\ fsm \in {"Csum1", "Csum2"} => Len(tokens) > 0 /\ End(Len(tokens)) = Len(buf)

(***************************************************************************)
(* Whatever noise, truncated line or restart came before, a byte completes *)
(* a sentence exactly when the bytes since the last delimiter are a frame  *)
(* that fits, and the checksum tells the good ones from the bad ones       *)
(* ("Complete hay una sentencia válida lista", Parser.hpp:14-18, 37).      *)
(***************************************************************************)
ResultMatchesGrammar ==
    LET framed == stream # NoStream /\ IsFrame(stream)
        valid  == Checksum(Body(stream)) = Announced(stream)
    IN  /\ result = "Complete" <=> framed /\ valid
        /\ result = "ChecksumError" <=> framed /\ ~valid

(***************************************************************************)
(* The sentence a Complete hands to the mapper is the body of the frame,   *)
(* split at its commas, empty fields included (Parser.hpp:22-27).          *)
(***************************************************************************)
FieldsAreTheSplit ==
    result = "Complete" =>
        JoinedByCommas([i \in 1..Len(tokens) |-> Text(tokens[i])]) = Body(stream)
=============================================================================
