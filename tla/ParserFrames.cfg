SPECIFICATION Spec
CONSTANTS
    Delimiters <- MCDelimiters
    Eol <- MCEol
    Star = "*"
    Comma = ","
    Payload <- MCPayload
    Hex <- MCHex
    HexNibble <- MCHexNibble
    Code <- MCCode
    ChecksumXor <- MCXor
    kMaxSentence = 3
    kMaxFields = 1
    NoStream = NoStream
    MaxStream = 7
INVARIANTS
    TypeOK
    TokensTileTheBuffer
    ResultMatchesGrammar
    FieldsAreTheSplit
