------------------------------ MODULE MCParser ------------------------------
(***************************************************************************)
(* Parser with small buffers and a few bytes under their ASCII codes: two  *)
(* hexadecimal digits and a slash, enough to build frames with and without *)
(* a comma whose checksum is right (0*30, /,*03, 0,/0*03) or wrong, and to *)
(* overflow either buffer.                                                 *)
(***************************************************************************)
EXTENDS Parser, Bitwise

MCDelimiters == {"$", "!"}
MCEol        == {"CR"}
MCPayload    == {"0", "3", "/"}
MCHex        == {"0", "3"}
MCHexNibble  == [digit \in MCHex |-> IF digit = "0" THEN 0 ELSE 3]
MCCode       == [byte \in MCPayload \cup {","} |->
                    CASE byte = "0" -> 48 [] byte = "3" -> 51
                      [] byte = "/" -> 47 [] byte = "," -> 44]
MCXor(a, b)  == a ^^ b
=============================================================================
