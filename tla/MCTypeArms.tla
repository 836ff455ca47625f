----------------------------- MODULE MCTypeArms -----------------------------
(***************************************************************************)
(* The five formatters of the campaign with the real definitions, a mask   *)
(* just wide enough for the largest of them, and edits that add a field,   *)
(* change a type, swap two fields, go past the mask and add a formatter.   *)
(***************************************************************************)
EXTENDS TypeArms

MCWanted == <<"ROT", "RSA", "DBT", "VHW", "GGA">>

MCEdits == {<<"ROT", <<f64, ch>>>>, <<"ROT", <<f64, ch, i32>>>>,
            <<"ROT", <<u32, ch>>>>, <<"ROT", <<ch, f64>>>>,
            <<"GGA", Append(Builtin["GGA"], str)>>, <<"GGA", Builtin["GGA"]>>,
            <<"OLD", Pairs(8)>>}

Address(talker, rest) == [whole |-> talker \o rest, talker |-> talker, rest |-> rest]
MCAddresses == {Address("HE", "ROT"), Address("GP", "GGA"), Address("VN", "YPR"),
                Address("XX", "OLD"), Address("RO", "T"), Address("SD", "DBT"), Address("VW", "VHW")}

Token(k) == CASE k % 4 = 0 -> "" [] k % 4 = 3 -> "abc" [] OTHER -> "12.5"
MCViews == UNION {[1 .. n -> {"", "12.5", "abc"}] : n \in 0 .. 3}
             \cup {[k \in 1 .. n |-> Token(k + shift)] : n \in {5, 14, 16}, shift \in 0 .. 3}
MCNumerals == {"12.5"}
=============================================================================
