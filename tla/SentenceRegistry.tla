-------------------------- MODULE SentenceRegistry --------------------------
(***************************************************************************)
(* The catalogue of sentences (registry/Registry.cpp).                     *)
(*                                                                         *)
(* A definition is the sequence of the types of its fields.  The names of  *)
(* the fields of a definition are distinct, so a position stands for a     *)
(* name; units are left out.                                               *)
(***************************************************************************)
EXTENDS Naturals, Sequences

f64 == "Float64"
i32 == "Int32"
u32 == "UInt32"
ch  == "Char"
str == "String"

FieldType == {f64, i32, u32, ch, str}

(* The two shapes most definitions are made of: n times a number and the   *)
(* character that gives its unit or reference, and n numbers.              *)
Pairs(n)   == [k \in 1 .. 2 * n |-> IF k % 2 = 1 THEN f64 ELSE ch]
Numbers(n) == [k \in 1 .. n |-> f64]

GPS == [GGA |-> <<f64>> \o Pairs(2) \o <<u32, u32, f64>> \o Pairs(2)
                \o <<f64, u32>>,
        RMC |-> <<f64, ch>> \o Pairs(2) \o <<f64, f64, u32, f64, ch>>,
        VTG |-> Pairs(4),
        GLL |-> Pairs(3),
        ZDA |-> <<f64, u32, u32, u32, i32, i32>>,
        GSA |-> <<ch>> \o [k \in 1 .. 13 |-> u32] \o Numbers(3),
        GSV |-> <<u32, u32>> \o [k \in 1 .. 16 |-> IF k % 4 \in {1, 2} THEN u32
                                                   ELSE f64] \o <<u32>>,
        XTE |-> <<ch, ch, f64, ch, ch>>,
        RMB |-> <<ch, f64, ch, str, str>> \o Pairs(2) \o Numbers(3) \o <<ch>>,
        DTM |-> <<str, str>> \o Pairs(2) \o <<f64, str>>]

Weather == [MWD |-> Pairs(4), MWV |-> Pairs(2) \o <<ch>>, VWR |-> Pairs(4),
            VWT |-> Pairs(4), MTW |-> Pairs(1)]

Heading == [HDG |-> <<f64>> \o Pairs(2), HDT |-> Pairs(1), HDM |-> Pairs(1),
            THS |-> Pairs(1), ROT |-> Pairs(1), RSA |-> Pairs(2)]

Radar == [TLL |-> <<u32>> \o Pairs(2) \o <<str, f64, ch, ch>>,
          TTM |-> <<u32, f64, f64, ch, f64, f64, ch, f64, f64, ch, str, ch, ch>>,
          OSD |-> Pairs(3) \o <<f64, f64, ch>>]

Sounder == [DBT |-> Pairs(3), DPT |-> Numbers(3), DBK |-> Pairs(3),
            DBS |-> Pairs(3)]

Velocity == [VHW |-> Pairs(4), VLW |-> Pairs(2),
             VBW |-> <<f64, f64, ch, f64, f64, ch>>]

(* Proprietary: the whole address is the formatter. *)
Inertial == [VNYMR |-> Numbers(3), VNYPR |-> Numbers(3), VNYQT |-> Numbers(4),
             VNYCM |-> Numbers(6), VNYIA |-> Numbers(6)]

Autopilot == [APB |-> <<ch, ch, f64, ch, ch, ch, ch, f64, ch, str>> \o Pairs(2)
                      \o <<ch>>]

Engine == [RPM |-> <<ch, i32, f64, f64, ch>>]

AIS == [VDM |-> <<u32, u32, u32, ch, str, u32>>,
        VDO |-> <<u32, u32, u32, ch, str, u32>>]

(* builtin(): what add() leaves, one definition for each formatter. *)
Groups == {GPS, Weather, Heading, Radar, Sounder, Velocity, Inertial,
           Autopilot, Engine, AIS}

Builtin ==
    [formatter \in UNION {DOMAIN g : g \in Groups} |->
        (CHOOSE g \in Groups : formatter \in DOMAIN g)[formatter]]

(* lookup() finds a definition; add() inserts it or takes the place of one. *)
Registered(defs, formatter) == formatter \in DOMAIN defs
AddDef(defs, formatter, def) ==
    [f \in DOMAIN defs \cup {formatter} |-> IF f = formatter THEN def ELSE defs[f]]
=============================================================================
