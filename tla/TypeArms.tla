------------------------------ MODULE TypeArms ------------------------------
(***************************************************************************)
(* The two publication arms: types built at run time from the registry     *)
(* (mapper/Mapper.cpp, publish/DynamicTypeBackend.hpp) and types generated *)
(* from it beforehand (tools/idl_from_registry.cpp, the files it left in   *)
(* idl/, publish/StaticTypeBackend.hpp).                                   *)
(*                                                                         *)
(* A source tree has a registry and generated files.  A developer edits    *)
(* either; the generator emits the files one by one, each write of which   *)
(* may fail, or checks them; a build runs the check first (CMakeLists.txt, *)
(* target check_idl).  The gateway that was built is given sentences, the  *)
(* same to either arm.                                                     *)
(*                                                                         *)
(* Abstracted: names of members (a position each), header text, units, the *)
(* device_id both arms copy, and digits: a field is a token, a value the   *)
(* token and the conversion it went through.                               *)
(***************************************************************************)
EXTENDS SentenceRegistry

CONSTANTS
    Wanted,      \* the sequence of formatters the generator is asked for
    Edits,       \* <<formatter, definition>>: what a developer may write
    Addresses,   \* [whole, talker, rest]: rest is the whole less two characters
    Views,       \* the field lists a sentence may carry
    Numerals,    \* tokens that begin with a number
    MaskBits,    \* bits of field_presence
    MaxFaults,   \* bound: writes that fail and files edited by hand
    Torn,        \* a file that is missing, empty, cut or written by hand
    NoGateway

Empty       == ""    \* a field without content
NoFormatter == ""    \* the formatter of an unknown address
NoSample    == [type |-> NoFormatter]

ASSUME TypeArmsAssumption ==
    /\ Wanted \in Seq(STRING \ {NoFormatter, "RawSentence"})
    /\ \A e \in Edits : e[1] \in STRING /\ e[2] \in Seq(FieldType)
    /\ \A a \in Addresses : {a.whole, a.talker, a.rest} \subseteq STRING
    /\ \A fields \in Views : fields \in Seq(STRING)
    /\ MaskBits \in Nat /\ MaxFaults \in Nat

VARIABLES
    registry,    \* the definitions of the tree: Registry::builtin()
    idl,         \* NmeaX.idl for each formatter of the campaign
    populate,    \* NmeaStaticPopulate.hpp
    dispatch,    \* NmeaStaticDispatch.hpp
    tool,        \* the generator: mode, files left, stale files found
    exit,        \* how its last run on this tree ended
    faults,
    gateway,     \* what was compiled into the gateway
    sentence,    \* the last sentence published
    samples      \* what each arm made of it

treeVars    == <<registry, idl, populate, dispatch, faults>>
gatewayVars == <<gateway, sentence, samples>>
vars        == <<treeVars, tool, exit, gatewayVars>>

Arms     == {"dynamic", "static"}
Campaign == {Wanted[k] : k \in DOMAIN Wanted}

----------------------------------------------------------------------------
(* Conversion of fields (mapper/FieldParse.hpp). *)

Default == <<"default", Empty>>

(* A number that does not parse leaves the value at 0, which is what a     *)
(* member nobody sets has as well.                                         *)
Convert(parse, token) ==
    IF parse \in {"parse_f64", "parse_i32", "parse_u32"} /\ token \notin Numerals
    THEN Default ELSE <<parse, token>>

Min(m, n) == IF m <= n THEN m ELSE n

(* The conversion Mapper::populate chooses for a type. *)
Setter(type) == CASE type = f64 -> "parse_f64" [] type = i32 -> "parse_i32"
                  [] type = u32 -> "parse_u32" [] type = ch  -> "parse_char"
                  [] type = str -> "std::string"

----------------------------------------------------------------------------
(* The dynamic arm (mapper/Mapper.cpp). *)

(* The kind of a member, under its name in IDL. *)
ToKind(type) == CASE type = f64 -> "double" [] type = i32 -> "long"
                  [] type = u32 -> "unsigned long" [] type = ch -> "char"
                  [] type = str -> "string"

(* The whole address first, then without its two talker characters. *)
ResolveFormatter(defs, a) ==
    IF Registered(defs, a.whole) THEN a.whole
    ELSE IF Registered(defs, a.rest) THEN a.rest ELSE NoFormatter

Talker(formatter, a) ==
    IF formatter \notin {NoFormatter, a.whole} THEN a.talker ELSE ""

RawSample(a, fields, stamp) ==
    [type |-> "RawSentence", declares |-> <<"string", "string">>, talker |-> "",
     stamp |-> stamp, presence |-> {}, members |-> <<a.whole, fields>>]

(* Variant: a field that arrived empty counts as content. *)
GivenWhenEmpty(def, fields) == 1 .. Min(Len(fields), Len(def))

(* Members of the definition the sentence has content for. *)
Given(def, fields) ==
    {k \in 1 .. Min(Len(fields), Len(def)) : fields[k] # Empty}

DynamicSample(defs, a, fields, recv) ==
    LET formatter == ResolveFormatter(defs, a)
        stamp == IF recv = "zero" THEN "clock" ELSE recv
    IN  IF formatter = NoFormatter THEN RawSample(a, fields, stamp)
        ELSE LET def == defs[formatter]
                 given == Given(def, fields)
             IN  [type     |-> formatter,
                  declares |-> [k \in 1 .. Len(def) |-> ToKind(def[k])],
                  talker   |-> Talker(formatter, a),
                  stamp    |-> stamp,
                  presence |-> {k \in given : k <= MaskBits},
                  members  |-> [k \in 1 .. Len(def) |->
                                 IF k \in given THEN Convert(Setter(def[k]), fields[k])
                                                ELSE Default]]

----------------------------------------------------------------------------
(* The generator (tools/idl_from_registry.cpp). *)

IdlType(type) == CASE type = f64 -> "double" [] type = i32 -> "long"
                   [] type = u32 -> "unsigned long" [] type = ch -> "char"
                   [] type = str -> "string"

(* Variant: the generated code reads signed numbers as unsigned ones. *)
ParseCallUnsigned(type) ==
    CASE type = f64 -> "parse_f64" [] type \in {i32, u32} -> "parse_u32"
      [] type = ch  -> "parse_char" [] type = str -> "std::string"

ParseCall(type) == CASE type = f64 -> "parse_f64" [] type = i32 -> "parse_i32"
                     [] type = u32 -> "parse_u32" [] type = ch  -> "parse_char"
                     [] type = str -> "std::string"

(* emit() refuses a formatter it does not know or that the mask is too     *)
(* small for.                                                              *)
Emittable(defs, formatter) ==
    Registered(defs, formatter) /\ Len(defs[formatter]) <= MaskBits

IdlText(defs, formatter) ==
    [k \in 1 .. Len(defs[formatter]) |-> IdlType(defs[formatter][k])]

PopulateText(defs) ==
    [formatter \in Campaign |->
        [k \in 1 .. Len(defs[formatter]) |-> ParseCall(defs[formatter][k])]]

DispatchText == Campaign

----------------------------------------------------------------------------
(* The static arm: the files compiled into the gateway. *)

StaticSample(built, a, fields, recv) ==
    LET formatter == ResolveFormatter(built.registry, a)
        calls     == built.populate[formatter]
        given     == {k \in DOMAIN calls : Len(fields) >= k /\ fields[k] # Empty}
    IN  IF formatter \notin built.dispatch THEN NoSample
        ELSE [type     |-> formatter,
              declares |-> built.idl[formatter],
              talker   |-> Talker(formatter, a),
              stamp    |-> recv,
              presence |-> given,
              members  |-> [k \in DOMAIN built.idl[formatter] |->
                             IF k \in given THEN Convert(calls[k], fields[k])
                                            ELSE Default]]

(* The files of the repository. *)
CommittedIdl ==
    LET Ladder(n) == [k \in 1 .. 2 * n |-> IF k % 2 = 1 THEN "double" ELSE "char"]
    IN  [ROT |-> Ladder(1), RSA |-> Ladder(2), DBT |-> Ladder(3), VHW |-> Ladder(4),
         GGA |-> <<"double">> \o Ladder(2)
                 \o <<"unsigned long", "unsigned long", "double">>
                 \o Ladder(2) \o <<"double", "unsigned long">>]

CommittedPopulate ==
    LET Ladder(n) == [k \in 1 .. 2 * n |-> IF k % 2 = 1 THEN "parse_f64"
                                                        ELSE "parse_char"]
    IN  [ROT |-> Ladder(1), RSA |-> Ladder(2), DBT |-> Ladder(3), VHW |-> Ladder(4),
         GGA |-> <<"parse_f64">> \o Ladder(2)
                 \o <<"parse_u32", "parse_u32", "parse_f64">>
                 \o Ladder(2) \o <<"parse_f64", "parse_u32">>]

CommittedDispatch == {"ROT", "RSA", "DBT", "VHW", "GGA"}

----------------------------------------------------------------------------

Idle == [mode |-> "idle", next |-> 0, stale |-> 0]

Init ==
    /\ registry = Builtin
    /\ idl = CommittedIdl /\ populate = CommittedPopulate
    /\ dispatch = CommittedDispatch
    /\ faults = 0 /\ tool = Idle /\ exit = "none"
    /\ gateway = NoGateway /\ sentence = NoSample
    /\ samples = [arm \in Arms |-> NoSample]

(* A change of the tree makes what was built and checked a thing of the past. *)
TreeChanges ==
    /\ tool = Idle
    /\ exit' = "none" /\ gateway' = NoGateway /\ sentence' = NoSample
    /\ samples' = [arm \in Arms |-> NoSample]
    /\ UNCHANGED tool

EditRegistry(formatter, def) ==
    /\ TreeChanges
    /\ registry' = AddDef(registry, formatter, def)
    /\ UNCHANGED <<idl, populate, dispatch, faults>>

EditByHand ==
    /\ TreeChanges
    /\ faults < MaxFaults /\ faults' = faults + 1
    /\ \/ \E formatter \in Campaign : idl' = [idl EXCEPT ![formatter] = Torn]
          /\ UNCHANGED <<populate, dispatch>>
       \/ populate' = Torn /\ UNCHANGED <<idl, dispatch>>
       \/ dispatch' = Torn /\ UNCHANGED <<idl, populate>>
    /\ UNCHANGED registry

Start(mode) ==
    /\ tool = Idle /\ gateway = NoGateway
    /\ tool' = [mode |-> mode, next |-> 1, stale |-> 0]
    /\ exit' = "none"
    /\ UNCHANGED <<treeVars, gatewayVars>>

Fail == tool' = Idle /\ exit' = "failed"
Step == tool' = [tool EXCEPT !.next = @ + 1] /\ UNCHANGED exit

(* Files in the order of main(): the IDL of each formatter, then the two   *)
(* headers.                                                                *)
AtIdl(mode)    == tool.mode = mode /\ tool.next <= Len(Wanted)
AtHeader(mode, n) == tool.mode = mode /\ tool.next = Len(Wanted) + n
AtEnd(mode)    == AtHeader(mode, 3)

(* Either mode stops at a formatter it cannot emit, with the files before  *)
(* it already written.                                                     *)
Refuse ==
    /\ AtIdl("emit") \/ AtIdl("check")
    /\ ~Emittable(registry, Wanted[tool.next])
    /\ Fail
    /\ UNCHANGED <<treeVars, gatewayVars>>

EmitIdl ==
    /\ AtIdl("emit") /\ Emittable(registry, Wanted[tool.next])
    /\ LET formatter == Wanted[tool.next] IN
       idl' = [idl EXCEPT ![formatter] = IdlText(registry, formatter)]
    /\ Step
    /\ UNCHANGED <<registry, populate, dispatch, faults, gatewayVars>>

EmitPopulate ==
    /\ AtHeader("emit", 1) /\ populate' = PopulateText(registry)
    /\ Step
    /\ UNCHANGED <<registry, idl, dispatch, faults, gatewayVars>>

EmitDispatch ==
    /\ AtHeader("emit", 2) /\ dispatch' = DispatchText
    /\ Step
    /\ UNCHANGED <<registry, idl, populate, faults, gatewayVars>>

(* The file cannot be opened: the generator stops and the file stays. *)
CannotOpen ==
    /\ AtIdl("emit") \/ AtHeader("emit", 1) \/ AtHeader("emit", 2)
    /\ faults < MaxFaults /\ faults' = faults + 1
    /\ Fail
    /\ UNCHANGED <<registry, idl, populate, dispatch, gatewayVars>>

(* The file is cut.  Only for an IDL file does the generator look at the   *)
(* stream after writing, and before its buffer is flushed: it may go on.   *)
CutFile ==
    /\ faults < MaxFaults /\ faults' = faults + 1
    /\ \/ /\ AtIdl("emit") /\ Emittable(registry, Wanted[tool.next])
          /\ idl' = [idl EXCEPT ![Wanted[tool.next]] = Torn]
          /\ Fail \/ Step
          /\ UNCHANGED <<populate, dispatch>>
       \/ AtHeader("emit", 1) /\ populate' = Torn /\ Step /\ UNCHANGED <<idl, dispatch>>
       \/ AtHeader("emit", 2) /\ dispatch' = Torn /\ Step /\ UNCHANGED <<idl, populate>>
    /\ UNCHANGED <<registry, gatewayVars>>

Compare(same) ==
    /\ tool' = [tool EXCEPT !.next = @ + 1,
                            !.stale = @ + IF same THEN 0 ELSE 1]
    /\ UNCHANGED <<exit, treeVars, gatewayVars>>

CheckIdl ==
    /\ AtIdl("check") /\ Emittable(registry, Wanted[tool.next])
    /\ LET formatter == Wanted[tool.next] IN
       Compare(idl[formatter] = IdlText(registry, formatter))

(* Variant: the header only has to be there. *)
CheckPopulateThere == AtHeader("check", 1) /\ Compare(populate # Torn)

CheckPopulate ==
    AtHeader("check", 1) /\ Compare(populate = PopulateText(registry))

CheckDispatch ==
    AtHeader("check", 2) /\ Compare(dispatch = DispatchText)

Finish ==
    /\ AtEnd("emit") \/ AtEnd("check")
    /\ tool' = Idle
    /\ exit' = IF tool.mode = "emit" THEN "emitted"
               ELSE IF tool.stale = 0 THEN "accepted" ELSE "failed"
    /\ UNCHANGED <<treeVars, gatewayVars>>

(* A cut file does not compile, nor a call for a member that is not there. *)
Compiles ==
    /\ populate # Torn /\ dispatch # Torn
    /\ \A formatter \in Campaign : /\ idl[formatter] # Torn
                                   /\ DOMAIN populate[formatter] \subseteq DOMAIN idl[formatter]

(* The static arm depends on the target check_idl. *)
Build ==
    /\ tool = Idle /\ exit = "accepted" /\ gateway = NoGateway
    /\ Compiles
    /\ gateway' = [registry |-> registry, idl |-> idl,
                   populate |-> populate, dispatch |-> dispatch]
    /\ UNCHANGED <<treeVars, tool, exit, sentence, samples>>

(* prepare() and write() of either arm for one sentence.  Nothing is kept   *)
(* from a sentence to the next, so one for each build is enough.           *)
Publish(a, fields, recv) ==
    /\ gateway # NoGateway /\ sentence = NoSample
    /\ sentence' = [address |-> a, fields |-> fields, recv |-> recv]
    /\ samples' = [dynamic |-> DynamicSample(gateway.registry, a, fields, recv),
                   static  |-> StaticSample(gateway, a, fields, recv)]
    /\ UNCHANGED <<treeVars, tool, exit, gateway>>

Next ==
    \/ \E e \in Edits : EditRegistry(e[1], e[2])
    \/ EditByHand
    \/ Start("emit") \/ Start("check")
    \/ Refuse
    \/ EmitIdl \/ EmitPopulate \/ EmitDispatch \/ CannotOpen \/ CutFile
    \/ CheckIdl \/ CheckPopulate \/ CheckDispatch
    \/ Finish \/ Build
    \/ \E a \in Addresses, fields \in Views, recv \in {"zero", "given"} :
           Publish(a, fields, recv)

Spec == Init /\ [][Next]_vars

----------------------------------------------------------------------------
(* Properties. *)

TypeOK ==
    /\ \A formatter \in DOMAIN registry : registry[formatter] \in Seq(FieldType)
    /\ tool \in [mode : {"idle", "emit", "check"}, next : Nat, stale : Nat]
    /\ exit \in {"none", "emitted", "accepted", "failed"}

(* The same sentence given to both arms of a gateway makes the same        *)
(* sample: the same members with the same values, the same presence mask,  *)
(* the same talker and, when the caller gives a receive time, the same     *)
(* stamp; the static arm leaves out exactly the sentences outside its      *)
(* campaign.  This is what the comparison of the arms rests on, and it     *)
(* goes through the edits of the registry, the files and the check.        *)
ArmsAgree ==
    LET made == samples["static"]
        ref  == samples["dynamic"]
    IN  /\ made # NoSample =>
              /\ [made EXCEPT !.stamp = 0] = [ref EXCEPT !.stamp = 0]
              /\ sentence.recv # "zero" => made.stamp = ref.stamp
        /\ ref # NoSample => (made = NoSample <=> ref.type \notin Campaign)

(* A bit of the presence mask is set exactly for a member the sentence     *)
(* brought content for, and a member without its bit has its default       *)
(* value: "not available" is never read as a measured zero, and the mask   *)
(* drops nothing of a formatter the generator accepted.                    *)
PresenceIsContent ==
    \A arm \in Arms :
        LET made == samples[arm] IN
        made # NoSample /\ made.type \in Campaign =>
            \A k \in DOMAIN made.members :
                /\ k \in made.presence <=> /\ k <= Len(sentence.fields)
                                          /\ sentence.fields[k] # Empty
                /\ k \notin made.presence => made.members[k] = Default

(* The check of the generated files accepts a tree only if every one of    *)
(* them is what the generator would write for its registry, whatever       *)
(* edits, failed writes and half-way stops came before.                    *)
AcceptedTreeIsCurrent ==
    exit = "accepted" =>
        /\ \A formatter \in Campaign : idl[formatter] = IdlText(registry, formatter)
        /\ populate = PopulateText(registry) /\ dispatch = DispatchText

=============================================================================
