--------------------------- MODULE TypeArmsProofs ---------------------------
(***************************************************************************)
(* Theorems about TypeArms, for any campaign, any edits of the registry    *)
(* and any width of the presence mask.                                     *)
(***************************************************************************)
EXTENDS TypeArms, TLAPS

----------------------------------------------------------------------------
(* The catalogue: every definition is a sequence of types of fields. *)

Typed(defs) == \A formatter \in DOMAIN defs : defs[formatter] \in Seq(FieldType)

LEMMA FieldTypes ==
  f64 \in FieldType /\ i32 \in FieldType /\ u32 \in FieldType /\ ch \in FieldType
    /\ str \in FieldType
  BY DEF FieldType

LEMMA ShapesTyped ==
  ASSUME NEW n \in Nat
  PROVE  Pairs(n) \in Seq(FieldType) /\ Numbers(n) \in Seq(FieldType)
  BY FieldTypes DEF Pairs, Numbers

LEMMA GpsTyped == Typed(GPS)
<1>1. GPS.GGA \in Seq(FieldType)
  BY ShapesTyped, FieldTypes DEF GPS
<1>2. GPS.RMC \in Seq(FieldType)
  BY ShapesTyped, FieldTypes DEF GPS
<1>3. GPS.VTG \in Seq(FieldType)
  BY ShapesTyped, FieldTypes DEF GPS
<1>4. GPS.GLL \in Seq(FieldType)
  BY ShapesTyped, FieldTypes DEF GPS
<1>5. GPS.ZDA \in Seq(FieldType)
  BY ShapesTyped, FieldTypes DEF GPS
<1>6. GPS.GSA \in Seq(FieldType)
  BY ShapesTyped, FieldTypes DEF GPS
<1>7. GPS.GSV \in Seq(FieldType)
  BY ShapesTyped, FieldTypes DEF GPS
<1>8. GPS.XTE \in Seq(FieldType)
  BY ShapesTyped, FieldTypes DEF GPS
<1>9. GPS.RMB \in Seq(FieldType)
  BY ShapesTyped, FieldTypes DEF GPS
<1>10. GPS.DTM \in Seq(FieldType)
  BY ShapesTyped, FieldTypes DEF GPS
<1>11. DOMAIN GPS = {"GGA", "RMC", "VTG", "GLL", "ZDA", "GSA", "GSV", "XTE", "RMB", "DTM"}
  BY DEF GPS
<1> QED
  BY <1>1, <1>2, <1>3, <1>4, <1>5, <1>6, <1>7, <1>8, <1>9, <1>10, <1>11 DEF Typed

LEMMA WeatherTyped == Typed(Weather)
<1>1. Weather.MWD \in Seq(FieldType)
  BY ShapesTyped, FieldTypes DEF Weather
<1>2. Weather.MWV \in Seq(FieldType)
  BY ShapesTyped, FieldTypes DEF Weather
<1>3. Weather.VWR \in Seq(FieldType)
  BY ShapesTyped, FieldTypes DEF Weather
<1>4. Weather.VWT \in Seq(FieldType)
  BY ShapesTyped, FieldTypes DEF Weather
<1>5. Weather.MTW \in Seq(FieldType)
  BY ShapesTyped, FieldTypes DEF Weather
<1>6. DOMAIN Weather = {"MWD", "MWV", "VWR", "VWT", "MTW"}
  BY DEF Weather
<1> QED
  BY <1>1, <1>2, <1>3, <1>4, <1>5, <1>6 DEF Typed

LEMMA HeadingTyped == Typed(Heading)
<1>1. Heading.HDG \in Seq(FieldType)
  BY ShapesTyped, FieldTypes DEF Heading
<1>2. Heading.HDT \in Seq(FieldType)
  BY ShapesTyped, FieldTypes DEF Heading
<1>3. Heading.HDM \in Seq(FieldType)
  BY ShapesTyped, FieldTypes DEF Heading
<1>4. Heading.THS \in Seq(FieldType)
  BY ShapesTyped, FieldTypes DEF Heading
<1>5. Heading.ROT \in Seq(FieldType)
  BY ShapesTyped, FieldTypes DEF Heading
<1>6. Heading.RSA \in Seq(FieldType)
  BY ShapesTyped, FieldTypes DEF Heading
<1>7. DOMAIN Heading = {"HDG", "HDT", "HDM", "THS", "ROT", "RSA"}
  BY DEF Heading
<1> QED
  BY <1>1, <1>2, <1>3, <1>4, <1>5, <1>6, <1>7 DEF Typed

LEMMA RadarTyped == Typed(Radar)
<1>1. Radar.TLL \in Seq(FieldType)
  BY ShapesTyped, FieldTypes DEF Radar
<1>2. Radar.TTM \in Seq(FieldType)
  BY ShapesTyped, FieldTypes DEF Radar
<1>3. Radar.OSD \in Seq(FieldType)
  BY ShapesTyped, FieldTypes DEF Radar
<1>4. DOMAIN Radar = {"TLL", "TTM", "OSD"}
  BY DEF Radar
<1> QED
  BY <1>1, <1>2, <1>3, <1>4 DEF Typed

LEMMA SounderTyped == Typed(Sounder)
<1>1. Sounder.DBT \in Seq(FieldType)
  BY ShapesTyped, FieldTypes DEF Sounder
<1>2. Sounder.DPT \in Seq(FieldType)
  BY ShapesTyped, FieldTypes DEF Sounder
<1>3. Sounder.DBK \in Seq(FieldType)
  BY ShapesTyped, FieldTypes DEF Sounder
<1>4. Sounder.DBS \in Seq(FieldType)
  BY ShapesTyped, FieldTypes DEF Sounder
<1>5. DOMAIN Sounder = {"DBT", "DPT", "DBK", "DBS"}
  BY DEF Sounder
<1> QED
  BY <1>1, <1>2, <1>3, <1>4, <1>5 DEF Typed

LEMMA VelocityTyped == Typed(Velocity)
<1>1. Velocity.VHW \in Seq(FieldType)
  BY ShapesTyped, FieldTypes DEF Velocity
<1>2. Velocity.VLW \in Seq(FieldType)
  BY ShapesTyped, FieldTypes DEF Velocity
<1>3. Velocity.VBW \in Seq(FieldType)
  BY ShapesTyped, FieldTypes DEF Velocity
<1>4. DOMAIN Velocity = {"VHW", "VLW", "VBW"}
  BY DEF Velocity
<1> QED
  BY <1>1, <1>2, <1>3, <1>4 DEF Typed

LEMMA InertialTyped == Typed(Inertial)
<1>1. Inertial.VNYMR \in Seq(FieldType)
  BY ShapesTyped, FieldTypes DEF Inertial
<1>2. Inertial.VNYPR \in Seq(FieldType)
  BY ShapesTyped, FieldTypes DEF Inertial
<1>3. Inertial.VNYQT \in Seq(FieldType)
  BY ShapesTyped, FieldTypes DEF Inertial
<1>4. Inertial.VNYCM \in Seq(FieldType)
  BY ShapesTyped, FieldTypes DEF Inertial
<1>5. Inertial.VNYIA \in Seq(FieldType)
  BY ShapesTyped, FieldTypes DEF Inertial
<1>6. DOMAIN Inertial = {"VNYMR", "VNYPR", "VNYQT", "VNYCM", "VNYIA"}
  BY DEF Inertial
<1> QED
  BY <1>1, <1>2, <1>3, <1>4, <1>5, <1>6 DEF Typed

LEMMA AutopilotTyped == Typed(Autopilot)
<1>1. Autopilot.APB \in Seq(FieldType)
  BY ShapesTyped, FieldTypes DEF Autopilot
<1>2. DOMAIN Autopilot = {"APB"}
  BY DEF Autopilot
<1> QED
  BY <1>1, <1>2 DEF Typed

LEMMA EngineTyped == Typed(Engine)
<1>1. Engine.RPM \in Seq(FieldType)
  BY ShapesTyped, FieldTypes DEF Engine
<1>2. DOMAIN Engine = {"RPM"}
  BY DEF Engine
<1> QED
  BY <1>1, <1>2 DEF Typed

LEMMA AisTyped == Typed(AIS)
<1>1. AIS.VDM \in Seq(FieldType)
  BY ShapesTyped, FieldTypes DEF AIS
<1>2. AIS.VDO \in Seq(FieldType)
  BY ShapesTyped, FieldTypes DEF AIS
<1>3. DOMAIN AIS = {"VDM", "VDO"}
  BY DEF AIS
<1> QED
  BY <1>1, <1>2, <1>3 DEF Typed

LEMMA BuiltinTyped == Typed(Builtin)
<1>1. \A g \in Groups : Typed(g)
  BY GpsTyped, WeatherTyped, HeadingTyped, RadarTyped, SounderTyped, VelocityTyped,
     InertialTyped, AutopilotTyped, EngineTyped, AisTyped DEF Groups
<1>2. ASSUME NEW formatter \in DOMAIN Builtin PROVE Builtin[formatter] \in Seq(FieldType)
  <2> DEFINE G == CHOOSE g \in Groups : formatter \in DOMAIN g
  <2>1. formatter \in UNION {DOMAIN g : g \in Groups}
    BY DEF Builtin
  <2>2. G \in Groups /\ formatter \in DOMAIN G
    BY <2>1
  <2>3. Builtin[formatter] = G[formatter]
    BY <2>1 DEF Builtin
  <2> QED
    BY <1>1, <2>2, <2>3 DEF Typed
<1> QED
  BY <1>2 DEF Typed

----------------------------------------------------------------------------
(* The generator and its check. *)

LEMMA WantedFacts ==
  /\ Len(Wanted) \in Nat /\ DOMAIN Wanted = 1 .. Len(Wanted)
  /\ \A k \in DOMAIN Wanted : Wanted[k] \in STRING \ {NoFormatter, "RawSentence"}
  BY TypeArmsAssumption DEF TypeArmsAssumption

(* The state has its types, the registry after any edits among them. *)
THEOREM TypeCorrect == Spec => []TypeOK
<1>1. Init => TypeOK
  <2>1. Init => tool \in [mode : {"idle", "emit", "check"}, next : Nat, stale : Nat]
    BY DEF Init, Idle
  <2> QED
    BY <2>1, BuiltinTyped DEF Init, TypeOK, Typed
<1>2. TypeOK /\ [Next]_vars => TypeOK'
  <2> SUFFICES ASSUME TypeOK, [Next]_vars PROVE TypeOK'
    OBVIOUS
  <2> DEFINE Tool == [mode : {"idle", "emit", "check"}, next : Nat, stale : Nat]
  <2>0. tool \in Tool
    BY DEF TypeOK
  <2>1. ASSUME NEW e \in Edits, EditRegistry(e[1], e[2]) PROVE TypeOK'
    <3>1. e[2] \in Seq(FieldType)
      BY TypeArmsAssumption DEF TypeArmsAssumption
    <3>2. /\ registry' = AddDef(registry, e[1], e[2])
          /\ tool' = tool /\ exit' = "none"
      BY <2>1 DEF EditRegistry, TreeChanges
    <3>3. \A f \in DOMAIN registry' : registry'[f] \in Seq(FieldType)
      BY <3>1, <3>2 DEF AddDef, TypeOK
    <3> QED
      BY <3>2, <3>3 DEF TypeOK, FieldType, f64, i32, u32, ch, str
  <2>2. ASSUME registry' = registry, tool' \in Tool,
               exit' \in {exit, "none", "emitted", "accepted", "failed"}
        PROVE  TypeOK'
    BY <2>2 DEF TypeOK, FieldType, f64, i32, u32, ch, str
  <2>3. CASE EditByHand
    BY <2>0, <2>2, <2>3 DEF EditByHand, TreeChanges
  <2>4. ASSUME NEW mode \in {"emit", "check"}, Start(mode) PROVE TypeOK'
    BY <2>2, <2>4 DEF Start, treeVars
  <2>5. Fail => tool' \in Tool /\ exit' = "failed"
    BY DEF Fail, Idle
  <2>6. Step => tool' \in Tool /\ exit' = exit
    BY <2>0 DEF Step
  <2>7. CASE Refuse
    BY <2>2, <2>5, <2>7 DEF Refuse, treeVars
  <2>8. CASE EmitIdl \/ EmitPopulate \/ EmitDispatch
    BY <2>2, <2>6, <2>8 DEF EmitIdl, EmitPopulate, EmitDispatch
  <2>9. CASE CannotOpen
    BY <2>2, <2>5, <2>9 DEF CannotOpen
  <2>10. CASE CutFile
    BY <2>2, <2>5, <2>6, <2>10 DEF CutFile
  <2>11. ASSUME NEW same \in BOOLEAN, Compare(same) PROVE TypeOK'
    <3> DEFINE more == IF same THEN 0 ELSE 1
    <3>a. more \in Nat
      OBVIOUS
    <3>b. tool' = [tool EXCEPT !.next = @ + 1, !.stale = @ + more]
      BY <2>11 DEF Compare
    <3> HIDE DEF more
    <3>1. tool' \in Tool
      <4>1. tool' = [mode |-> tool.mode, next |-> tool.next + 1, stale |-> tool.stale + more]
        BY <2>0, <3>b
      <4>2. tool.mode \in {"idle", "emit", "check"} /\ tool.next \in Nat /\ tool.stale \in Nat
        BY <2>0
      <4> QED
        BY <3>a, <4>1, <4>2
    <3> QED
      BY <2>2, <2>11, <3>1 DEF Compare, treeVars
  <2>12. CASE CheckIdl \/ CheckPopulate \/ CheckDispatch
    BY <2>11, <2>12 DEF CheckIdl, CheckPopulate, CheckDispatch
  <2>13. CASE Finish
    <3>1. tool' \in Tool
      BY <2>13 DEF Finish, Idle
    <3> QED
      BY <2>2, <2>13, <3>1 DEF Finish, treeVars
  <2>14. CASE UNCHANGED <<registry, tool, exit>>
    BY <2>0, <2>2, <2>14
  <2> QED
    BY <2>1, <2>3, <2>4, <2>7, <2>8, <2>9, <2>10, <2>12, <2>13, <2>14
       DEF Next, vars, treeVars, Build, Publish
<1> QED
  BY <1>1, <1>2, PTL DEF Spec

(* What the check has found, as far as it has come.                        *)
CheckedSoFar ==
    tool.mode = "check" /\ tool.stale = 0 =>
        /\ \A j \in DOMAIN Wanted : j < tool.next =>
               /\ Emittable(registry, Wanted[j])
               /\ idl[Wanted[j]] = IdlText(registry, Wanted[j])
        /\ tool.next > Len(Wanted) + 1 => populate = PopulateText(registry)
        /\ tool.next > Len(Wanted) + 2 => dispatch = DispatchText

(* A tree the check would accept. *)
Current(tree) ==
    /\ \A f \in Campaign : /\ Emittable(tree.registry, f)
                           /\ tree.idl[f] = IdlText(tree.registry, f)
    /\ tree.populate = PopulateText(tree.registry) /\ tree.dispatch = DispatchText

Tree == [registry |-> registry, idl |-> idl, populate |-> populate, dispatch |-> dispatch]

Accepted == exit = "accepted" => Current(Tree)

(* While the generator runs, nothing it may change is taken for checked.   *)
Running == tool.mode # "idle" => exit = "none" /\ gateway = NoGateway

Built == gateway # NoGateway => Current(gateway) /\ Typed(gateway.registry)

CheckInv == CheckedSoFar /\ Accepted /\ Running /\ Built

(***************************************************************************)
(* A run of the check ends with no stale file only if each comparison      *)
(* found its file current, all of them against the same registry: the tree *)
(* does not change under the tool, and any change takes the verdict back.  *)
(***************************************************************************)
LEMMA CheckStep ==
  ASSUME TypeOK, CheckInv, [Next]_vars
  PROVE  CheckInv'
<1> USE DEF CheckInv
<1>0. /\ tool = [mode |-> tool.mode, next |-> tool.next, stale |-> tool.stale]
      /\ tool.next \in Nat /\ tool.stale \in Nat
  BY DEF TypeOK
<1>f. Fail => tool'.mode = "idle" /\ exit' = "failed"
  BY DEF Fail, Idle
<1>s. Step => tool'.mode = tool.mode /\ exit' = exit
  BY <1>0 DEF Step
<1>1. ASSUME tool'.mode # "check", tool'.mode = "idle" \/ exit' = "none",
             exit' # "accepted", gateway' = NoGateway
      PROVE  CheckInv'
  BY <1>1 DEF CheckedSoFar, Accepted, Running, Built
<1>2. CASE TreeChanges
  BY <1>1, <1>2 DEF TreeChanges, Idle
<1>3. ASSUME NEW mode \in {"emit", "check"}, Start(mode) PROVE CheckInv'
  <2>1. tool'.next = 1 /\ exit' = "none" /\ gateway' = NoGateway
    BY <1>3 DEF Start, gatewayVars
  <2> QED
    BY <2>1, WantedFacts DEF CheckedSoFar, Accepted, Running, Built
<1>4. CASE Refuse
  <2>1. tool.mode # "idle" /\ gateway' = gateway
    BY <1>4 DEF Refuse, AtIdl, gatewayVars
  <2> QED
    BY <1>1, <1>f, <1>4, <2>1 DEF Refuse, Running
<1>5. CASE EmitIdl \/ EmitPopulate \/ EmitDispatch \/ CannotOpen \/ CutFile
  <2>1. tool.mode = "emit" /\ gateway' = gateway
    BY <1>5 DEF EmitIdl, EmitPopulate, EmitDispatch, CannotOpen, CutFile, AtIdl, AtHeader,
                gatewayVars
  <2>2. Fail \/ Step
    BY <1>5 DEF EmitIdl, EmitPopulate, EmitDispatch, CannotOpen, CutFile
  <2> QED
    BY <1>1, <1>f, <1>s, <2>1, <2>2 DEF Running
<1>6. ASSUME NEW same \in BOOLEAN, Compare(same), tool.mode = "check"
      PROVE  /\ tool'.mode = "check" /\ tool'.next = tool.next + 1
             /\ tool'.stale = 0 => tool.stale = 0 /\ same
             /\ UNCHANGED <<registry, idl, populate, dispatch>>
             /\ Accepted' /\ Running' /\ Built'
  <2> DEFINE more == IF same THEN 0 ELSE 1
  <2>1. more \in Nat /\ (more = 0 => same)
    OBVIOUS
  <2>2. tool' = [tool EXCEPT !.next = @ + 1, !.stale = @ + more]
    BY <1>6 DEF Compare
  <2> HIDE DEF more
  <2>3. /\ tool'.mode = "check" /\ tool'.next = tool.next + 1
        /\ tool'.stale = tool.stale + more
    BY <1>0, <1>6, <2>2
  <2>4. exit' = exit /\ gateway' = gateway /\ UNCHANGED <<registry, idl, populate, dispatch>>
    BY <1>6 DEF Compare, treeVars, gatewayVars
  <2>5. Accepted' /\ Running' /\ Built'
    BY <1>6, <2>4 DEF Accepted, Running, Built
  <2> QED
    BY <1>0, <2>1, <2>3, <2>4, <2>5
<1>7. CASE CheckIdl
  <2> DEFINE now == idl[Wanted[tool.next]] = IdlText(registry, Wanted[tool.next])
  <2>1. /\ tool.mode = "check" /\ tool.next <= Len(Wanted)
        /\ Emittable(registry, Wanted[tool.next]) /\ Compare(now)
    BY <1>7 DEF CheckIdl, AtIdl
  <2>2. now \in BOOLEAN
    OBVIOUS
  <2>3. now => idl[Wanted[tool.next]] = IdlText(registry, Wanted[tool.next])
    OBVIOUS
  <2> HIDE DEF now
  <2>4. /\ tool'.mode = "check" /\ tool'.next = tool.next + 1
        /\ tool'.stale = 0 => tool.stale = 0 /\ now
        /\ UNCHANGED <<registry, idl, populate, dispatch>>
        /\ Accepted' /\ Running' /\ Built'
    BY <1>6, <2>1, <2>2
  <2>5. CheckedSoFar'
    BY <1>0, <2>1, <2>3, <2>4, WantedFacts DEF CheckedSoFar
  <2> QED
    BY <2>4, <2>5
<1>8. CASE CheckPopulate
  <2> DEFINE now == populate = PopulateText(registry)
  <2>1. tool.mode = "check" /\ tool.next = Len(Wanted) + 1 /\ Compare(now)
    BY <1>8 DEF CheckPopulate, AtHeader
  <2>2. now \in BOOLEAN
    OBVIOUS
  <2>3. now => populate = PopulateText(registry)
    OBVIOUS
  <2> HIDE DEF now
  <2>4. /\ tool'.mode = "check" /\ tool'.next = tool.next + 1
        /\ tool'.stale = 0 => tool.stale = 0 /\ now
        /\ UNCHANGED <<registry, idl, populate, dispatch>>
        /\ Accepted' /\ Running' /\ Built'
    BY <1>6, <2>1, <2>2
  <2>5. CheckedSoFar'
    BY <1>0, <2>1, <2>3, <2>4, WantedFacts DEF CheckedSoFar
  <2> QED
    BY <2>4, <2>5
<1>9. CASE CheckDispatch
  <2> DEFINE now == dispatch = DispatchText
  <2>1. tool.mode = "check" /\ tool.next = Len(Wanted) + 2 /\ Compare(now)
    BY <1>9 DEF CheckDispatch, AtHeader
  <2>2. now \in BOOLEAN
    OBVIOUS
  <2>3. now => dispatch = DispatchText
    OBVIOUS
  <2> HIDE DEF now
  <2>4. /\ tool'.mode = "check" /\ tool'.next = tool.next + 1
        /\ tool'.stale = 0 => tool.stale = 0 /\ now
        /\ UNCHANGED <<registry, idl, populate, dispatch>>
        /\ Accepted' /\ Running' /\ Built'
    BY <1>6, <2>1, <2>2
  <2>5. CheckedSoFar'
    BY <1>0, <2>1, <2>3, <2>4, WantedFacts DEF CheckedSoFar, DispatchText, Campaign
  <2> QED
    BY <2>4, <2>5
<1>10. CASE Finish
  <2>1. /\ tool'.mode = "idle" /\ tool.mode # "idle" /\ gateway' = gateway
        /\ UNCHANGED <<registry, idl, populate, dispatch>>
        /\ exit' = "accepted" => /\ tool.mode = "check" /\ tool.stale = 0
                                 /\ tool.next = Len(Wanted) + 3
    BY <1>10 DEF Finish, Idle, AtEnd, AtHeader, treeVars, gatewayVars
  <2>2. ASSUME exit' = "accepted" PROVE Current(Tree)
    <3>1. /\ \A j \in DOMAIN Wanted : /\ Emittable(registry, Wanted[j])
                                      /\ idl[Wanted[j]] = IdlText(registry, Wanted[j])
          /\ populate = PopulateText(registry) /\ dispatch = DispatchText
      BY <2>1, <2>2, WantedFacts DEF CheckedSoFar
    <3> QED
      BY <3>1 DEF Current, Tree, Campaign
  <2>3. Tree' = Tree
    BY <2>1 DEF Tree
  <2>4. Accepted'
    BY <2>2, <2>3 DEF Accepted, Current, Campaign, Emittable, Registered, IdlText,
                      PopulateText, DispatchText
  <2> QED
    BY <2>1, <2>4 DEF CheckedSoFar, Running, Built
<1>11. CASE Build
  <2>1. /\ gateway' = Tree /\ exit = "accepted" /\ tool = Idle
        /\ UNCHANGED <<registry, idl, populate, dispatch, tool, exit>>
    BY <1>11 DEF Build, Tree, treeVars
  <2>2. Current(Tree) /\ Typed(registry)
    BY <2>1 DEF Accepted, TypeOK, Typed
  <2>3. Current(gateway') /\ Typed(gateway'.registry) /\ tool.mode = "idle"
    BY <2>1, <2>2 DEF Tree, Idle
  <2> QED
    BY <2>1, <2>3 DEF CheckedSoFar, Accepted, Running, Built, Tree, Current, Campaign
<1>12. CASE UNCHANGED <<registry, idl, populate, dispatch, tool, exit, gateway>>
  BY <1>12 DEF CheckedSoFar, Accepted, Running, Built, Tree
<1> QED
  BY <1>2, <1>3, <1>4, <1>5, <1>7, <1>8, <1>9, <1>10, <1>11, <1>12
     DEF Next, EditRegistry, EditByHand, Publish, vars, treeVars, gatewayVars

(* The check accepts a tree only if all its generated files are current.   *)
THEOREM AcceptedCurrent == Spec => []AcceptedTreeIsCurrent
<1>1. Init => CheckInv
  BY DEF Init, Idle, CheckInv, CheckedSoFar, Accepted, Running, Built
<1>2. CheckInv => AcceptedTreeIsCurrent
  BY DEF CheckInv, Accepted, Current, Tree, AcceptedTreeIsCurrent
<1> QED
  BY <1>1, <1>2, CheckStep, TypeCorrect, PTL DEF Spec

----------------------------------------------------------------------------
(* The samples of a gateway that was built. *)

(* The tables of the mapper and of the generator say the same.             *)
LEMMA TablesAgree ==
  ASSUME NEW type \in FieldType
  PROVE  ToKind(type) = IdlType(type) /\ Setter(type) = ParseCall(type)
  BY DEF FieldType, f64, i32, u32, ch, str, ToKind, IdlType, Setter, ParseCall

(* The sample of a formatter of the campaign, but for its stamp.           *)
Expected(defs, a, fields, stamp) ==
    LET formatter == ResolveFormatter(defs, a)
        def       == defs[formatter]
        given     == Given(def, fields)
    IN  [type     |-> formatter,
         declares |-> [k \in 1 .. Len(def) |-> IdlType(def[k])],
         talker   |-> Talker(formatter, a),
         stamp    |-> stamp,
         presence |-> given,
         members  |-> [k \in 1 .. Len(def) |->
                        IF k \in given THEN Convert(ParseCall(def[k]), fields[k])
                                       ELSE Default]]

LEMMA CampaignNames == NoFormatter \notin Campaign /\ "RawSentence" \notin Campaign
  BY WantedFacts DEF Campaign

LEMMA ArmsMake ==
  ASSUME NEW built, Current(built), Typed(built.registry),
         NEW a \in Addresses, NEW fields \in Views, NEW recv
  PROVE  LET made == StaticSample(built, a, fields, recv)
             ref  == DynamicSample(built.registry, a, fields, recv)
             stamp == IF recv = "zero" THEN "clock" ELSE recv
         IN  \/ made = NoSample /\ ref.type \notin Campaign
             \/ /\ ResolveFormatter(built.registry, a) \in Campaign
                /\ made = Expected(built.registry, a, fields, recv)
                /\ ref = Expected(built.registry, a, fields, stamp)
<1> DEFINE defs == built.registry
           formatter == ResolveFormatter(defs, a)
           def   == defs[formatter]
           made  == StaticSample(built, a, fields, recv)
           ref   == DynamicSample(defs, a, fields, recv)
           stamp == IF recv = "zero" THEN "clock" ELSE recv
           given == Given(def, fields)
<1>1. built.dispatch = Campaign
  BY DEF Current, DispatchText
<1>2. CASE formatter \notin Campaign
  <2>1. made = NoSample
    BY <1>1, <1>2 DEF StaticSample
  <2>2. CASE formatter = NoFormatter
    BY <2>1, <2>2, CampaignNames DEF DynamicSample, RawSample
  <2>3. CASE formatter # NoFormatter
    BY <1>2, <2>1, <2>3 DEF DynamicSample
  <2> QED
    BY <2>1, <2>2, <2>3
<1>3. CASE formatter \in Campaign
  <2>1. formatter # NoFormatter
    BY <1>3, CampaignNames
  <2>2. /\ formatter \in DOMAIN defs /\ Len(def) <= MaskBits
        /\ built.idl[formatter] = IdlText(defs, formatter)
        /\ built.populate = PopulateText(defs)
    BY <1>3 DEF Current, Emittable, Registered
  <2>3. def \in Seq(FieldType)
    BY <2>2 DEF Typed
  <2>4. Len(def) \in Nat /\ Len(fields) \in Nat /\ MaskBits \in Nat
    BY <2>3, TypeArmsAssumption DEF TypeArmsAssumption
  <2>5. \A k \in 1 .. Len(def) : ToKind(def[k]) = IdlType(def[k])
                                 /\ Setter(def[k]) = ParseCall(def[k])
    BY <2>3, TablesAgree
  <2>6. /\ built.populate[formatter] = [k \in 1 .. Len(def) |-> ParseCall(def[k])]
        /\ built.idl[formatter] = [k \in 1 .. Len(def) |-> IdlType(def[k])]
    BY <1>3, <2>2 DEF PopulateText, IdlText
  <2>7. /\ given = {k \in 1 .. Len(def) : Len(fields) >= k /\ fields[k] # Empty}
        /\ given = {k \in given : k <= MaskBits}
    BY <2>2, <2>4 DEF Given, Min
  <2> HIDE DEF formatter, def, given, defs
  <2>8. made = Expected(defs, a, fields, recv)
    <3>1. made = [type |-> formatter, declares |-> built.idl[formatter],
                  talker |-> Talker(formatter, a), stamp |-> recv, presence |-> given,
                  members |-> [k \in 1 .. Len(def) |->
                                 IF k \in given THEN Convert(ParseCall(def[k]), fields[k])
                                                ELSE Default]]
      BY <1>1, <1>3, <2>6, <2>7 DEF StaticSample, formatter, defs
    <3> QED
      BY <2>6, <3>1 DEF Expected, formatter, def, given
  <2>9. ref = Expected(defs, a, fields, stamp)
    <3>1. ref = [type |-> formatter,
                 declares |-> [k \in 1 .. Len(def) |-> ToKind(def[k])],
                 talker |-> Talker(formatter, a), stamp |-> stamp,
                 presence |-> {k \in given : k <= MaskBits},
                 members |-> [k \in 1 .. Len(def) |->
                                IF k \in given THEN Convert(Setter(def[k]), fields[k])
                                               ELSE Default]]
      BY <2>1 DEF DynamicSample, formatter, def, given
    <3>2. [k \in 1 .. Len(def) |-> ToKind(def[k])] = [k \in 1 .. Len(def) |-> IdlType(def[k])]
      BY <2>5
    <3>3. [k \in 1 .. Len(def) |-> IF k \in given THEN Convert(Setter(def[k]), fields[k])
                                                  ELSE Default]
            = [k \in 1 .. Len(def) |-> IF k \in given THEN Convert(ParseCall(def[k]), fields[k])
                                                      ELSE Default]
      BY <2>5
    <3> QED
      BY <2>7, <3>1, <3>2, <3>3 DEF Expected, formatter, def, given
  <2> QED
    BY <1>3, <2>8, <2>9 DEF formatter, defs
<1> QED
  BY <1>2, <1>3

(* Samples are made by a publication, or taken away.                       *)
LEMMA SamplesStep ==
  ASSUME [Next]_vars
  PROVE  \/ UNCHANGED <<sentence, samples>>
         \/ samples' = [arm \in Arms |-> NoSample]
         \/ \E a \in Addresses, fields \in Views, recv \in {"zero", "given"} :
                Publish(a, fields, recv)
<1>1. CASE TreeChanges
  BY <1>1 DEF TreeChanges
<1>2. CASE UNCHANGED <<sentence, samples>>
  BY <1>2
<1>3. CASE \E a \in Addresses, fields \in Views, recv \in {"zero", "given"} :
               Publish(a, fields, recv)
  BY <1>3
<1> QED
  BY <1>1, <1>2, <1>3
     DEF Next, EditRegistry, EditByHand, Start, Refuse, EmitIdl, EmitPopulate,
         EmitDispatch, CannotOpen, CutFile, CheckIdl, CheckPopulate, CheckDispatch,
         Compare, Finish, Build, vars, gatewayVars

(***************************************************************************)
(* What the two arms compute from one sentence differs in the stamp only,  *)
(* because a gateway is only built from a tree the check accepted; without *)
(* that, or with a mask narrower than a definition, the argument fails.    *)
(***************************************************************************)
THEOREM SameSamples == Spec => []ArmsAgree
<1>1. Init => CheckInv /\ ArmsAgree
  BY DEF Init, Idle, CheckInv, CheckedSoFar, Accepted, Running, Built, ArmsAgree, Arms
<1>2. CheckInv /\ ArmsAgree /\ [Next]_vars => ArmsAgree'
  <2> SUFFICES ASSUME CheckInv, ArmsAgree, [Next]_vars PROVE ArmsAgree'
    OBVIOUS
  <2>1. CASE UNCHANGED <<sentence, samples>>
    BY <2>1 DEF ArmsAgree, Campaign
  <2>2. CASE samples' = [arm \in Arms |-> NoSample]
    BY <2>2 DEF ArmsAgree, Arms
  <2>3. ASSUME NEW a \in Addresses, NEW fields \in Views, NEW recv \in {"zero", "given"},
               Publish(a, fields, recv)
        PROVE  ArmsAgree'
    <3> DEFINE made  == StaticSample(gateway, a, fields, recv)
               ref   == DynamicSample(gateway.registry, a, fields, recv)
               stamp == IF recv = "zero" THEN "clock" ELSE recv
               F     == ResolveFormatter(gateway.registry, a)
    <3>1. /\ samples' = [dynamic |-> ref, static |-> made]
          /\ sentence' = [address |-> a, fields |-> fields, recv |-> recv]
      BY <2>3 DEF Publish
    <3>2. samples'["static"] = made /\ samples'["dynamic"] = ref /\ sentence'.recv = recv
      BY <3>1
    <3>3. Current(gateway) /\ Typed(gateway.registry)
      BY <2>3 DEF Publish, CheckInv, Built
    <3>4. \/ made = NoSample /\ ref.type \notin Campaign
          \/ /\ F \in Campaign
             /\ made = Expected(gateway.registry, a, fields, recv)
             /\ ref = Expected(gateway.registry, a, fields, stamp)
      BY <3>3, ArmsMake
    <3> HIDE DEF made, ref, F
    <3>5. CASE made = NoSample /\ ref.type \notin Campaign
      BY <3>2, <3>5 DEF ArmsAgree, Campaign
    <3>6. CASE /\ F \in Campaign
               /\ made = Expected(gateway.registry, a, fields, recv)
               /\ ref = Expected(gateway.registry, a, fields, stamp)
      <4>1. made.type = F /\ ref.type = F /\ made.stamp = recv /\ ref.stamp = stamp
        BY <3>6 DEF Expected, F
      <4>2. [made EXCEPT !.stamp = 0] = [ref EXCEPT !.stamp = 0]
        <5>1. ASSUME NEW s
              PROVE  [Expected(gateway.registry, a, fields, s) EXCEPT !.stamp = 0]
                       = Expected(gateway.registry, a, fields, 0)
          <6> DEFINE def == gateway.registry[F]
                     given == Given(def, fields)
                     D == [k \in 1 .. Len(def) |-> IdlType(def[k])]
                     M == [k \in 1 .. Len(def) |->
                             IF k \in given THEN Convert(ParseCall(def[k]), fields[k])
                                            ELSE Default]
          <6>1. ASSUME NEW t
                PROVE  Expected(gateway.registry, a, fields, t)
                         = [type |-> F, declares |-> D, talker |-> Talker(F, a),
                            stamp |-> t, presence |-> given, members |-> M]
            BY DEF Expected, F
          <6> HIDE DEF D, M, given, def
          <6>2. Expected(gateway.registry, a, fields, s)
                  = [type |-> F, declares |-> D, talker |-> Talker(F, a),
                     stamp |-> s, presence |-> given, members |-> M]
            BY <6>1
          <6>3. Expected(gateway.registry, a, fields, 0)
                  = [type |-> F, declares |-> D, talker |-> Talker(F, a),
                     stamp |-> 0, presence |-> given, members |-> M]
            BY <6>1
          <6> QED
            BY <6>2, <6>3
        <5> QED
          BY <3>6, <5>1
      <4>3. made # NoSample
        BY <3>6, <4>1, CampaignNames DEF NoSample
      <4> QED
        BY <3>2, <3>6, <4>1, <4>2, <4>3 DEF ArmsAgree, Campaign
    <3> QED
      BY <3>4, <3>5, <3>6
  <2> QED
    BY <2>1, <2>2, <2>3, SamplesStep
<1> QED
  BY <1>1, <1>2, CheckStep, TypeCorrect, PTL DEF Spec

(***************************************************************************)
(* For a formatter of the campaign every member has a bit of the mask:     *)
(* the generator refuses a definition with more fields than bits.          *)
(***************************************************************************)
THEOREM PresenceContent == Spec => []PresenceIsContent
<1>1. Init => CheckInv /\ PresenceIsContent
  BY CampaignNames
     DEF Init, Idle, CheckInv, CheckedSoFar, Accepted, Running, Built, PresenceIsContent
<1>2. CheckInv /\ PresenceIsContent /\ [Next]_vars => PresenceIsContent'
  <2> SUFFICES ASSUME CheckInv, PresenceIsContent, [Next]_vars PROVE PresenceIsContent'
    OBVIOUS
  <2>1. CASE UNCHANGED <<sentence, samples>>
    BY <2>1 DEF PresenceIsContent, Campaign, Arms
  <2>2. CASE samples' = [arm \in Arms |-> NoSample]
    BY <2>2 DEF PresenceIsContent, Arms
  <2>3. ASSUME NEW a \in Addresses, NEW fields \in Views, NEW recv \in {"zero", "given"},
               Publish(a, fields, recv)
        PROVE  PresenceIsContent'
    <3> DEFINE made  == StaticSample(gateway, a, fields, recv)
               ref   == DynamicSample(gateway.registry, a, fields, recv)
               defs  == gateway.registry
               F     == ResolveFormatter(defs, a)
    <3>1. /\ samples' = [dynamic |-> ref, static |-> made]
          /\ sentence' = [address |-> a, fields |-> fields, recv |-> recv]
      BY <2>3 DEF Publish
    <3>2. /\ samples'["static"] = made /\ samples'["dynamic"] = ref
          /\ sentence'.fields = fields
      BY <3>1
    <3>3. Current(gateway) /\ Typed(defs)
      BY <2>3 DEF Publish, CheckInv, Built
    <3>4. ASSUME NEW sample \in {made, ref}, sample # NoSample, sample.type \in Campaign,
                 NEW k \in DOMAIN sample.members
          PROVE  /\ k \in sample.presence <=> k <= Len(fields) /\ fields[k] # Empty
                 /\ k \notin sample.presence => sample.members[k] = Default
      <4> DEFINE stamp == IF recv = "zero" THEN "clock" ELSE recv
      <4>1. /\ F \in Campaign
            /\ \E s \in {recv, stamp} : sample = Expected(defs, a, fields, s)
        BY <3>3, <3>4, ArmsMake
      <4>2. F \in DOMAIN defs
        BY <3>3, <4>1 DEF Current, Emittable, Registered
      <4>3. defs[F] \in Seq(FieldType)
        BY <3>3, <4>2 DEF Typed
      <4>4. Len(defs[F]) \in Nat /\ Len(fields) \in Nat
        BY <4>3, TypeArmsAssumption DEF TypeArmsAssumption
      <4>5. /\ sample.presence = Given(defs[F], fields)
            /\ DOMAIN sample.members = 1 .. Len(defs[F])
            /\ k \notin sample.presence => sample.members[k] = Default
        BY <3>4, <4>1 DEF Expected
      <4>6. k \in 1 .. Len(defs[F])
        BY <3>4, <4>5
      <4> HIDE DEF F, defs
      <4>7. k \in Given(defs[F], fields) <=> k <= Len(fields) /\ fields[k] # Empty
        BY <4>4, <4>6 DEF Given, Min
      <4> QED
        BY <4>5, <4>7
    <3> HIDE DEF made, ref
    <3>5. ASSUME NEW arm \in Arms PROVE samples'[arm] \in {made, ref}
      BY <3>2 DEF Arms
    <3> QED
      BY <3>2, <3>4, <3>5 DEF PresenceIsContent, Campaign, Arms
  <2> QED
    BY <2>1, <2>2, <2>3, SamplesStep
<1> QED
  BY <1>1, <1>2, CheckStep, TypeCorrect, PTL DEF Spec
=============================================================================
