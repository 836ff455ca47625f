---------------------------- MODULE ConvertDesk ----------------------------
(***************************************************************************)
(* What a click on "Convertir" would publish: the selected flow, the       *)
(* device id proposed for it (ui/panels/DevicesPanel.cpp), the QoS of the  *)
(* recommender and the profile panel (ui/QoSRecommender.cpp,               *)
(* ui/panels/QoSPanel.cpp), the ROS options (ui/panels/IdlPreviewPanel.cpp)*)
(* and the wiring of the four panels (ui/MainWindow.cpp).  Every panel     *)
(* keeps state of its own; all of it runs in the UI thread.                *)
(*                                                                         *)
(* Which nodes the tree has and which of them are selectable is Console's  *)
(* subject: here any flow may be selected and any selection may vanish.    *)
(***************************************************************************)
EXTENDS Integers, FiniteSets, TLC

CONSTANTS
    Flows,        \* <<talker, formatter>>
    Category,     \* of each flow, as the registry has it
    QosEdits,     \* values the operator gives the QoS controls
    Typed,        \* device ids the operator types, <<>> for a cleared edit
    OwnName,      \* a profile name the operator types
    OwnTopic,     \* a ROS topic the operator types
    NoFlow, NoTarget

ASSUME DeskAssumption ==
    /\ Category \in [Flows -> STRING]
    /\ NoFlow \notin Flows

VARIABLES
    selected,   \* selected flow, or NoFlow
    shown,      \* flow the other panels were last set up for: last_category
    device,     \* text of the edit and its property "auto"
    panel,      \* name and values the profile panel shows
    library,    \* profiles_: values of each profile name
    ros,        \* "Publicar como ROS" and its topic
    touched,    \* history: what the operator changed since the selection
    targets     \* ROS target of each flow

selectVars == <<selected, shown>>
vars == <<selectVars, device, panel, library, ros, touched, targets>>

----------------------------------------------------------------------------
(* The recommender. *)

Qos(reliable, transient, deadline, lifespan) ==
    [reliable |-> reliable, transient_local |-> transient,
     deadline_ms |-> deadline, lifespan_ms |-> lifespan]

(* milliseconds / rate_hz to the nearest integer; 0 is "unlimited". *)
PerSentence(milliseconds, rate_hz) ==
    IF rate_hz = 0 THEN 0 ELSE (2 * milliseconds + rate_hz) \div (2 * rate_hz)

Latched == {"Radar", "Sounder", "Weather", "Autopilot", "AIS"}

ProfileName(category) ==
    IF category \in Latched THEN "state_latched" ELSE "telemetry_fast"

Recommend(category, rate_hz) ==
    LET latched == category \in Latched IN
    Qos(latched, latched, PerSentence(1500, rate_hz), PerSentence(2000, rate_hz))

(* The rate a selection hands on: the tree passes 0, whatever was measured. *)
SelectionRate == 0

Seeded == ("telemetry_fast" :> Qos(FALSE, FALSE, 0, 0))
            @@ ("state_latched" :> Qos(TRUE, TRUE, 0, 0))

----------------------------------------------------------------------------
(* Proposals of the other panels. *)

(* Category and talker; a proprietary sentence has no talker. *)
Proposed(flow) == <<Category[flow], IF flow[1] = "" THEN "x" ELSE flow[1]>>

Supported(category) == category \in {"GPS", "Inertial"}

DefaultTopic(category) ==
    CASE category = "Inertial" -> "/imu/data"
      [] category = "GPS" -> "/gps/fix"
      [] OTHER -> ""

MessageOf(category) == IF category = "Inertial" THEN "Imu" ELSE "NavSatFix"

----------------------------------------------------------------------------

Init ==
    /\ selected = NoFlow /\ shown = NoFlow
    /\ device = [text |-> <<>>, auto |-> FALSE]
    /\ panel = [name |-> "telemetry_fast", qos |-> Seeded["telemetry_fast"]]
    /\ library = Seeded
    /\ ros = [checked |-> FALSE, topic |-> ""]
    /\ touched = {} /\ targets = [f \in Flows |-> NoTarget]

(* Variant: a proposal replaces nothing but an empty text. *)
ProposeDeviceWhenEmpty(flow) ==
    device' = IF device.text = <<>> THEN [text |-> Proposed(flow), auto |-> TRUE]
              ELSE device

(* "auto" is never reset: a text typed later is replaced as well.          *)
ProposeDevice(flow) ==
    device' = IF device.text = <<>> \/ device.auto
              THEN [text |-> Proposed(flow), auto |-> TRUE] ELSE device

(* Variant: the panel shows what its library has under the name. *)
SetProfileFromLibrary(name, qos) ==
    /\ library' = library
    /\ panel' = [name |-> name, qos |-> library[name]]

(* A name new to the library is added; one it has keeps its values there,  *)
(* while the controls show the proposal.                                   *)
SetProfile(name, qos) ==
    /\ library' = library @@ (name :> qos)
    /\ panel' = [name |-> name, qos |-> qos]

(* Variant: a box ticked for another flow stays ticked. *)
ConfigureRosKeepingTick(category) ==
    ros' = [checked |-> ros.checked, topic |-> DefaultTopic(category)]

ConfigureRos(category) ==
    ros' = [checked |-> ros.checked /\ Supported(category),
            topic |-> DefaultTopic(category)]

(* A click on a selectable node, and the signal tramaSelected.             *)
Select(flow) ==
    /\ selected' = flow /\ shown' = flow /\ touched' = {}
    /\ ProposeDevice(flow)
    /\ SetProfile(ProfileName(Category[flow]), Recommend(Category[flow], SelectionRate))
    /\ ConfigureRos(Category[flow])
    /\ UNCHANGED targets

(* A click elsewhere, on a converted node, or the interface of the flow is *)
(* gone: the other panels keep what they show.                             *)
Deselect ==
    /\ selected # NoFlow /\ selected' = NoFlow
    /\ UNCHANGED <<shown, device, panel, library, ros, touched, targets>>

TypeDevice(text) ==
    /\ device' = [device EXCEPT !.text = text] /\ touched' = touched \cup {"device"}
    /\ UNCHANGED <<selectVars, panel, library, ros, targets>>

----------------------------------------------------------------------------
(* The profile panel. *)

EditControls(qos) ==
    /\ panel' = [panel EXCEPT !.qos = qos] /\ touched' = touched \cup {"qos"}
    /\ UNCHANGED <<selectVars, device, library, ros, targets>>

(* The combo box only tells of a change. *)
PickProfile(name) ==
    /\ name # panel.name
    /\ panel' = [name |-> name, qos |-> library[name]]
    /\ touched' = touched \cup {"qos"}
    /\ UNCHANGED <<selectVars, device, library, ros, targets>>

(* The values of the controls under a name, also under one that is taken.  *)
NewProfile(name) ==
    /\ library' = (name :> panel.qos) @@ library
    /\ panel' = [panel EXCEPT !.name = name]
    /\ UNCHANGED <<selectVars, device, ros, touched, targets>>

SaveProfile ==
    /\ library' = [library EXCEPT ![panel.name] = panel.qos]
    /\ UNCHANGED <<selectVars, device, panel, ros, touched, targets>>

----------------------------------------------------------------------------
(* The ROS options. *)

ToggleRos ==
    /\ shown # NoFlow /\ Supported(Category[shown])
    /\ ros' = [ros EXCEPT !.checked = ~@]
    /\ UNCHANGED <<selectVars, device, panel, library, touched, targets>>

TypeTopic ==
    /\ ros.checked /\ ros' = [ros EXCEPT !.topic = OwnTopic]
    /\ touched' = touched \cup {"topic"}
    /\ UNCHANGED <<selectVars, device, panel, library, targets>>

(* The button asks the devices panel for the flow and the static           *)
(* last_category for the message.  Without a flow or a device id it only   *)
(* shows a message.  A conversion without the tick leaves an earlier       *)
(* target of the flow.                                                     *)
Convert ==
    /\ selected # NoFlow /\ device.text # <<>>
    /\ targets' = IF ros.checked
                  THEN [targets EXCEPT ![selected] =
                           [message |-> MessageOf(Category[shown]), topic |-> ros.topic]]
                  ELSE targets
    /\ UNCHANGED <<selectVars, device, panel, library, ros, touched>>

(* removeConversion(), by the delete button of the table. *)
Remove(flow) ==
    /\ targets[flow] # NoTarget
    /\ targets' = [targets EXCEPT ![flow] = NoTarget]
    /\ UNCHANGED <<selectVars, device, panel, library, ros, touched>>

----------------------------------------------------------------------------

Next ==
    \/ \E f \in Flows : Select(f) \/ Remove(f)
    \/ Deselect \/ Convert \/ SaveProfile \/ ToggleRos \/ TypeTopic
    \/ \E text \in Typed : TypeDevice(text)
    \/ \E qos \in QosEdits : EditControls(qos)
    \/ \E name \in DOMAIN library : PickProfile(name)
    \/ \E name \in DOMAIN library \cup {OwnName} : NewProfile(name)

Spec == Init /\ [][Next]_vars

----------------------------------------------------------------------------
(* Properties. *)

(* Whatever the operator selected, edited, saved or picked before, a flow  *)
(* converted with a profile panel left alone since its selection is        *)
(* published with the profile of its own category.                         *)
ConvertedWithOwnProfile ==
    selected # NoFlow /\ "qos" \notin touched =>
        panel.qos = Recommend(Category[selected], SelectionRate)

(* Once an id was proposed, a flow is converted under the id proposed for  *)
(* itself or under one typed since its selection, never under one of the   *)
(* flow selected before.                                                   *)
DeviceIsOfSelection ==
    selected # NoFlow /\ device.auto /\ "device" \notin touched =>
        device.text = Proposed(selected)

(* A flow published through ROS has the message of its category and no     *)
(* other flow has one, although the tick stays from flow to flow and the   *)
(* message is chosen from the category of the last click.                  *)
RosMessageFits ==
    \A f \in Flows : targets[f] # NoTarget =>
        /\ Supported(Category[f])
        /\ targets[f].message = MessageOf(Category[f])
        /\ targets[f].topic \in {DefaultTopic(Category[f]), OwnTopic}
=============================================================================
