------------------------- MODULE ConvertDeskProofs -------------------------
(***************************************************************************)
(* Theorems about ConvertDesk, for any flows, categories, profiles and     *)
(* texts the operator types.                                               *)
(***************************************************************************)
EXTENDS ConvertDesk, TLAPS

(* The panels are what they are made of, and set up for the selected flow. *)
Shape ==
    /\ selected \in Flows \cup {NoFlow} /\ selected \in {shown, NoFlow}
    /\ panel = [name |-> panel.name, qos |-> panel.qos]
    /\ device = [text |-> device.text, auto |-> device.auto]
    /\ ros = [checked |-> ros.checked, topic |-> ros.topic] /\ ros.checked \in BOOLEAN
    /\ targets = [f \in Flows |-> targets[f]]

(* A tick is on only while it may be, and the topic is of the flow shown. *)
TickFits ==
    /\ ros.checked => shown # NoFlow /\ Supported(Category[shown])
    /\ shown # NoFlow => ros.topic \in {DefaultTopic(Category[shown]), OwnTopic}

LEMMA ShapeInvariant == Spec => []Shape
<1>1. Init => Shape
  <2> SUFFICES ASSUME Init PROVE Shape
    OBVIOUS
  <2>1. panel = [name |-> panel.name, qos |-> panel.qos]
    BY DEF Init
  <2>2. device = [text |-> device.text, auto |-> device.auto]
    BY DEF Init
  <2>3. ros = [checked |-> ros.checked, topic |-> ros.topic] /\ ros.checked \in BOOLEAN
    BY DEF Init
  <2>4. targets = [f \in Flows |-> targets[f]]
    BY DEF Init
  <2> QED
    BY <2>1, <2>2, <2>3, <2>4 DEF Init, Shape
<1>2. Shape /\ [Next]_vars => Shape'
  <2> SUFFICES ASSUME Shape, [Next]_vars PROVE Shape'
    OBVIOUS
  <2>1. ASSUME NEW f \in Flows, Select(f) PROVE Shape'
    <3>1. panel' = [name |-> panel'.name, qos |-> panel'.qos]
      BY <2>1 DEF Select, SetProfile
    <3>2. device' = [text |-> device'.text, auto |-> device'.auto]
      BY <2>1 DEF Select, ProposeDevice, Shape
    <3>3. ros' = [checked |-> ros'.checked, topic |-> ros'.topic] /\ ros'.checked \in BOOLEAN
      BY <2>1 DEF Select, ConfigureRos, Shape, Supported
    <3> QED
      BY <2>1, <3>1, <3>2, <3>3 DEF Select, Shape
  <2>2. ASSUME NEW f \in Flows, Remove(f) PROVE Shape'
    BY <2>2 DEF Remove, Shape, selectVars
  <2>3. CASE Deselect
    BY <2>3 DEF Deselect, Shape
  <2>4. CASE Convert
    BY <2>4 DEF Convert, Shape, selectVars
  <2>5. CASE SaveProfile
    BY <2>5 DEF SaveProfile, Shape, selectVars
  <2>6. CASE ToggleRos
    BY <2>6 DEF ToggleRos, Shape, selectVars
  <2>7. CASE TypeTopic
    BY <2>7 DEF TypeTopic, Shape, selectVars
  <2>8. ASSUME NEW text \in Typed, TypeDevice(text) PROVE Shape'
    BY <2>8 DEF TypeDevice, Shape, selectVars
  <2>9. ASSUME NEW qos \in QosEdits, EditControls(qos) PROVE Shape'
    BY <2>9 DEF EditControls, Shape, selectVars
  <2>10. ASSUME NEW name, PickProfile(name) PROVE Shape'
    BY <2>10 DEF PickProfile, Shape, selectVars
  <2>11. ASSUME NEW name, NewProfile(name) PROVE Shape'
    BY <2>11 DEF NewProfile, Shape, selectVars
  <2>12. CASE UNCHANGED vars
    BY <2>12 DEF vars, Shape, selectVars
  <2> QED
    BY <2>1, <2>2, <2>3, <2>4, <2>5, <2>6, <2>7, <2>8, <2>9, <2>10, <2>11, <2>12 DEF Next
<1> QED
  BY <1>1, <1>2, PTL DEF Spec

(***************************************************************************)
(* Only a selection sets "qos" back among what was touched, and it shows   *)
(* the proposal whatever the library has under its name                    *)
(* (QoSPanel.cpp:122-130).                                                 *)
(***************************************************************************)
THEOREM OwnProfile == Spec => []ConvertedWithOwnProfile
<1>1. Init => ConvertedWithOwnProfile
  BY DEF Init, ConvertedWithOwnProfile
<1>2. Shape /\ ConvertedWithOwnProfile /\ [Next]_vars => ConvertedWithOwnProfile'
  <2> SUFFICES ASSUME Shape, ConvertedWithOwnProfile, [Next]_vars
               PROVE  ConvertedWithOwnProfile'
    OBVIOUS
  <2>1. ASSUME NEW f \in Flows, Select(f) PROVE ConvertedWithOwnProfile'
    BY <2>1 DEF Select, SetProfile, ConvertedWithOwnProfile
  <2>2. ASSUME NEW name, NewProfile(name) PROVE ConvertedWithOwnProfile'
    <3>1. panel'.qos = panel.qos
      BY <2>2 DEF NewProfile, Shape
    <3> QED
      BY <2>2, <3>1 DEF NewProfile, ConvertedWithOwnProfile, selectVars
  <2>3. CASE "qos" \in touched'
    BY <2>3 DEF ConvertedWithOwnProfile
  <2>4. CASE /\ panel' = panel /\ selected' \in {selected, NoFlow}
             /\ "qos" \in touched => "qos" \in touched'
    BY <2>4 DEF ConvertedWithOwnProfile
  <2> QED
    BY <2>1, <2>2, <2>3, <2>4
       DEF Next, Remove, Deselect, Convert, SaveProfile, ToggleRos, TypeTopic, TypeDevice,
           EditControls, PickProfile, vars, selectVars
<1> QED
  BY <1>1, <1>2, ShapeInvariant, PTL DEF Spec

(***************************************************************************)
(* Once "auto" is on it stays, and every selection replaces the id         *)
(* (DevicesPanel.cpp:151-157).                                             *)
(***************************************************************************)
THEOREM DeviceOfSelection == Spec => []DeviceIsOfSelection
<1>1. Init => DeviceIsOfSelection
  BY DEF Init, DeviceIsOfSelection
<1>2. Shape /\ DeviceIsOfSelection /\ [Next]_vars => DeviceIsOfSelection'
  <2> SUFFICES ASSUME Shape, DeviceIsOfSelection, [Next]_vars PROVE DeviceIsOfSelection'
    OBVIOUS
  <2>1. ASSUME NEW f \in Flows, Select(f) PROVE DeviceIsOfSelection'
    BY <2>1 DEF Select, ProposeDevice, DeviceIsOfSelection
  <2>2. CASE "device" \in touched'
    BY <2>2 DEF DeviceIsOfSelection
  <2>3. CASE /\ device' = device /\ selected' \in {selected, NoFlow}
             /\ "device" \in touched => "device" \in touched'
    BY <2>3 DEF DeviceIsOfSelection
  <2> QED
    BY <2>1, <2>2, <2>3
       DEF Next, Remove, Deselect, Convert, SaveProfile, ToggleRos, TypeTopic, TypeDevice,
           EditControls, PickProfile, NewProfile, vars, selectVars
<1> QED
  BY <1>1, <1>2, ShapeInvariant, PTL DEF Spec

(***************************************************************************)
(* The message is chosen from last_category and the flow asked from the    *)
(* devices panel: they agree in every conversion, because a selection sets *)
(* both and nothing but a selection sets either (MainWindow.cpp:118-157).  *)
(***************************************************************************)
THEOREM RosFits == Spec => []RosMessageFits
<1> DEFINE Inv == TickFits /\ RosMessageFits
<1>1. Init => Inv
  <2> SUFFICES ASSUME Init PROVE Inv
    OBVIOUS
  <2>1. ~ros.checked /\ shown = NoFlow
    BY DEF Init
  <2>2. \A f \in Flows : targets[f] = NoTarget
    BY DEF Init
  <2> QED
    BY <2>1, <2>2 DEF TickFits, RosMessageFits
<1>2. Shape /\ Inv /\ [Next]_vars => Inv'
  <2> SUFFICES ASSUME Shape, TickFits, RosMessageFits, [Next]_vars
               PROVE  TickFits' /\ RosMessageFits'
    OBVIOUS
  <2>1. ASSUME NEW f \in Flows, Select(f) PROVE TickFits' /\ RosMessageFits'
    <3>1. RosMessageFits'
      BY <2>1 DEF Select, RosMessageFits
    <3>2. /\ ros'.checked => Supported(Category[f])
          /\ ros'.topic = DefaultTopic(Category[f])
      BY <2>1 DEF Select, ConfigureRos
    <3>3. shown' = f /\ f # NoFlow
      BY <2>1, DeskAssumption DEF Select, DeskAssumption
    <3> QED
      BY <3>1, <3>2, <3>3 DEF TickFits
  <2>2. ASSUME NEW f \in Flows, Remove(f) PROVE TickFits' /\ RosMessageFits'
    BY <2>2 DEF Remove, TickFits, RosMessageFits, Shape, selectVars
  <2>3. CASE Convert
    <3>1. shown = selected /\ selected \in Flows
      BY <2>3 DEF Convert, Shape
    <3>2. TickFits'
      BY <2>3 DEF Convert, TickFits, selectVars
    <3>3. CASE ~ros.checked
      BY <2>3, <3>2, <3>3 DEF Convert, RosMessageFits
    <3>4. CASE ros.checked
      <4> DEFINE made == [message |-> MessageOf(Category[shown]), topic |-> ros.topic]
      <4>1. targets' = [targets EXCEPT ![selected] = made]
        BY <2>3, <3>4 DEF Convert
      <4>2. /\ made.message = MessageOf(Category[selected])
            /\ made.topic \in {DefaultTopic(Category[selected]), OwnTopic}
            /\ Supported(Category[selected])
        BY <3>1, <3>4 DEF TickFits
      <4> HIDE DEF made
      <4>3. ASSUME NEW f \in Flows
            PROVE  targets'[f] = IF f = selected THEN made ELSE targets[f]
        BY <4>1 DEF Shape
      <4>4. RosMessageFits'
        BY <4>2, <4>3 DEF RosMessageFits
      <4> QED
        BY <3>2, <4>4
    <3> QED
      BY <3>3, <3>4
  <2>4. CASE ToggleRos
    <3>1. ros'.topic = ros.topic
      BY <2>4 DEF ToggleRos, Shape
    <3> QED
      BY <2>4, <3>1 DEF ToggleRos, TickFits, RosMessageFits, selectVars
  <2>5. CASE TypeTopic
    <3>1. ros'.topic = OwnTopic /\ ros'.checked = ros.checked
      BY <2>5 DEF TypeTopic, Shape
    <3> QED
      BY <2>5, <3>1 DEF TypeTopic, TickFits, RosMessageFits, selectVars
  <2>6. CASE UNCHANGED <<shown, ros, targets>>
    BY <2>6 DEF TickFits, RosMessageFits
  <2> QED
    BY <2>1, <2>2, <2>3, <2>4, <2>5, <2>6
       DEF Next, Deselect, SaveProfile, TypeDevice, EditControls, PickProfile, NewProfile,
           vars, selectVars
<1> QED
  BY <1>1, <1>2, ShapeInvariant, PTL DEF Spec
=============================================================================
