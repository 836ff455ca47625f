------------------------------ MODULE Console ------------------------------
(***************************************************************************)
(* The operator's console: GatewayController with the interfaces, devices  *)
(* and conversions panels (ui/GatewayController.cpp, ui/MainWindow.cpp,    *)
(* ui/panels, ui/models/ConversionModel.cpp).                              *)
(*                                                                         *)
(* Everything but the workers runs in the UI thread, one event at a time:  *)
(* an action is a whole handler, with the signals it emits and the slots   *)
(* they call.  The workers (one Pipeline for each source) post an event    *)
(* for each sentence into the queue of that thread.                        *)
(*                                                                         *)
(* Left out: the values shown for the fields of a sentence, the "sin       *)
(* datos" marks, measured rates, and raw sentences, which no panel keeps.  *)
(***************************************************************************)
EXTENDS Integers, Sequences, FiniteSets, SequencesExt

CONSTANTS
    Sources,      \* source strings the operator connects
    Flows,        \* <<talker, formatter>> pairs in the registry
    RosFlows,     \* those of category GPS or Inertial
    Brings,       \* which source may deliver which flow
    DeviceIds, QosProfiles,
    NoTarget,     \* not in the allowlist
    NoFlow,       \* nothing selected: sel_formatter_ is empty
    TalkerNode,   \* a top-level node of the tree
    MaxQueue,     \* bound: events waiting for the UI thread
    MaxRows       \* bound: rows of the conversions table

Target == [device_id : DeviceIds, qos : QosProfiles]
Row    == [flow : Flows, device_id : DeviceIds, qos : QosProfiles,
           ros : {"none", "topic"}]

ASSUME ConsoleAssumption ==
    /\ RosFlows \subseteq Flows
    /\ Brings \subseteq Sources \X Flows
    /\ NoTarget \notin Target
    /\ NoFlow \notin Flows
    /\ TalkerNode \notin Brings /\ TalkerNode \notin Flows \cup {NoFlow}
    /\ MaxQueue \in Nat /\ MaxRows \in Nat

VARIABLES
    connected,   \* keys of pipelines_
    worker,      \* the thread of each pipeline: "none", "running", "ended"
    queue,       \* sentence events posted to the UI thread
    rates,       \* keys of iface_rates_
    plan,        \* publish_plan_
    ros,         \* flows enabled in RosPublisher
    nodes,       \* trama_items_: which exist, and which may be selected
    selected,    \* sel_talker_, sel_formatter_
    rows,        \* ConversionModel::rows_
    twice        \* history: flows with a row that were converted once more

sourceVars == <<connected, worker>>
eventVars  == <<queue, rates>>
flowVars   == <<plan, ros, rows, twice>>
treeVars   == <<nodes, selected>>
vars == <<sourceVars, eventVars, flowVars, treeVars>>

TypeOK ==
    /\ connected \in SUBSET Sources
    /\ worker \in [Sources -> {"none", "running", "ended"}]
    /\ queue \in Seq(Brings) /\ Len(queue) <= MaxQueue
    /\ rates \in SUBSET Sources
    /\ plan \in [Flows -> Target \cup {NoTarget}]
    /\ ros \in SUBSET RosFlows
    /\ nodes \in [Brings -> {"absent", "available", "converted"}]
    /\ selected \in Flows \cup {NoFlow}
    /\ rows \in Seq(Row) /\ Len(rows) <= MaxRows
    /\ twice \in SUBSET Flows

Init ==
    /\ connected = {} /\ worker = [s \in Sources |-> "none"]
    /\ queue = <<>> /\ rates = {}
    /\ plan = [f \in Flows |-> NoTarget] /\ ros = {} /\ rows = <<>> /\ twice = {}
    /\ nodes = [n \in Brings |-> "absent"] /\ selected = NoFlow

Source(n) == n[1]
Flow(n)   == n[2]

Converted(flow) == plan[flow] # NoTarget

----------------------------------------------------------------------------
(* The workers. *)

(* on_sentence: the event goes to the end of the queue of the UI thread. *)
Sentence(n) ==
    /\ worker[Source(n)] = "running"
    /\ Len(queue) < MaxQueue
    /\ queue' = Append(queue, n)
    /\ UNCHANGED <<sourceVars, rates, flowVars, treeVars>>

(* The source is gone: the worker ends in Error, its pipeline stays. *)
SourceLost(s) ==
    /\ worker[s] = "running"
    /\ worker' = [worker EXCEPT ![s] = "ended"]
    /\ UNCHANGED <<connected, eventVars, flowVars, treeVars>>

----------------------------------------------------------------------------
(* The UI thread: sources. *)

(* connectInterface, when makeSource succeeds; otherwise nothing changes. *)
ConnectInterface(s) ==
    /\ s \notin connected
    /\ connected' = connected \cup {s}
    /\ worker' = [worker EXCEPT ![s] = "running"]
    /\ UNCHANGED <<eventVars, flowVars, treeVars>>

(* A sentence event: rates, then DevicesPanel::onSentenceDetected. *)
Deliver ==
    /\ queue # <<>>
    /\ LET n == Head(queue) IN
       /\ rates' = rates \cup {Source(n)}
       /\ nodes' = [nodes EXCEPT ![n] = IF @ = "absent" THEN "available" ELSE @]
    /\ queue' = Tail(queue)
    /\ UNCHANGED <<sourceVars, flowVars, selected>>

NodesOf(s) == {n \in Brings : Source(n) = s /\ nodes[n] # "absent"}

(* The flows a selection of the tree may give once the nodes of s are gone. *)
Selectable(s) == {Flow(n) : n \in {m \in Brings : /\ Source(m) # s
                                                  /\ nodes[m] = "available"}}

(* Variant: removeInterface leaves the selection alone. *)
RemoveInterfaceOnly(s) ==
    /\ nodes' = [n \in Brings |-> IF Source(n) = s THEN "absent" ELSE nodes[n]]
    /\ UNCHANGED selected

(***************************************************************************)
(* removeInterface: the nodes of the source go; a selection of one of      *)
(* their flows is cleared.  Where the tree's current node is deleted Qt    *)
(* may select another one, which calls onTreeSelectionChanged.             *)
(***************************************************************************)
RemoveInterface(s) ==
    /\ nodes' = [n \in Brings |-> IF Source(n) = s THEN "absent" ELSE nodes[n]]
    /\ IF selected = NoFlow \/ selected \in {Flow(n) : n \in NodesOf(s)}
       THEN selected' \in {NoFlow} \cup Selectable(s)
       ELSE UNCHANGED selected

(* Variant: the pipeline is forgotten and its thread is not joined. *)
DisconnectUnjoined(s) ==
    /\ s \in connected
    /\ connected' = connected \ {s}
    /\ rates' = rates \ {s}
    /\ RemoveInterface(s)
    /\ UNCHANGED <<worker, queue, flowVars>>

(* disconnectInterface: stop() joins the worker, whose events stay queued. *)
DisconnectInterface(s) ==
    /\ s \in connected
    /\ worker' = [worker EXCEPT ![s] = "none"]
    /\ connected' = connected \ {s}
    /\ rates' = rates \ {s}
    /\ RemoveInterface(s)
    /\ UNCHANGED <<queue, flowVars>>

----------------------------------------------------------------------------
(* The UI thread: conversions. *)

(* onTreeSelectionChanged: a talker or nothing clears the selection. *)
Select(item) ==
    /\ item # TalkerNode => nodes[item] = "available"
    /\ selected' = IF item = TalkerNode THEN NoFlow ELSE Flow(item)
    /\ UNCHANGED <<sourceVars, eventVars, flowVars, nodes>>

(* markConverted, markAvailable: on the nodes that exist, of every source. *)
Mark(flow, mark) ==
    nodes' = [n \in Brings |-> IF Flow(n) = flow /\ nodes[n] # "absent"
                               THEN mark ELSE nodes[n]]

RowsOf(flow) == {i \in 1..Len(rows) : rows[i].flow = flow}

(* The one the panel finds. *)
FirstRow(flow) == Min(RowsOf(flow))

(* The row onConversionAdded appends, and markRos on the first of the flow. *)
RowsWith(flow, target, with_ros) ==
    LET row   == [flow |-> flow, device_id |-> target.device_id,
                  qos |-> target.qos, ros |-> "none"]
        added == Append(rows, row)
        first == IF RowsOf(flow) = {} THEN Len(added) ELSE FirstRow(flow)
    IN  IF with_ros THEN [added EXCEPT ![first].ros = "topic"] ELSE added

(* "Convertir": addConversion, markConverted, and with ROS checked enableRos. *)
Convert(target, with_ros) ==
    /\ selected # NoFlow
    /\ with_ros => selected \in RosFlows
    /\ Len(rows) < MaxRows
    /\ plan' = [plan EXCEPT ![selected] = target]
    /\ rows' = RowsWith(selected, target, with_ros)
    /\ Mark(selected, "converted")
    /\ ros' = IF with_ros THEN ros \cup {selected} ELSE ros
    /\ twice' = IF RowsOf(selected) = {} THEN twice ELSE twice \cup {selected}
    /\ UNCHANGED <<sourceVars, eventVars, selected>>

(* The first row of the flow goes; the history forgets it with the last.   *)
RemoveRow(flow) ==
    /\ rows' = RemoveAt(rows, FirstRow(flow))
    /\ twice' = IF RowsOf(flow) = {FirstRow(flow)} THEN twice \ {flow} ELSE twice

(* Variant: the row goes, the allowlist keeps the flow. *)
DeleteRowOnly(i) ==
    LET flow == rows[i].flow IN
    /\ ros' = ros \ {flow}
    /\ RemoveRow(flow)
    /\ Mark(flow, "available")
    /\ UNCHANGED <<sourceVars, eventVars, plan, selected>>

(* Variant: the ROS publisher is not told. *)
DeleteKeepsRos(i) ==
    LET flow == rows[i].flow IN
    /\ plan' = [plan EXCEPT ![flow] = NoTarget]
    /\ RemoveRow(flow)
    /\ Mark(flow, "available")
    /\ UNCHANGED <<sourceVars, eventVars, ros, selected>>

(* Variant: nobody listens to deleteRequested. *)
DeleteKeepsMarks(i) ==
    LET flow == rows[i].flow IN
    /\ plan' = [plan EXCEPT ![flow] = NoTarget]
    /\ ros' = ros \ {flow}
    /\ RemoveRow(flow)
    /\ UNCHANGED <<sourceVars, eventVars, nodes, selected>>

(***************************************************************************)
(* "Eliminar conversión": removeConversion on the flow of the row; the     *)
(* first row of the flow goes, and its nodes are available again.          *)
(***************************************************************************)
Delete(i) ==
    LET flow == rows[i].flow IN
    /\ plan' = [plan EXCEPT ![flow] = NoTarget]
    /\ ros' = ros \ {flow}
    /\ RemoveRow(flow)
    /\ Mark(flow, "available")
    /\ UNCHANGED <<sourceVars, eventVars, selected>>

(* Variant: updateConversionQoS, and the row is not told. *)
EditQosUnseen(i, qos) ==
    LET flow == rows[i].flow IN
    /\ Converted(flow)
    /\ plan' = [plan EXCEPT ![flow].qos = qos]
    /\ UNCHANGED <<sourceVars, eventVars, ros, rows, twice, treeVars>>

(***************************************************************************)
(* "Editar QoS": updateConversionQoS keeps the device_id of the allowlist, *)
(* does nothing for a flow not in it, and the first row of the flow shows  *)
(* the new profile.  The dialog is modal: only events arrive meanwhile.    *)
(***************************************************************************)
EditQos(i, qos) ==
    LET flow == rows[i].flow IN
    /\ Converted(flow)
    /\ plan' = [plan EXCEPT ![flow].qos = qos]
    /\ rows' = [rows EXCEPT ![FirstRow(flow)].qos = qos]
    /\ UNCHANGED <<sourceVars, eventVars, ros, twice, treeVars>>

----------------------------------------------------------------------------
Workers ==
    \/ \E n \in Brings : Sentence(n)
    \/ \E s \in Sources : SourceLost(s)

Interfaces == \E s \in Sources : ConnectInterface(s) \/ DisconnectInterface(s)

Conversions ==
    \/ \E item \in Brings \cup {TalkerNode} : Select(item)
    \/ \E target \in Target, with_ros \in BOOLEAN : Convert(target, with_ros)
    \/ \E i \in 1..Len(rows) : Delete(i)
    \/ \E i \in 1..Len(rows), qos \in QosProfiles : EditQos(i, qos)

Next == Workers \/ Deliver \/ Interfaces \/ Conversions

Spec == Init /\ [][Next]_vars

----------------------------------------------------------------------------
(***************************************************************************)
(* The table and the allowlist are two records, changed by handlers of two *)
(* objects: a flow has a row exactly as long as it is published, and one   *)
(* only.  A second conversion of a flow that has a row is the only way to  *)
(* another row, or to a row left without its publication                   *)
(* (GatewayController.cpp:195-242, ConversionsPanel.cpp:112-162).          *)
(***************************************************************************)
OneRowUnlessTwice ==
    \A f \in Flows \ twice :
        /\ Converted(f) <=> RowsOf(f) # {}
        /\ \A i, j \in RowsOf(f) : i = j

(***************************************************************************)
(* What a flow is published with can be read off its rows, after any       *)
(* sequence of conversions, edits and removals: a row shows the device_id  *)
(* and a row shows the QoS.  They are the same where there is one row; of  *)
(* several, an edit tells the first and a conversion adds the last         *)
(* (ConversionsPanel.cpp:112-116, 137-159, GatewayController.cpp:195-242). *)
(***************************************************************************)
RowsShowTarget ==
    \A f \in Flows :
        Converted(f) => /\ \E i \in RowsOf(f) : rows[i].device_id = plan[f].device_id
                        /\ \E i \in RowsOf(f) : rows[i].qos = plan[f].qos

(***************************************************************************)
(* ROS publishes nothing the operator has taken off the allowlist, and the *)
(* table shows exactly the flows it publishes, although enableRos, markRos *)
(* and the removal act on three tables, and a second conversion of a flow  *)
(* may leave ROS unchecked (GatewayController.cpp:237-242,                 *)
(* MainWindow.cpp:145-155, ConversionModel.cpp:60-69).                     *)
(***************************************************************************)
RosAsShown ==
    \A f \in Flows :
        /\ f \in ros => Converted(f)
        /\ f \in ros <=> \E i \in RowsOf(f) : rows[i].ros = "topic"

(***************************************************************************)
(* A node shown as converted belongs to a flow that is: otherwise the flow *)
(* could be selected no more (DevicesPanel.cpp:146, 161-181).              *)
(***************************************************************************)
MarkedAreConverted ==
    \A n \in Brings : nodes[n] = "converted" => Converted(Flow(n))

(***************************************************************************)
(* What "Convertir" would convert is a sentence the tree shows: the        *)
(* selection does not survive the last node of its flow                    *)
(* (DevicesPanel.cpp:183-203, MainWindow.cpp:135-138).                     *)
(***************************************************************************)
SelectionIsInTree ==
    selected # NoFlow => \E n \in Brings : Flow(n) = selected /\ nodes[n] # "absent"

Waiting(s) == Cardinality({i \in 1..Len(queue) : Source(queue[i]) = s})

(***************************************************************************)
(* After disconnectInterface returned no worker posts for the source: what *)
(* is queued only gets less (GatewayController.cpp:167-174).               *)
(***************************************************************************)
StoppedSourceIsSilent ==
    [][\A s \in Sources \ connected : s \notin connected' => Waiting(s)' <= Waiting(s)]_vars

----------------------------------------------------------------------------
(* What the comments say and the code does not do. *)

(***************************************************************************)
(* "Al desconectar una interfaz, sus tramas desaparecen del panel"         *)
(* (MainWindow.cpp:114): the tree has no node of a source that is not      *)
(* connected.                                                              *)
(***************************************************************************)
DisconnectedLeaveTheTree ==
    \A n \in Brings : nodes[n] # "absent" => Source(n) \in connected
=============================================================================
