---------------------------- MODULE ConsoleProofs ----------------------------
(***************************************************************************)
(* Theorems about Console, for any sources, flows and profiles, any length *)
(* of the queue and of the table.                                          *)
(***************************************************************************)
EXTENDS Console, SequenceTheorems, FiniteSetTheorems, WellFoundedInduction, TLAPS

----------------------------------------------------------------------------
(* Indices and sequences. *)

(* A set of natural numbers that is not empty has a least element. *)
LEMMA LeastElement ==
    ASSUME NEW T \in SUBSET Nat, T # {}
    PROVE  Min(T) \in T /\ \A y \in T : Min(T) <= y
<1> DEFINE R == OpToRel(<, Nat)
<1>1. PICK x \in T : \A y \in T : ~ (<<y, x>> \in R)
  <2>1. IsWellFoundedOn(R, Nat)
    BY NatLessThanWellFounded
  <2> HIDE DEF R
  <2> QED
    BY <2>1, WFMin
<1>2. R = {ss \in Nat \X Nat : ss[1] < ss[2]}
  BY DEF OpToRel
<1> HIDE DEF R
<1>3. ASSUME NEW y \in T PROVE x <= y
  <2>1. <<y, x>> \in R <=> y < x
    BY <1>2
  <2> QED
    BY <1>1, <2>1
<1> QED
  BY <1>3 DEF Min

(* What RemoveAt returns, element by element. *)
LEMMA RemoveAtElements ==
    ASSUME NEW S, NEW s \in Seq(S), NEW i \in 1..Len(s)
    PROVE  /\ RemoveAt(s, i) \in Seq(S)
           /\ Len(RemoveAt(s, i)) = Len(s) - 1
           /\ \A j \in 1..Len(s) - 1 :
                RemoveAt(s, i)[j] = IF j < i THEN s[j] ELSE s[j + 1]
<1> DEFINE front == SubSeq(s, 1, i - 1)
           back  == SubSeq(s, i + 1, Len(s))
           whole == front \o back
<1>1. /\ front \in Seq(S) /\ Len(front) = i - 1
      /\ \A j \in 1..i-1 : front[j] = s[j]
  BY SubSeqProperties
<1>2. /\ back \in Seq(S) /\ Len(back) = Len(s) - i
      /\ \A j \in 1..Len(s) - i : back[j] = s[j + i]
  BY SubSeqProperties
<1>3. RemoveAt(s, i) = whole
  BY DEF RemoveAt
<1> HIDE DEF front, back
<1>4. /\ front \o back \in Seq(S)
      /\ Len(front \o back) = Len(front) + Len(back)
      /\ \A j \in 1..Len(front) + Len(back) :
            (front \o back)[j] = IF j <= Len(front) THEN front[j] ELSE back[j - Len(front)]
  BY <1>1, <1>2, ConcatProperties
<1> HIDE DEF whole
<1>5. ASSUME NEW j \in 1..Len(s) - 1
      PROVE  whole[j] = IF j < i THEN s[j] ELSE s[j + 1]
  <2>1. CASE j < i
    BY <1>1, <1>2, <1>4, <2>1 DEF whole
  <2>2. CASE ~(j < i)
    <3>1. PICK k \in 1..Len(s) - i : k = j - (i - 1)
      BY <2>2
    <3>2. whole[j] = back[k]
      BY <1>1, <1>2, <1>4, <2>2, <3>1 DEF whole
    <3>3. back[k] = s[k + i] /\ k + i = j + 1
      BY <1>2, <3>1
    <3> QED
      BY <2>2, <3>2, <3>3
  <2> QED
    BY <2>1, <2>2
<1> QED
  BY <1>1, <1>2, <1>3, <1>4, <1>5 DEF whole

----------------------------------------------------------------------------
(* The table of conversions. *)

(* The first row of a flow that has rows. *)
LEMMA FirstRowIsFirst ==
    ASSUME rows \in Seq(Row), NEW f, RowsOf(f) # {}
    PROVE  /\ FirstRow(f) \in 1..Len(rows) /\ rows[FirstRow(f)].flow = f
           /\ \A j \in 1..Len(rows) : rows[j].flow = f => FirstRow(f) <= j
<1>1. RowsOf(f) \in SUBSET Nat
  BY DEF RowsOf
<1>2. FirstRow(f) \in RowsOf(f) /\ \A j \in RowsOf(f) : FirstRow(f) <= j
  BY <1>1, LeastElement DEF FirstRow
<1> QED
  BY <1>2 DEF RowsOf

(* The table after a conversion: one row more, and ROS on the first. *)
LEMMA RowsWithElements ==
    ASSUME rows \in Seq(Row), NEW f \in Flows, NEW target \in Target,
           NEW with_ros \in BOOLEAN
    PROVE  LET after == RowsWith(f, target, with_ros) IN
           /\ after \in Seq(Row) /\ Len(after) = Len(rows) + 1
           /\ \A i \in 1..Len(rows) :
                /\ after[i].flow = rows[i].flow
                /\ after[i].device_id = rows[i].device_id /\ after[i].qos = rows[i].qos
           /\ after[Len(rows) + 1].flow = f
           /\ after[Len(rows) + 1].device_id = target.device_id
           /\ after[Len(rows) + 1].qos = target.qos
           /\ \E first \in 1..Len(rows) + 1 :
                /\ after[first].flow = f
                /\ \A j \in 1..first - 1 : after[j].flow # f
                /\ \A i \in 1..Len(rows) + 1 :
                     after[i].ros = IF with_ros /\ i = first THEN "topic"
                                    ELSE IF i <= Len(rows) THEN rows[i].ros ELSE "none"
<1> DEFINE row   == [flow |-> f, device_id |-> target.device_id,
                     qos |-> target.qos, ros |-> "none"]
           added == Append(rows, row)
           first == IF RowsOf(f) = {} THEN Len(added) ELSE FirstRow(f)
           after == IF with_ros THEN [added EXCEPT ![first].ros = "topic"] ELSE added
<1>1. row \in Row
  BY DEF Row, Target
<1>2. /\ added \in Seq(Row) /\ Len(added) = Len(rows) + 1
      /\ added[Len(rows) + 1] = row
      /\ \A i \in 1..Len(rows) : added[i] = rows[i]
  BY <1>1
<1>3. /\ first \in 1..Len(rows) + 1
      /\ added[first].flow = f
      /\ \A j \in 1..first - 1 : added[j].flow # f
  <2>1. CASE RowsOf(f) = {}
    BY <1>2, <2>1 DEF RowsOf
  <2>2. CASE RowsOf(f) # {}
    BY <1>2, <2>2, FirstRowIsFirst
  <2> QED
    BY <2>1, <2>2
<1>4. RowsWith(f, target, with_ros) = after
  BY DEF RowsWith
<1> HIDE DEF row, added, first
<1>5. /\ after \in Seq(Row) /\ Len(after) = Len(rows) + 1
      /\ \A i \in 1..Len(rows) + 1 :
            /\ after[i].flow = added[i].flow
            /\ after[i].device_id = added[i].device_id /\ after[i].qos = added[i].qos
            /\ after[i].ros = IF with_ros /\ i = first THEN "topic" ELSE added[i].ros
  <2>1. CASE with_ros
    <3> DEFINE marked == [added[first] EXCEPT !.ros = "topic"]
    <3>1. added[first] \in Row
      BY <1>2, <1>3
    <3>2. /\ marked \in Row /\ marked.ros = "topic"
          /\ marked.flow = added[first].flow
          /\ marked.device_id = added[first].device_id /\ marked.qos = added[first].qos
      BY <3>1 DEF Row
    <3>3. after = [added EXCEPT ![first] = marked]
      BY <2>1
    <3> HIDE DEF marked, after
    <3>4. /\ [added EXCEPT ![first] = marked] \in Seq(Row)
          /\ Len([added EXCEPT ![first] = marked]) = Len(added)
          /\ \A i \in 1..Len(added) :
                [added EXCEPT ![first] = marked][i] = IF i = first THEN marked ELSE added[i]
      <4>1. first \in 1..Len(added)
        BY <1>2, <1>3
      <4> QED
        BY <1>2, <3>2, <4>1, ExceptSeq
    <3>5. \A i \in 1..Len(rows) + 1 : after[i] = IF i = first THEN marked ELSE added[i]
      BY <1>2, <3>3, <3>4
    <3> QED
      BY <1>2, <2>1, <3>2, <3>3, <3>4, <3>5
  <2>2. CASE ~with_ros
    BY <1>2, <2>2
  <2> QED
    BY <2>1, <2>2
<1> HIDE DEF after
<1>6. \A i \in 1..Len(rows) :
         /\ after[i].flow = rows[i].flow
         /\ after[i].device_id = rows[i].device_id /\ after[i].qos = rows[i].qos
  BY <1>2, <1>5
<1>7. LET i == Len(rows) + 1 IN
      i \in 1..Len(rows) + 1 /\ added[i].flow = f
      /\ added[i].device_id = target.device_id /\ added[i].qos = target.qos
      /\ added[i].ros = "none"
  BY <1>2 DEF row
<1>8. first \in 1..Len(rows) + 1 /\ after[first].flow = f
      /\ \A j \in 1..first - 1 : after[j].flow # f
  <2>1. \A j \in 1..first - 1 : j \in 1..Len(rows) + 1
    BY <1>3
  <2> QED
    BY <1>3, <1>5, <2>1
<1>9. \A i \in 1..Len(rows) + 1 :
         after[i].ros = IF with_ros /\ i = first THEN "topic"
                        ELSE IF i <= Len(rows) THEN rows[i].ros ELSE "none"
  BY <1>2, <1>5, <1>7
<1> QED
  BY <1>4, <1>5, <1>6, <1>7, <1>8, <1>9

(* The table after an edit: the first row of the flow has the new profile. *)
LEMMA EditedElements ==
    ASSUME rows \in Seq(Row), NEW f, RowsOf(f) # {}, NEW qos \in QosProfiles
    PROVE  LET after == [rows EXCEPT ![FirstRow(f)].qos = qos] IN
           /\ after \in Seq(Row) /\ Len(after) = Len(rows)
           /\ \A i \in 1..Len(rows) :
                /\ after[i].flow = rows[i].flow /\ after[i].ros = rows[i].ros
                /\ after[i].device_id = rows[i].device_id
                /\ after[i].qos = IF i = FirstRow(f) THEN qos ELSE rows[i].qos
<1> DEFINE first  == FirstRow(f)
           edited == [rows[first] EXCEPT !.qos = qos]
           after  == [rows EXCEPT ![first] = edited]
<1>1. first \in 1..Len(rows) /\ rows[first] \in Row
  BY FirstRowIsFirst
<1>2. /\ edited \in Row /\ edited.qos = qos
      /\ edited.flow = rows[first].flow /\ edited.ros = rows[first].ros
      /\ edited.device_id = rows[first].device_id
  BY <1>1 DEF Row
<1>3. after = [rows EXCEPT ![FirstRow(f)].qos = qos]
  OBVIOUS
<1> HIDE DEF edited, first
<1>4. /\ after \in Seq(Row) /\ Len(after) = Len(rows)
      /\ \A i \in 1..Len(rows) : after[i] = IF i = first THEN edited ELSE rows[i]
  BY <1>1, <1>2, ExceptSeq
<1> HIDE DEF after
<1> QED
  BY <1>2, <1>3, <1>4 DEF first

(* The table after a removal: the rows of other flows are all there. *)
LEMMA RemovedElements ==
    ASSUME rows \in Seq(Row), NEW f, RowsOf(f) # {}
    PROVE  LET after == RemoveAt(rows, FirstRow(f)) IN
           /\ after \in Seq(Row) /\ Len(after) = Len(rows) - 1
           /\ \A i \in 1..Len(rows) : rows[i].flow # f =>
                \E j \in 1..Len(rows) - 1 : after[j] = rows[i]
           /\ \A j \in 1..Len(rows) - 1 :
                after[j] = IF j < FirstRow(f) THEN rows[j] ELSE rows[j + 1]
<1> DEFINE first == FirstRow(f)
           after == RemoveAt(rows, first)
<1>1. first \in 1..Len(rows) /\ rows[first].flow = f
  BY FirstRowIsFirst
<1> HIDE DEF first
<1>2. /\ after \in Seq(Row) /\ Len(after) = Len(rows) - 1
      /\ \A j \in 1..Len(rows) - 1 : after[j] = IF j < first THEN rows[j] ELSE rows[j + 1]
  BY <1>1, RemoveAtElements
<1> HIDE DEF after
<1>3. ASSUME NEW i \in 1..Len(rows), rows[i].flow # f
      PROVE  \E j \in 1..Len(rows) - 1 : after[j] = rows[i]
  <2>1. CASE i < first
    <3>1. i \in 1..Len(rows) - 1 /\ after[i] = rows[i]
      BY <1>1, <1>2, <2>1
    <3> QED
      BY <3>1
  <2>2. CASE i > first
    <3>1. i - 1 \in 1..Len(rows) - 1 /\ ~(i - 1 < first) /\ (i - 1) + 1 = i
      BY <1>1, <2>2
    <3>2. after[i - 1] = rows[(i - 1) + 1]
      BY <1>2, <3>1
    <3> QED
      BY <3>1, <3>2
  <2> QED
    BY <1>1, <1>3, <2>1, <2>2
<1> QED
  BY <1>2, <1>3 DEF first, after

----------------------------------------------------------------------------
(* The theorems. *)

(* A row belongs to a flow, and that flow has a first row. *)
LEMMA FlowOfRow ==
    ASSUME rows \in Seq(Row), NEW i \in 1..Len(rows)
    PROVE  rows[i].flow \in Flows /\ RowsOf(rows[i].flow) # {}
<1>1. rows[i] \in Row
  OBVIOUS
<1>2. i \in RowsOf(rows[i].flow)
  BY DEF RowsOf
<1> QED
  BY <1>1, <1>2 DEF Row

(* A sentence event names a source and a flow. *)
LEMMA BringsTyped ==
    \A n \in Brings : Source(n) \in Sources /\ Flow(n) \in Flows
BY ConsoleAssumption DEF ConsoleAssumption, Source, Flow

(* Marking the nodes of a flow leaves nodes. *)
LEMMA MarkedTyped ==
    ASSUME TypeOK, NEW f, NEW mark \in {"available", "converted"}, Mark(f, mark)
    PROVE  nodes' \in [Brings -> {"absent", "available", "converted"}]
BY DEF TypeOK, Mark

(* Removing those of a source leaves nodes and a selection. *)
LEMMA RemovedTyped ==
    ASSUME TypeOK, NEW s, RemoveInterface(s)
    PROVE  /\ nodes' \in [Brings -> {"absent", "available", "converted"}]
           /\ selected' \in Flows \cup {NoFlow}
BY BringsTyped DEF TypeOK, RemoveInterface, Selectable

(***************************************************************************)
(* The type invariant, whatever the operator does and the workers post.    *)
(***************************************************************************)
THEOREM TypeCorrect == Spec => []TypeOK
<1>1. Init => TypeOK
  BY ConsoleAssumption DEF ConsoleAssumption, Init, TypeOK
<1>2. TypeOK /\ [Next]_vars => TypeOK'
  <2> SUFFICES ASSUME TypeOK, [Next]_vars PROVE TypeOK'
    OBVIOUS
  <2> USE DEF sourceVars, eventVars, flowVars, treeVars
  <2>0. rows \in Seq(Row) /\ Len(rows) <= MaxRows /\ Len(rows) \in Nat
    BY DEF TypeOK
  <2>1. ASSUME NEW n \in Brings, Sentence(n) PROVE TypeOK'
    BY <2>1, ConsoleAssumption DEF Sentence, TypeOK, ConsoleAssumption
  <2>2. ASSUME NEW s \in Sources, SourceLost(s) PROVE TypeOK'
    BY <2>2 DEF SourceLost, TypeOK
  <2>3. CASE Deliver
    <3>1. Head(queue) \in Brings /\ Tail(queue) \in Seq(Brings)
          /\ Len(Tail(queue)) = Len(queue) - 1
      BY <2>3 DEF Deliver, TypeOK
    <3>2. rates' = rates \cup {Source(Head(queue))} /\ Source(Head(queue)) \in Sources
      BY <2>3, <3>1, BringsTyped DEF Deliver
    <3>3. nodes' \in [Brings -> {"absent", "available", "converted"}]
      BY <2>3, <3>1 DEF Deliver, TypeOK
    <3> QED
      BY <2>3, <3>1, <3>2, <3>3, ConsoleAssumption DEF Deliver, TypeOK, ConsoleAssumption
  <2>4. ASSUME NEW s \in Sources, ConnectInterface(s) PROVE TypeOK'
    BY <2>4 DEF ConnectInterface, TypeOK
  <2>5. ASSUME NEW s \in Sources, DisconnectInterface(s) PROVE TypeOK'
    <3>1. /\ nodes' \in [Brings -> {"absent", "available", "converted"}]
          /\ selected' \in Flows \cup {NoFlow}
      BY <2>5, RemovedTyped DEF DisconnectInterface
    <3> QED
      BY <2>5, <3>1 DEF DisconnectInterface, TypeOK
  <2>6. ASSUME NEW item \in Brings \cup {TalkerNode}, Select(item) PROVE TypeOK'
    BY <2>6, BringsTyped DEF Select, TypeOK
  <2>7. ASSUME NEW target \in Target, NEW with_ros \in BOOLEAN, Convert(target, with_ros)
        PROVE  TypeOK'
    <3>1. selected \in Flows
      BY <2>7 DEF Convert, TypeOK
    <3>2. rows' \in Seq(Row) /\ Len(rows') = Len(rows) + 1
      BY <2>0, <2>7, <3>1, RowsWithElements DEF Convert
    <3>3. nodes' \in [Brings -> {"absent", "available", "converted"}]
      BY <2>7, MarkedTyped DEF Convert
    <3>4. /\ plan' \in [Flows -> Target \cup {NoTarget}] /\ ros' \in SUBSET RosFlows
          /\ twice' \in SUBSET Flows
      BY <2>7, <3>1 DEF Convert, TypeOK
    <3>5. Len(rows') <= MaxRows
      BY <2>0, <2>7, <3>2, ConsoleAssumption DEF Convert, ConsoleAssumption
    <3> QED
      BY <2>7, <3>2, <3>3, <3>4, <3>5 DEF Convert, TypeOK
  <2>8. ASSUME NEW i \in 1..Len(rows), Delete(i) PROVE TypeOK'
    <3> DEFINE f == rows[i].flow
    <3>1. f \in Flows /\ RowsOf(f) # {}
      BY <2>0, FlowOfRow
    <3> HIDE DEF f
    <3>2. RemoveAt(rows, FirstRow(f)) \in Seq(Row)
          /\ Len(RemoveAt(rows, FirstRow(f))) = Len(rows) - 1
      BY <2>0, <3>1, RemovedElements
    <3>3. /\ plan' = [plan EXCEPT ![f] = NoTarget] /\ ros' = ros \ {f}
          /\ rows' = RemoveAt(rows, FirstRow(f)) /\ Mark(f, "available")
          /\ twice' \in {twice, twice \ {f}}
          /\ UNCHANGED <<sourceVars, eventVars, selected>>
      BY <2>8 DEF Delete, RemoveRow, f
    <3>4. nodes' \in [Brings -> {"absent", "available", "converted"}]
      BY <3>3, MarkedTyped
    <3>5. Len(rows') <= MaxRows
      BY <2>0, <3>2, <3>3, ConsoleAssumption DEF ConsoleAssumption
    <3> QED
      BY <3>1, <3>2, <3>3, <3>4, <3>5 DEF TypeOK
  <2>9. ASSUME NEW i \in 1..Len(rows), NEW qos \in QosProfiles, EditQos(i, qos)
        PROVE  TypeOK'
    <3> DEFINE f == rows[i].flow
    <3>1. f \in Flows /\ RowsOf(f) # {}
      BY <2>0, FlowOfRow
    <3> HIDE DEF f
    <3>2. /\ Converted(f) /\ plan' = [plan EXCEPT ![f].qos = qos]
          /\ rows' = [rows EXCEPT ![FirstRow(f)].qos = qos]
          /\ UNCHANGED <<sourceVars, eventVars, ros, twice, treeVars>>
      BY <2>9 DEF EditQos, f
    <3>3. rows' \in Seq(Row) /\ Len(rows') = Len(rows)
      BY <2>0, <3>1, <3>2, EditedElements
    <3>4. [plan[f] EXCEPT !.qos = qos] \in Target
      BY <3>1, <3>2 DEF Converted, TypeOK, Target
    <3>5. plan' \in [Flows -> Target \cup {NoTarget}]
      BY <3>1, <3>2, <3>4 DEF TypeOK
    <3> QED
      BY <3>2, <3>3, <3>5 DEF TypeOK
  <2>10. CASE UNCHANGED vars
    BY <2>10 DEF vars, TypeOK
  <2> QED
    BY <2>1, <2>2, <2>3, <2>4, <2>5, <2>6, <2>7, <2>8, <2>9, <2>10
       DEF Next, Workers, Interfaces, Conversions
<1> QED
  BY <1>1, <1>2, PTL DEF Spec

(***************************************************************************)
(* A flow has one row exactly as long as it is published, unless it was    *)
(* converted again while it had one: a conversion adds one row and one     *)
(* entry of the allowlist, a removal takes one of each                     *)
(* (GatewayController.cpp:195-242, ConversionsPanel.cpp:112-162).          *)
(***************************************************************************)
THEOREM OneRow == Spec => []OneRowUnlessTwice
<1>1. Init => OneRowUnlessTwice
  BY DEF Init, OneRowUnlessTwice, Converted, RowsOf
<1>2. TypeOK /\ OneRowUnlessTwice /\ [Next]_vars => OneRowUnlessTwice'
  <2> SUFFICES ASSUME TypeOK, OneRowUnlessTwice, [Next]_vars PROVE OneRowUnlessTwice'
    OBVIOUS
  <2>0. rows \in Seq(Row) /\ Len(rows) \in Nat
    BY DEF TypeOK
  <2>1. CASE UNCHANGED flowVars
    BY <2>1 DEF flowVars, OneRowUnlessTwice, Converted, RowsOf
  <2>2. ASSUME NEW target \in Target, NEW with_ros \in BOOLEAN, Convert(target, with_ros)
        PROVE  OneRowUnlessTwice'
    <3>1. /\ selected \in Flows /\ selected' = selected
          /\ plan' = [plan EXCEPT ![selected] = target]
          /\ rows' = RowsWith(selected, target, with_ros)
          /\ twice' = IF RowsOf(selected) = {} THEN twice ELSE twice \cup {selected}
      BY <2>2 DEF Convert, TypeOK
    <3>2. /\ Len(rows') = Len(rows) + 1 /\ rows'[Len(rows) + 1].flow = selected
          /\ \A i \in 1..Len(rows) : rows'[i].flow = rows[i].flow
      BY <2>0, <3>1, RowsWithElements
    <3>3. RowsOf(selected)' = RowsOf(selected) \cup {Len(rows) + 1}
      <4>1. \A i : i \in 1..Len(rows) + 1 <=> i \in 1..Len(rows) \/ i = Len(rows) + 1
        BY <2>0
      <4> QED
        BY <3>1, <3>2, <4>1 DEF RowsOf
    <3>4. \A f : f # selected => RowsOf(f)' = RowsOf(f)
      BY <2>0, <3>2 DEF RowsOf
    <3>5. target # NoTarget
      BY ConsoleAssumption DEF ConsoleAssumption
    <3>6. Converted(selected)' /\ \A f \in Flows \ {selected} : Converted(f)' <=> Converted(f)
      BY <3>1, <3>5 DEF Converted, TypeOK
    <3> QED
      BY <3>1, <3>3, <3>4, <3>6 DEF OneRowUnlessTwice
  <2>3. ASSUME NEW i \in 1..Len(rows), Delete(i) PROVE OneRowUnlessTwice'
    <3>1. PICK f \in Flows : f = rows[i].flow /\ RowsOf(f) # {}
      BY <2>0, FlowOfRow
    <3>2. /\ plan' = [plan EXCEPT ![f] = NoTarget] /\ rows' = RemoveAt(rows, FirstRow(f))
          /\ twice' = IF RowsOf(f) = {FirstRow(f)} THEN twice \ {f} ELSE twice
      BY <2>3, <3>1 DEF Delete, RemoveRow
    <3> DEFINE first  == FirstRow(f)
               Old(j) == IF j < first THEN j ELSE j + 1
    <3>3. first \in 1..Len(rows) /\ rows[first].flow = f
      BY <2>0, <3>1, FirstRowIsFirst
    <3>4. /\ Len(rows') = Len(rows) - 1
          /\ \A j \in 1..Len(rows) : rows[j].flow # f =>
                \E k \in 1..Len(rows) - 1 : rows'[k] = rows[j]
          /\ \A j \in 1..Len(rows) - 1 :
                rows'[j] = IF j < first THEN rows[j] ELSE rows[j + 1]
      BY <2>0, <3>1, <3>2, RemovedElements
    <3> HIDE DEF first
    <3>5. \A j \in 1..Len(rows) - 1 : /\ Old(j) \in 1..Len(rows) /\ Old(j) # first
                                      /\ rows'[j] = rows[Old(j)]
      BY <2>0, <3>3, <3>4
    <3>6. \A j, k \in 1..Len(rows) - 1 : Old(k) = Old(j) => k = j
      BY <3>3
    <3> HIDE DEF Old
    <3>7. \A g : \A j \in RowsOf(g)' : j \in 1..Len(rows) - 1 /\ Old(j) \in RowsOf(g)
      BY <3>4, <3>5 DEF RowsOf
    <3>8. ASSUME f \notin twice'
          PROVE  ~Converted(f)' /\ RowsOf(f)' = {}
      <4>1. RowsOf(f) = {first}
        <5>1. CASE RowsOf(f) # {FirstRow(f)}
          <6>1. f \notin twice /\ first \in RowsOf(f)
            BY <3>2, <3>3, <3>8, <5>1 DEF RowsOf
          <6> QED
            BY <3>1, <6>1 DEF OneRowUnlessTwice
        <5> QED
          BY <5>1 DEF first
      <4>2. RowsOf(f)' = {}
        BY <3>5, <3>7, <4>1
      <4> QED
        BY <3>1, <3>2, <4>2 DEF Converted, TypeOK
    <3>9. ASSUME NEW g \in Flows \ twice', g # f
          PROVE  /\ Converted(g)' <=> RowsOf(g)' # {}
                 /\ \A j, k \in RowsOf(g)' : j = k
      <4>1. g \notin twice /\ (Converted(g)' <=> Converted(g))
        BY <3>1, <3>2, <3>9 DEF Converted, TypeOK
      <4>2. /\ Converted(g) <=> RowsOf(g) # {}
            /\ \A j, k \in RowsOf(g) : j = k
        BY <3>9, <4>1 DEF OneRowUnlessTwice
      <4>3. RowsOf(g) # {} => RowsOf(g)' # {}
        <5> SUFFICES ASSUME NEW j \in RowsOf(g) PROVE RowsOf(g)' # {}
          OBVIOUS
        <5>1. j \in 1..Len(rows) /\ rows[j].flow = g
          BY DEF RowsOf
        <5>2. PICK k \in 1..Len(rows) - 1 : rows'[k] = rows[j]
          BY <3>4, <3>9, <5>1
        <5>3. k \in RowsOf(g)'
          BY <3>4, <5>1, <5>2 DEF RowsOf
        <5> QED
          BY <5>3
      <4>4. RowsOf(g)' # {} => RowsOf(g) # {}
        BY <3>7
      <4>5. \A j, k \in RowsOf(g)' : j = k
        BY <3>6, <3>7, <4>2
      <4> QED
        BY <4>1, <4>2, <4>3, <4>4, <4>5
    <3> QED
      BY <3>8, <3>9 DEF OneRowUnlessTwice
  <2>4. ASSUME NEW i \in 1..Len(rows), NEW qos \in QosProfiles, EditQos(i, qos)
        PROVE  OneRowUnlessTwice'
    <3>1. PICK f \in Flows : f = rows[i].flow /\ RowsOf(f) # {}
      BY <2>0, FlowOfRow
    <3>2. /\ Converted(f) /\ plan' = [plan EXCEPT ![f].qos = qos]
          /\ rows' = [rows EXCEPT ![FirstRow(f)].qos = qos] /\ twice' = twice
      BY <2>4, <3>1 DEF EditQos
    <3>3. Len(rows') = Len(rows) /\ \A j \in 1..Len(rows) : rows'[j].flow = rows[j].flow
      BY <2>0, <3>1, <3>2, EditedElements
    <3>4. \A g : RowsOf(g)' = RowsOf(g)
      BY <3>3 DEF RowsOf
    <3>5. [plan[f] EXCEPT !.qos = qos] # NoTarget
      BY <3>1, <3>2, ConsoleAssumption DEF Converted, TypeOK, Target, ConsoleAssumption
    <3>6. \A g \in Flows : Converted(g)' <=> Converted(g)
      BY <3>1, <3>2, <3>5 DEF Converted, TypeOK
    <3> QED
      BY <3>2, <3>4, <3>6 DEF OneRowUnlessTwice
  <2> QED
    BY <2>1, <2>2, <2>3, <2>4
       DEF Next, Workers, Interfaces, Conversions, Sentence, SourceLost, Deliver,
           ConnectInterface, DisconnectInterface, Select, vars
<1> QED
  BY <1>1, <1>2, TypeCorrect, PTL DEF Spec

(***************************************************************************)
(* No node is marked as converted for a flow that is not, whatever comes   *)
(* and goes (DevicesPanel.cpp:161-203).                                    *)
(***************************************************************************)
THEOREM MarkedConverted == Spec => []MarkedAreConverted
<1>1. Init => MarkedAreConverted
  BY DEF Init, MarkedAreConverted
<1>2. TypeOK /\ MarkedAreConverted /\ [Next]_vars => MarkedAreConverted'
  <2> SUFFICES ASSUME TypeOK, MarkedAreConverted, [Next]_vars PROVE MarkedAreConverted'
    OBVIOUS
  <2> USE DEF MarkedAreConverted
  <2>0. rows \in Seq(Row)
    BY DEF TypeOK
  <2>1. CASE UNCHANGED <<nodes, plan>>
    BY <2>1 DEF Converted
  <2>2. CASE Deliver
    BY <2>2 DEF Deliver, TypeOK, Converted, flowVars
  <2>3. ASSUME NEW s \in Sources, DisconnectInterface(s) PROVE MarkedAreConverted'
    BY <2>3 DEF DisconnectInterface, RemoveInterface, Converted, flowVars
  <2>4. ASSUME NEW target \in Target, NEW with_ros \in BOOLEAN, Convert(target, with_ros)
        PROVE  MarkedAreConverted'
    <3>1. selected \in Flows /\ plan' = [plan EXCEPT ![selected] = target]
          /\ Mark(selected, "converted")
      BY <2>4 DEF Convert, TypeOK
    <3>2. target # NoTarget
      BY ConsoleAssumption DEF ConsoleAssumption
    <3> QED
      BY <3>1, <3>2, BringsTyped DEF Mark, Converted, TypeOK
  <2>5. ASSUME NEW i \in 1..Len(rows), Delete(i) PROVE MarkedAreConverted'
    <3> DEFINE f == rows[i].flow
    <3>1. f \in Flows
      BY <2>0, FlowOfRow
    <3>2. plan' = [plan EXCEPT ![f] = NoTarget] /\ Mark(f, "available")
      BY <2>5 DEF Delete
    <3> HIDE DEF f
    <3> QED
      BY <3>1, <3>2, BringsTyped DEF Mark, Converted, TypeOK
  <2>6. ASSUME NEW i \in 1..Len(rows), NEW qos \in QosProfiles, EditQos(i, qos)
        PROVE  MarkedAreConverted'
    <3> DEFINE f == rows[i].flow
    <3>1. f \in Flows
      BY <2>0, FlowOfRow
    <3>2. Converted(f) /\ plan' = [plan EXCEPT ![f].qos = qos] /\ UNCHANGED nodes
      BY <2>6 DEF EditQos, treeVars
    <3> HIDE DEF f
    <3>3. [plan[f] EXCEPT !.qos = qos] \in Target
      BY <3>1, <3>2 DEF Converted, TypeOK, Target
    <3>4. \A g \in Flows : Converted(g) => Converted(g)'
      BY <3>1, <3>2, <3>3, ConsoleAssumption DEF Converted, TypeOK, ConsoleAssumption
    <3> QED
      BY <3>2, <3>4, BringsTyped
  <2> QED
    BY <2>1, <2>2, <2>3, <2>4, <2>5, <2>6
       DEF Next, Workers, Interfaces, Conversions, Sentence, SourceLost, ConnectInterface,
           Select, vars, flowVars, treeVars
<1> QED
  BY <1>1, <1>2, TypeCorrect, PTL DEF Spec

(***************************************************************************)
(* The selection never outlives the nodes of its flow                      *)
(* (DevicesPanel.cpp:138-203).                                             *)
(***************************************************************************)
THEOREM SelectionShown == Spec => []SelectionIsInTree
<1>1. Init => SelectionIsInTree
  BY DEF Init, SelectionIsInTree
<1>2. TypeOK /\ SelectionIsInTree /\ [Next]_vars => SelectionIsInTree'
  <2> SUFFICES ASSUME TypeOK, SelectionIsInTree, [Next]_vars PROVE SelectionIsInTree'
    OBVIOUS
  <2> USE DEF SelectionIsInTree
  <2>1. CASE UNCHANGED treeVars
    BY <2>1 DEF treeVars
  <2>2. CASE Deliver
    <3>1. selected' = selected
          /\ \A n \in Brings : nodes[n] # "absent" => nodes'[n] # "absent"
      BY <2>2 DEF Deliver, TypeOK
    <3> QED
      BY <3>1
  <2>3. ASSUME NEW s \in Sources, DisconnectInterface(s) PROVE SelectionIsInTree'
    BY <2>3 DEF DisconnectInterface, RemoveInterface, Selectable, NodesOf
  <2>4. ASSUME NEW item \in Brings \cup {TalkerNode}, Select(item) PROVE SelectionIsInTree'
    BY <2>4 DEF Select
  <2>5. ASSUME NEW f, NEW mark \in {"available", "converted"}, Mark(f, mark),
               UNCHANGED selected
        PROVE  SelectionIsInTree'
    BY <2>5 DEF Mark
  <2>6. ASSUME NEW target \in Target, NEW with_ros \in BOOLEAN, Convert(target, with_ros)
        PROVE  SelectionIsInTree'
    BY <2>5, <2>6 DEF Convert
  <2>7. ASSUME NEW i \in 1..Len(rows), Delete(i) PROVE SelectionIsInTree'
    BY <2>5, <2>7 DEF Delete
  <2> QED
    BY <2>1, <2>2, <2>3, <2>4, <2>6, <2>7
       DEF Next, Workers, Interfaces, Conversions, Sentence, SourceLost, ConnectInterface,
           EditQos, vars
<1> QED
  BY <1>1, <1>2, TypeCorrect, PTL DEF Spec

(* The strengthening: only the first row of a flow may show a ROS topic. *)
RosOnFirstRow ==
    \A i \in 1..Len(rows) : rows[i].ros = "topic" =>
        \A j \in 1..i - 1 : rows[j].flow # rows[i].flow

RosInv == RosAsShown /\ RosOnFirstRow

(* A conversion, with ROS or without. *)
LEMMA ConvertKeepsRos ==
    ASSUME TypeOK, RosInv, NEW target \in Target, NEW with_ros \in BOOLEAN,
           Convert(target, with_ros)
    PROVE  RosInv'
<1>1. /\ selected \in Flows /\ plan' = [plan EXCEPT ![selected] = target]
      /\ rows' = RowsWith(selected, target, with_ros)
      /\ ros' = IF with_ros THEN ros \cup {selected} ELSE ros
      /\ rows \in Seq(Row) /\ Len(rows) \in Nat
  BY DEF Convert, TypeOK
<1> DEFINE last == Len(rows) + 1
<1>2. /\ Len(rows') = last
      /\ \A i \in 1..Len(rows) : rows'[i].flow = rows[i].flow
      /\ rows'[last].flow = selected
  BY <1>1, RowsWithElements
<1>3. PICK first \in 1..last :
         /\ rows'[first].flow = selected
         /\ \A j \in 1..first - 1 : rows'[j].flow # selected
         /\ \A i \in 1..last :
              rows'[i].ros = IF with_ros /\ i = first THEN "topic"
                             ELSE IF i <= Len(rows) THEN rows[i].ros ELSE "none"
  BY <1>1, RowsWithElements
<1>4. RosOnFirstRow'
  <2> SUFFICES ASSUME NEW i \in 1..last, rows'[i].ros = "topic", NEW j \in 1..i - 1
               PROVE  rows'[j].flow # rows'[i].flow
    BY <1>2 DEF RosOnFirstRow
  <2>1. CASE with_ros /\ i = first
    BY <1>3, <2>1
  <2>2. CASE ~(with_ros /\ i = first)
    <3>1. i \in 1..Len(rows) /\ rows[i].ros = "topic" /\ j \in 1..Len(rows)
      BY <1>1, <1>3, <2>2
    <3> QED
      BY <1>2, <3>1 DEF RosInv, RosOnFirstRow
  <2> QED
    BY <2>1, <2>2
<1>5. ASSUME NEW g \in Flows
      PROVE  (\E i \in 1..last : rows'[i].flow = g /\ rows'[i].ros = "topic")
                <=> \/ with_ros /\ g = selected
                    \/ \E i \in 1..Len(rows) : rows[i].flow = g /\ rows[i].ros = "topic"
  <2>1. ASSUME NEW i \in 1..last, rows'[i].flow = g, rows'[i].ros = "topic"
        PROVE  \/ with_ros /\ g = selected
               \/ \E k \in 1..Len(rows) : rows[k].flow = g /\ rows[k].ros = "topic"
    <3>1. CASE with_ros /\ i = first
      BY <1>3, <2>1, <3>1
    <3>2. CASE ~(with_ros /\ i = first)
      <4>1. i \in 1..Len(rows) /\ rows[i].ros = "topic"
        BY <1>1, <1>3, <2>1, <3>2
      <4> QED
        BY <1>2, <2>1, <4>1
    <3> QED
      BY <3>1, <3>2
  <2>2. ASSUME with_ros, g = selected
        PROVE  \E i \in 1..last : rows'[i].flow = g /\ rows'[i].ros = "topic"
    BY <1>3, <2>2
  <2>3. ASSUME NEW k \in 1..Len(rows), rows[k].flow = g, rows[k].ros = "topic"
        PROVE  \E i \in 1..last : rows'[i].flow = g /\ rows'[i].ros = "topic"
    <3>1. k \in 1..last /\ rows'[k].flow = g /\ rows'[k].ros = "topic"
      BY <1>1, <1>2, <1>3, <2>3
    <3> QED
      BY <3>1
  <2> QED
    BY <2>1, <2>2, <2>3
<1>6. ASSUME NEW g \in Flows
      PROVE  /\ g \in ros' => Converted(g)'
             /\ g \in ros' <=> \E i \in 1..last : rows'[i].flow = g /\ rows'[i].ros = "topic"
  <2>1. target # NoTarget
    BY ConsoleAssumption DEF ConsoleAssumption
  <2>2. /\ g \in ros => Converted(g)
        /\ g \in ros <=> \E i \in 1..Len(rows) : rows[i].flow = g /\ rows[i].ros = "topic"
    BY DEF RosInv, RosAsShown, RowsOf
  <2>3. g \in ros' <=> (g \in ros \/ (with_ros /\ g = selected))
    BY <1>1
  <2>4. g \in ros' => Converted(g)'
    BY <1>1, <2>1, <2>2, <2>3 DEF Converted, TypeOK
  <2> QED
    BY <1>5, <2>2, <2>3, <2>4
<1>7. RosAsShown'
  BY <1>2, <1>6 DEF RosAsShown, RowsOf
<1> QED
  BY <1>4, <1>7 DEF RosInv

(* A removal takes the row that shows the topic. *)
LEMMA DeleteKeepsRosInv ==
    ASSUME TypeOK, RosInv, NEW r \in 1..Len(rows), Delete(r)
    PROVE  RosInv'
<1> DEFINE f == rows[r].flow
           first == FirstRow(f)
<1>0. rows \in Seq(Row) /\ Len(rows) \in Nat
  BY DEF TypeOK
<1>1. f \in Flows /\ RowsOf(f) # {}
  BY <1>0, FlowOfRow
<1>2. /\ plan' = [plan EXCEPT ![f] = NoTarget] /\ ros' = ros \ {f}
      /\ rows' = RemoveAt(rows, first)
  BY DEF Delete, RemoveRow
<1> HIDE DEF f
<1>3. /\ first \in 1..Len(rows) /\ rows[first].flow = f
      /\ \A j \in 1..Len(rows) : rows[j].flow = f => first <= j
  BY <1>0, <1>1, FirstRowIsFirst
<1>4. /\ Len(rows') = Len(rows) - 1
      /\ \A j \in 1..Len(rows) - 1 : rows'[j] = IF j < first THEN rows[j] ELSE rows[j + 1]
      /\ \A i \in 1..Len(rows) : rows[i].flow # f =>
            \E j \in 1..Len(rows) - 1 : rows'[j] = rows[i]
  BY <1>0, <1>1, <1>2, RemovedElements
<1> HIDE DEF first
<1> DEFINE Old(j) == IF j < first THEN j ELSE j + 1
<1>5. \A j \in 1..Len(rows) - 1 : /\ Old(j) \in 1..Len(rows) /\ Old(j) # first
                                 /\ rows'[j] = rows[Old(j)]
  BY <1>0, <1>3, <1>4
<1>6. \A j, k \in 1..Len(rows) - 1 : k < j => Old(k) < Old(j)
  BY <1>3
<1> HIDE DEF Old
<1>7. RosOnFirstRow'
  <2> SUFFICES ASSUME NEW i \in 1..Len(rows) - 1, rows'[i].ros = "topic", NEW j \in 1..i - 1
               PROVE  rows'[j].flow # rows'[i].flow
    BY <1>4 DEF RosOnFirstRow
  <2>1. j \in 1..Len(rows) - 1 /\ j < i
    BY <1>0
  <2>2. Old(j) \in 1..Old(i) - 1
    BY <1>5, <1>6, <2>1
  <2> QED
    BY <1>5, <2>1, <2>2 DEF RosInv, RosOnFirstRow
<1>8. ASSUME NEW j \in 1..Len(rows) - 1, rows'[j].flow = f
      PROVE  rows'[j].ros # "topic"
  <2>1. Old(j) \in 1..Len(rows) /\ first \in 1..Old(j) - 1 /\ rows[Old(j)].flow = f
    BY <1>3, <1>5, <1>8
  <2> QED
    BY <1>3, <1>5, <2>1 DEF RosInv, RosOnFirstRow
<1>9. ASSUME NEW g \in Flows
      PROVE  /\ g \in ros' => Converted(g)'
             /\ g \in ros' <=> \E j \in 1..Len(rows) - 1 :
                                 rows'[j].flow = g /\ rows'[j].ros = "topic"
  <2>1. /\ g \in ros => Converted(g)
        /\ g \in ros <=> \E i \in 1..Len(rows) : rows[i].flow = g /\ rows[i].ros = "topic"
    BY DEF RosInv, RosAsShown, RowsOf
  <2>2. CASE g = f
    BY <1>2, <1>8, <2>2
  <2>3. CASE g # f
    <3>1. g \in ros' <=> g \in ros
      BY <1>2, <2>3
    <3>2. Converted(g) => Converted(g)'
      BY <1>1, <1>2, <2>3 DEF Converted, TypeOK
    <3>3. ASSUME NEW i \in 1..Len(rows), rows[i].flow = g, rows[i].ros = "topic"
          PROVE  \E j \in 1..Len(rows) - 1 : rows'[j].flow = g /\ rows'[j].ros = "topic"
      BY <1>4, <2>3, <3>3
    <3>4. ASSUME NEW j \in 1..Len(rows) - 1, rows'[j].flow = g, rows'[j].ros = "topic"
          PROVE  \E i \in 1..Len(rows) : rows[i].flow = g /\ rows[i].ros = "topic"
      BY <1>5, <3>4
    <3> QED
      BY <2>1, <3>1, <3>2, <3>3, <3>4
  <2> QED
    BY <2>2, <2>3
<1>10. RosAsShown'
  BY <1>4, <1>9 DEF RosAsShown, RowsOf
<1> QED
  BY <1>7, <1>10 DEF RosInv

(***************************************************************************)
(* ROS publishes what the table shows and nothing that was removed, for    *)
(* any number of conversions of one flow (GatewayController.cpp:228-242,   *)
(* MainWindow.cpp:145-155, ConversionModel.cpp:60-69).                     *)
(***************************************************************************)
THEOREM RosShown == Spec => []RosAsShown
<1>1. Init => RosInv
  BY DEF Init, RosInv, RosAsShown, RosOnFirstRow, RowsOf
<1>2. TypeOK /\ RosInv /\ [Next]_vars => RosInv'
  <2> SUFFICES ASSUME TypeOK, RosInv, [Next]_vars PROVE RosInv'
    OBVIOUS
  <2>0. rows \in Seq(Row)
    BY DEF TypeOK
  <2>1. CASE UNCHANGED flowVars
    BY <2>1 DEF flowVars, RosInv, RosAsShown, RosOnFirstRow, RowsOf, Converted
  <2>2. ASSUME NEW i \in 1..Len(rows), NEW qos \in QosProfiles, EditQos(i, qos)
        PROVE  RosInv'
    <3> DEFINE f == rows[i].flow
    <3>1. f \in Flows /\ RowsOf(f) # {}
      BY <2>0, FlowOfRow
    <3>2. /\ Converted(f) /\ plan' = [plan EXCEPT ![f].qos = qos]
          /\ rows' = [rows EXCEPT ![FirstRow(f)].qos = qos] /\ ros' = ros
      BY <2>2 DEF EditQos
    <3> HIDE DEF f
    <3>3. Len(rows') = Len(rows) /\ \A j \in 1..Len(rows) :
             rows'[j].flow = rows[j].flow /\ rows'[j].ros = rows[j].ros
      BY <2>0, <3>1, <3>2, EditedElements
    <3>4. [plan[f] EXCEPT !.qos = qos] \in Target
      BY <3>1, <3>2 DEF Converted, TypeOK, Target
    <3>5. \A g \in Flows : Converted(g) => Converted(g)'
      BY <3>1, <3>2, <3>4, ConsoleAssumption DEF Converted, TypeOK, ConsoleAssumption
    <3>6. RosAsShown'
      BY <3>2, <3>3, <3>5 DEF RosInv, RosAsShown, RowsOf
    <3>7. RosOnFirstRow'
      <4> SUFFICES ASSUME NEW k \in 1..Len(rows), rows'[k].ros = "topic", NEW j \in 1..k - 1
                   PROVE  rows'[j].flow # rows'[k].flow
        BY <3>3 DEF RosOnFirstRow
      <4>1. j \in 1..Len(rows)
        BY <2>0
      <4> QED
        BY <3>3, <4>1 DEF RosInv, RosOnFirstRow
    <3> QED
      BY <3>6, <3>7 DEF RosInv
  <2> QED
    BY <2>1, <2>2, ConvertKeepsRos, DeleteKeepsRosInv
       DEF Next, Workers, Interfaces, Conversions, Sentence, SourceLost, Deliver,
           ConnectInterface, DisconnectInterface, Select, vars
<1>3. RosInv => RosAsShown
  BY DEF RosInv
<1> QED
  BY <1>1, <1>2, <1>3, TypeCorrect, PTL DEF Spec

----------------------------------------------------------------------------
(* What the rows of a flow show. *)

(***************************************************************************)
(* What a flow is published with can be read off its rows: the row of the  *)
(* last conversion shows its device_id and its QoS, and an edit of the QoS *)
(* leaves the former and changes the first row                             *)
(* (ConversionsPanel.cpp:112-116, 137-159, GatewayController.cpp:195-242). *)
(***************************************************************************)
THEOREM TargetShown == Spec => []RowsShowTarget
<1>1. Init => RowsShowTarget
  BY DEF Init, RowsShowTarget, Converted
<1>2. TypeOK /\ RowsShowTarget /\ [Next]_vars => RowsShowTarget'
  <2> SUFFICES ASSUME TypeOK, RowsShowTarget, [Next]_vars PROVE RowsShowTarget'
    OBVIOUS
  <2>0. rows \in Seq(Row) /\ Len(rows) \in Nat
    BY DEF TypeOK
  <2>1. CASE UNCHANGED flowVars
    BY <2>1 DEF flowVars, RowsShowTarget, RowsOf, Converted
  <2>2. ASSUME NEW target \in Target, NEW with_ros \in BOOLEAN, Convert(target, with_ros)
        PROVE  RowsShowTarget'
    <3>0. PICK last \in Nat : last = Len(rows) + 1
      BY <2>0
    <3>1. /\ selected \in Flows /\ selected' = selected
          /\ plan' = [plan EXCEPT ![selected] = target]
          /\ rows' = RowsWith(selected, target, with_ros)
      BY <2>2 DEF Convert, TypeOK
    <3>2. /\ Len(rows') = last
          /\ \A i \in 1..Len(rows) :
               /\ rows'[i].flow = rows[i].flow
               /\ rows'[i].device_id = rows[i].device_id /\ rows'[i].qos = rows[i].qos
          /\ rows'[last].flow = selected
          /\ rows'[last].device_id = target.device_id /\ rows'[last].qos = target.qos
      BY <2>0, <3>0, <3>1, RowsWithElements
    <3>3. last \in RowsOf(selected)' /\ plan'[selected] = target
      BY <2>0, <3>0, <3>1, <3>2 DEF RowsOf, TypeOK
    <3>4. \A g : RowsOf(g) \subseteq RowsOf(g)'
      BY <2>0, <3>0, <3>2 DEF RowsOf
    <3>5. \A g \in Flows \ {selected} : plan'[g] = plan[g]
      BY <3>1 DEF TypeOK
    <3>6. \A g : \A i \in RowsOf(g) : rows'[i].device_id = rows[i].device_id
                                   /\ rows'[i].qos = rows[i].qos
      BY <3>2 DEF RowsOf
    <3> SUFFICES ASSUME NEW g \in Flows, Converted(g)'
                 PROVE  /\ \E i \in RowsOf(g)' : rows'[i].device_id = plan'[g].device_id
                        /\ \E i \in RowsOf(g)' : rows'[i].qos = plan'[g].qos
      BY DEF RowsShowTarget
    <3>7. CASE g = selected
      BY <3>1, <3>2, <3>3, <3>7
    <3>8. CASE g # selected
      <4>1. Converted(g) /\ plan'[g] = plan[g]
        BY <3>5, <3>8 DEF Converted
      <4>2. PICK i \in RowsOf(g), k \in RowsOf(g) :
                rows[i].device_id = plan[g].device_id /\ rows[k].qos = plan[g].qos
        BY <4>1 DEF RowsShowTarget
      <4>3. i \in RowsOf(g)' /\ k \in RowsOf(g)'
        BY <3>4
      <4> QED
        BY <3>6, <4>1, <4>2, <4>3
    <3> QED
      BY <3>7, <3>8
  <2>3. ASSUME NEW r \in 1..Len(rows), Delete(r) PROVE RowsShowTarget'
    <3> DEFINE f == rows[r].flow
    <3>1. f \in Flows /\ RowsOf(f) # {}
      BY <2>0, FlowOfRow
    <3>2. plan' = [plan EXCEPT ![f] = NoTarget] /\ rows' = RemoveAt(rows, FirstRow(f))
      BY <2>3 DEF Delete, RemoveRow
    <3> HIDE DEF f
    <3>3. /\ Len(rows') = Len(rows) - 1
          /\ \A i \in 1..Len(rows) : rows[i].flow # f =>
                \E j \in 1..Len(rows) - 1 : rows'[j] = rows[i]
      BY <2>0, <3>1, <3>2, RemovedElements
    <3>4. ASSUME NEW g, g # f, NEW i \in RowsOf(g)
          PROVE  \E j \in RowsOf(g)' : rows'[j] = rows[i]
      BY <3>3, <3>4 DEF RowsOf
    <3>5. ASSUME NEW g \in Flows, Converted(g)'
          PROVE  g # f /\ plan'[g] = plan[g] /\ Converted(g)
      BY <3>1, <3>2, <3>5 DEF Converted, TypeOK
    <3> QED
      BY <3>4, <3>5 DEF RowsShowTarget
  <2>4. ASSUME NEW r \in 1..Len(rows), NEW qos \in QosProfiles, EditQos(r, qos)
        PROVE  RowsShowTarget'
    <3> DEFINE f == rows[r].flow
    <3>1. f \in Flows /\ RowsOf(f) # {}
      BY <2>0, FlowOfRow
    <3>2. /\ Converted(f) /\ plan' = [plan EXCEPT ![f].qos = qos]
          /\ rows' = [rows EXCEPT ![FirstRow(f)].qos = qos]
      BY <2>4 DEF EditQos
    <3> HIDE DEF f
    <3>3. /\ Len(rows') = Len(rows)
          /\ \A i \in 1..Len(rows) :
               /\ rows'[i].flow = rows[i].flow
               /\ rows'[i].device_id = rows[i].device_id
               /\ rows'[i].qos = IF i = FirstRow(f) THEN qos ELSE rows[i].qos
      BY <2>0, <3>1, <3>2, EditedElements
    <3>4. \A g : RowsOf(g)' = RowsOf(g)
      BY <3>3 DEF RowsOf
    <3>5. FirstRow(f) \in RowsOf(f) /\ \A g : g # f => FirstRow(f) \notin RowsOf(g)
      BY <2>0, <3>1, FirstRowIsFirst DEF RowsOf
    <3>6. /\ plan'[f].device_id = plan[f].device_id /\ plan'[f].qos = qos
          /\ \A g \in Flows \ {f} : plan'[g] = plan[g]
      <4>1. plan[f] \in Target
        BY <3>1, <3>2 DEF Converted, TypeOK
      <4>2. plan'[f] = [plan[f] EXCEPT !.qos = qos]
        BY <3>1, <3>2 DEF TypeOK
      <4> QED
        BY <3>2, <4>1, <4>2 DEF Target, TypeOK
    <3>7. \A g : \A i \in RowsOf(g) :
             /\ rows'[i].device_id = rows[i].device_id
             /\ rows'[i].qos = IF i = FirstRow(f) THEN qos ELSE rows[i].qos
      BY <3>3 DEF RowsOf
    <3> SUFFICES ASSUME NEW g \in Flows, Converted(g)'
                 PROVE  /\ \E i \in RowsOf(g) : rows'[i].device_id = plan'[g].device_id
                        /\ \E i \in RowsOf(g) : rows'[i].qos = plan'[g].qos
      BY <3>4 DEF RowsShowTarget
    <3>8. CASE g = f
      BY <3>2, <3>5, <3>6, <3>7, <3>8 DEF RowsShowTarget
    <3>9. CASE g # f
      BY <3>5, <3>6, <3>7, <3>9 DEF RowsShowTarget, Converted
    <3> QED
      BY <3>8, <3>9
  <2> QED
    BY <2>1, <2>2, <2>3, <2>4
       DEF Next, Workers, Interfaces, Conversions, Sentence, SourceLost, Deliver,
           ConnectInterface, DisconnectInterface, Select, vars
<1> QED
  BY <1>1, <1>2, TypeCorrect, PTL DEF Spec

----------------------------------------------------------------------------
(* The queue of the UI thread.                                             *)

(* A worker runs, or has ended and is not joined, for connected sources.   *)
WorkersAreConnected == \A s \in Sources : worker[s] # "none" => s \in connected

(* The worker posts at one end of the queue, for its own source only.      *)
LEMMA PostedByAnother ==
    ASSUME TypeOK, NEW n \in Brings, Sentence(n), NEW s, Source(n) # s
    PROVE  Waiting(s)' = Waiting(s)
<1>1. /\ queue \in Seq(Brings) /\ Len(queue) \in Nat /\ queue' = Append(queue, n)
  BY DEF TypeOK, Sentence
<1>2. /\ Len(queue') = Len(queue) + 1 /\ queue'[Len(queue) + 1] = n
      /\ \A i \in 1..Len(queue) : queue'[i] = queue[i]
  BY <1>1
<1>3. \A i : i \in 1..Len(queue') /\ Source(queue'[i]) = s
               <=> i \in 1..Len(queue) /\ Source(queue[i]) = s
  <2> SUFFICES ASSUME NEW i \in 1..(Len(queue) + 1)
               PROVE  Source(queue'[i]) = s <=> i \in 1..Len(queue) /\ Source(queue[i]) = s
    BY <1>1, <1>2
  <2>1. i \in 1..Len(queue) \/ i = Len(queue) + 1
    BY <1>1
  <2> QED
    BY <1>1, <1>2, <2>1
<1>4. {i \in 1..Len(queue') : Source(queue'[i]) = s}
        = {i \in 1..Len(queue) : Source(queue[i]) = s}
  BY <1>3
<1> QED
  BY <1>4 DEF Waiting

(* Every event still waiting was waiting, one place further back.          *)
LEMMA DeliverTakesOne ==
    ASSUME TypeOK, Deliver, NEW s
    PROVE  Waiting(s)' <= Waiting(s)
<1> DEFINE I == {i \in 1..Len(queue) : Source(queue[i]) = s}
           J == {i \in 1..Len(queue') : Source(queue'[i]) = s}
           f == [i \in J |-> i + 1]
<1>1. /\ queue \in Seq(Brings) /\ Len(queue) \in Nat /\ queue # << >> /\ queue' = Tail(queue)
  BY DEF TypeOK, Deliver
<1>2. /\ Len(queue') = Len(queue) - 1
      /\ \A i \in 1..Len(queue') : queue'[i] = queue[i + 1]
  BY <1>1
<1>3. IsFiniteSet(I) /\ IsFiniteSet(J)
  <2>1. IsFiniteSet(1..Len(queue)) /\ IsFiniteSet(1..Len(queue'))
    BY <1>1, <1>2, FS_Interval
  <2> QED
    BY <2>1, FS_Subset
<1>4. f \in Injection(J, I)
  <2>1. \A i \in J : i + 1 \in I
    BY <1>1, <1>2
  <2>2. \A i, j \in J : i + 1 = j + 1 => i = j
    OBVIOUS
  <2> HIDE DEF I, J
  <2> QED
    BY <2>1, <2>2 DEF Injection, IsInjective
<1>5. Cardinality(J) <= Cardinality(I)
  <2> HIDE DEF I, J, f
  <2> QED
    BY <1>3, <1>4, FS_Injection
<1> QED
  BY <1>5 DEF Waiting

(* The pipeline goes together with its thread.                             *)
LEMMA WorkersAreConnectedAlways == Spec => []WorkersAreConnected
<1>1. Init => WorkersAreConnected
  BY DEF Init, WorkersAreConnected
<1>2. TypeOK /\ WorkersAreConnected /\ [Next]_vars => WorkersAreConnected'
  <2> SUFFICES ASSUME TypeOK, WorkersAreConnected, [Next]_vars PROVE WorkersAreConnected'
    OBVIOUS
  <2>1. ASSUME UNCHANGED sourceVars PROVE WorkersAreConnected'
    BY <2>1 DEF sourceVars, WorkersAreConnected
  <2>2. ASSUME NEW s \in Sources, SourceLost(s) PROVE WorkersAreConnected'
    BY <2>2 DEF SourceLost, WorkersAreConnected, TypeOK
  <2>3. ASSUME NEW s \in Sources, ConnectInterface(s) PROVE WorkersAreConnected'
    BY <2>3 DEF ConnectInterface, WorkersAreConnected, TypeOK
  <2>4. ASSUME NEW s \in Sources, DisconnectInterface(s) PROVE WorkersAreConnected'
    BY <2>4 DEF DisconnectInterface, WorkersAreConnected, TypeOK
  <2> QED
    BY <2>1, <2>2, <2>3, <2>4
       DEF Next, Workers, Interfaces, Conversions, Sentence, Deliver, Select, Convert, Delete,
           EditQos, vars
<1> QED
  BY <1>1, <1>2, TypeCorrect, PTL DEF Spec

(***************************************************************************)
(* For a source that is disconnected and stays so, the queue of the UI     *)
(* thread only gets shorter: disconnectInterface() joins the worker before *)
(* it forgets the pipeline, so that nobody is left to post                 *)
(* (GatewayController.cpp:167-174).                                        *)
(***************************************************************************)
THEOREM StoppedIsSilent == Spec => StoppedSourceIsSilent
<1>1. TypeOK /\ WorkersAreConnected /\ [Next]_vars =>
        [\A s \in Sources \ connected : s \notin connected' => Waiting(s)' <= Waiting(s)]_vars
  <2> SUFFICES ASSUME TypeOK, WorkersAreConnected, Next, NEW s \in Sources \ connected
               PROVE  Waiting(s)' <= Waiting(s)
    OBVIOUS
  <2>0. Waiting(s) \in Nat
    <3>1. IsFiniteSet(1..Len(queue))
      BY FS_Interval DEF TypeOK
    <3>2. IsFiniteSet({i \in 1..Len(queue) : Source(queue[i]) = s})
      BY <3>1, FS_Subset
    <3> QED
      BY <3>2, FS_CardinalityType DEF Waiting
  <2>1. ASSUME UNCHANGED queue PROVE Waiting(s)' <= Waiting(s)
    BY <2>0, <2>1 DEF Waiting
  <2>2. ASSUME NEW n \in Brings, Sentence(n) PROVE Waiting(s)' <= Waiting(s)
    <3>1. Source(n) \in connected
      BY <2>2, BringsTyped DEF Sentence, WorkersAreConnected
    <3> QED
      BY <2>0, <2>2, <3>1, PostedByAnother
  <2>3. CASE Deliver
    BY <2>3, DeliverTakesOne
  <2> QED
    BY <2>1, <2>2, <2>3
       DEF Next, Workers, Interfaces, Conversions, SourceLost, ConnectInterface,
           DisconnectInterface, Select, Convert, Delete, EditQos, eventVars
<1> QED
  BY <1>1, TypeCorrect, WorkersAreConnectedAlways, PTL DEF Spec, StoppedSourceIsSilent
=============================================================================
