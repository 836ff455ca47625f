----------------------------- MODULE DdsMonitor -----------------------------
(***************************************************************************)
(* The DDS monitor: GatewayController's scan of a domain and its live      *)
(* sample stream, with the monitor panel and its table                     *)
(* (ui/GatewayController.cpp, ui/panels/DdsMonitorPanel.cpp,               *)
(* ui/models/DdsTopicModel.cpp).                                           *)
(*                                                                         *)
(* Fast DDS reports the endpoints it discovers from its own threads; each  *)
(* report is an event in the queue of the UI thread, where everything else *)
(* runs.  The dialog of the sample stream is modal: while it is open only  *)
(* events and its own timer and button are served.                         *)
(*                                                                         *)
(* Left out: the text of a sample, the order of the rows, the messages.    *)
(***************************************************************************)
EXTENDS Integers, Sequences, FiniteSets

CONSTANTS
    Domains,
    Topics,
    Types,
    ReadableTypes,      \* the types the registry can rebuild
    Endpoints,          \* writers and readers of other participants
    DomainOf, KindOf, TopicOf, TypeOf,
    NoParticipant,      \* monitor_participant_ is null
    NoTopic,            \* not in topic_agg_, not in the table, no stream
    MaxEvents           \* bound: events waiting for the UI thread

Kinds == {"writer", "reader"}

TopicAgg == [type : Types, count : [Kinds -> Nat]]

ASSUME MonitorAssumption ==
    /\ ReadableTypes \subseteq Types
    /\ DomainOf \in [Endpoints -> Domains]
    /\ KindOf \in [Endpoints -> Kinds]
    /\ TopicOf \in [Endpoints -> Topics]
    /\ TypeOf \in [Endpoints -> Types]
    /\ NoParticipant \notin Domains
    /\ NoTopic \notin Topics
    /\ "subscriber" \notin Topics /\ "reader" \notin Topics
    /\ NoTopic \notin TopicAgg
    /\ MaxEvents \in Nat

VARIABLES
    participant,    \* the domain monitor_participant_ is in
    known,          \* endpoints it has discovered
    events,         \* reports waiting for the UI thread
    ghosts,         \* history: how many of them are of earlier scans
    misplaced,      \* history: reports of earlier scans taken since this one
    topic_agg,
    table,          \* DdsTopicModel::rows_
    stream,         \* the topic of sample_stream_; its dialog is open
    entities        \* what participant contains: topics, "subscriber", "reader"

scanVars  == <<participant, known>>
eventVars == <<events, ghosts, misplaced>>
shownVars == <<topic_agg, table>>
readVars  == <<stream, entities>>
vars == <<scanVars, eventVars, shownVars, readVars>>

Report == [endpoint : Endpoints, added : BOOLEAN]

TypeOK ==
    /\ participant \in Domains \cup {NoParticipant}
    /\ known \in SUBSET Endpoints
    /\ events \in Seq(Report) /\ Len(events) <= MaxEvents
    /\ ghosts \in 0..Len(events) /\ misplaced \in Nat
    /\ topic_agg \in [Topics -> TopicAgg \cup {NoTopic}]
    /\ table \in [Topics -> TopicAgg \cup {NoTopic}]
    /\ stream \in Topics \cup {NoTopic}
    /\ entities \in SUBSET (Topics \cup {"subscriber", "reader"})

Empty == [t \in Topics |-> NoTopic]

Init ==
    /\ participant = NoParticipant /\ known = {}
    /\ events = <<>> /\ ghosts = 0 /\ misplaced = 0
    /\ topic_agg = Empty /\ table = Empty
    /\ stream = NoTopic /\ entities = {}

----------------------------------------------------------------------------
(* The threads of Fast DDS. *)

Posted(e, added) == events' = Append(events, [endpoint |-> e, added |-> added])

(* on_data_writer_discovery, on_data_reader_discovery: DISCOVERED ... *)
Discovered(e) ==
    /\ participant = DomainOf[e]
    /\ e \notin known
    /\ Len(events) < MaxEvents
    /\ known' = known \cup {e}
    /\ Posted(e, TRUE)
    /\ UNCHANGED <<participant, ghosts, misplaced, shownVars, readVars>>

(* ... and REMOVED. *)
Removed(e) ==
    /\ e \in known
    /\ Len(events) < MaxEvents
    /\ known' = known \ {e}
    /\ Posted(e, FALSE)
    /\ UNCHANGED <<participant, ghosts, misplaced, shownVars, readVars>>

----------------------------------------------------------------------------
(* The UI thread: the scan. *)

Max0(n) == IF n > 0 THEN n ELSE 0

Counts(agg) == IF agg = NoTopic THEN [k \in Kinds |-> 0] ELSE agg.count

Delta(added) == IF added THEN 1 ELSE -1

(* The entry of a topic after one more report about it. *)
Aggregated(agg, e, added) ==
    [type  |-> TypeOf[e],
     count |-> [Counts(agg) EXCEPT ![KindOf[e]] = Max0(@ + Delta(added))]]

(* The event of a report: topic_agg_, and the row of the topic. *)
Deliver ==
    /\ events # <<>>
    /\ LET e   == Head(events).endpoint
           t   == TopicOf[e]
           agg == Aggregated(topic_agg[t], e, Head(events).added)
       IN  /\ topic_agg' = [topic_agg EXCEPT ![t] = agg]
           /\ table' = [table EXCEPT ![t] = agg]
    /\ events' = Tail(events)
    /\ ghosts' = Max0(ghosts - 1)
    /\ misplaced' = IF ghosts > 0 THEN misplaced + 1 ELSE misplaced
    /\ UNCHANGED <<scanVars, readVars>>

DialogOpen == stream # NoTopic

(* Variant: the rows of the last scan stay. *)
ScanOverTable(d) ==
    /\ ~DialogOpen
    /\ participant' \in {d, NoParticipant}
    /\ known' = {}
    /\ topic_agg' = Empty
    /\ ghosts' = Len(events) /\ misplaced' = 0
    /\ entities' = {}
    /\ UNCHANGED <<events, table, stream>>

(* Variant: topic_agg_ keeps the counts of the last scan. *)
ScanKeepingCounts(d) ==
    /\ ~DialogOpen
    /\ participant' \in {d, NoParticipant}
    /\ known' = {}
    /\ table' = Empty
    /\ ghosts' = Len(events) /\ misplaced' = 0
    /\ entities' = {}
    /\ UNCHANGED <<events, topic_agg, stream>>

(***************************************************************************)
(* "Buscar": the table is cleared; scanDomain deletes the participant and  *)
(* its listener, clears topic_agg_, and creates a participant in d or      *)
(* fails.  The reports already posted stay in the queue.                   *)
(***************************************************************************)
Scan(d) ==
    /\ ~DialogOpen
    /\ participant' \in {d, NoParticipant}
    /\ known' = {}
    /\ topic_agg' = Empty /\ table' = Empty
    /\ ghosts' = Len(events) /\ misplaced' = 0
    /\ entities' = {}
    /\ UNCHANGED <<events, stream>>

(* The button that clears the table, and only the table. *)
ClearTable ==
    /\ ~DialogOpen
    /\ table' = Empty
    /\ UNCHANGED <<scanVars, eventVars, topic_agg, readVars>>

----------------------------------------------------------------------------
(* The UI thread: the sample stream. *)

(* A row is selected, a scan is active and the type can be rebuilt. *)
CanRead(t) ==
    /\ ~DialogOpen
    /\ table[t] # NoTopic
    /\ participant # NoParticipant
    /\ table[t].type \in ReadableTypes

(* How far the creation of the reader comes: each step may fail. *)
Made(t) == {{}, {t}, {t, "subscriber"}, {t, "subscriber", "reader"}}

(* Variant: the error path forgets the topic. *)
UndoneButTopic(t, made) == IF "reader" \in made THEN {} ELSE {"subscriber"}

(* What the error path deletes again. *)
Undone(t, made) == IF "reader" \in made THEN {} ELSE {"subscriber", t}

(***************************************************************************)
(* "Leer sample": topic, whose name must be free in the participant,       *)
(* subscriber and reader, or an error and nothing of them.  The stream of  *)
(* an earlier dialog is closed already.                                    *)
(***************************************************************************)
StartSampleStream(t) ==
    /\ CanRead(t)
    /\ \E made \in Made(t) :
        /\ t \in entities => made = {}
        /\ entities' = entities \cup (made \ Undone(t, made))
        /\ stream' = IF "reader" \in made THEN t ELSE stream
    /\ UNCHANGED <<scanVars, eventVars, shownVars>>

(* The dialog is closed: stopSampleStream on the current participant. *)
StopSampleStream ==
    /\ DialogOpen
    /\ entities' = entities \ {stream, "subscriber", "reader"}
    /\ stream' = NoTopic
    /\ UNCHANGED <<scanVars, eventVars, shownVars>>

----------------------------------------------------------------------------
Dds == \E e \in Endpoints : Discovered(e) \/ Removed(e)

Operator ==
    \/ \E d \in Domains : Scan(d)
    \/ ClearTable
    \/ \E t \in Topics : StartSampleStream(t)
    \/ StopSampleStream

Next == Dds \/ Deliver \/ Operator

Spec == Init /\ [][Next]_vars

----------------------------------------------------------------------------
Waiting(t, kind, added) ==
    Cardinality({i \in ghosts + 1 .. Len(events) :
        LET r == events[i] IN
        /\ TopicOf[r.endpoint] = t /\ KindOf[r.endpoint] = kind /\ r.added = added})

(* Endpoints of the domain that the reports taken so far speak of. *)
Reported(t, kind) ==
    Cardinality({e \in known : TopicOf[e] = t /\ KindOf[e] = kind})
        - Waiting(t, kind, TRUE) + Waiting(t, kind, FALSE)

Shown(t, kind) == Counts(topic_agg[t])[kind]

(***************************************************************************)
(* The counts of a topic are those of the scanned domain, up to one for    *)
(* each report of an earlier scan that arrived after this one began: with  *)
(* none, the lower bound of the counter never hides an error, and an error *)
(* does not grow with reports of this scan (GatewayController.cpp:265-274). *)
(***************************************************************************)
ErrorWithinMisplaced ==
    \A t \in Topics, kind \in Kinds :
        /\ Shown(t, kind) - Reported(t, kind) <= misplaced
        /\ Reported(t, kind) - Shown(t, kind) <= misplaced

(***************************************************************************)
(* A row of the table is the entry of its topic, although scan, clear and  *)
(* reports change the two tables at different times                        *)
(* (DdsMonitorPanel.cpp:65-71, 121-124, GatewayController.cpp:258-275).    *)
(***************************************************************************)
RowsAreAggregates ==
    \A t \in Topics : table[t] # NoTopic => table[t] = topic_agg[t]

(***************************************************************************)
(* The participant holds what the open stream uses and nothing else: a     *)
(* topic left behind would refuse its name for ever, and anything left     *)
(* would make delete_participant fail in the next scan; a stream is open   *)
(* only on a participant that exists                                       *)
(* (GatewayController.cpp:321-406).                                        *)
(***************************************************************************)
OnlyTheStreamLives ==
    /\ entities = IF DialogOpen THEN {stream, "subscriber", "reader"} ELSE {}
    /\ DialogOpen => participant # NoParticipant
=============================================================================
