------------------------------ MODULE Pipeline ------------------------------
(***************************************************************************)
(* One NMEA-to-DDS conversion pipeline (pipeline/Pipeline.hpp, .cpp): the  *)
(* thread that owns it (the UI thread: start, stop, edits of the           *)
(* allowlist) and the worker thread that reads the source, parses,         *)
(* resolves each sentence against the allowlist and writes it to DDS.      *)
(*                                                                         *)
(* The bytes and the parser are abstracted to "the chunk just read         *)
(* completes `left' more sentences"; which sentence each one is, is chosen *)
(* when it is consumed.  DDS calls may fail at any time.  The steps of the *)
(* worker between two accesses to shared state are one action.  Left out:  *)
(* the counters ok_ and err_ and the probe, which nothing here reads, and  *)
(* the text of error_msg_.                                                 *)
(***************************************************************************)
EXTENDS WriterQos

CONSTANTS
    Targets,        \* the targets the operator gives to flows
    GlobalTarget,   \* cfg_.device_id and cfg_.qos, used without an allowlist
    Campaign,       \* formatters the generated types exist for
    Configs,        \* the Pipeline::Config values and builds considered
    NoWriter,       \* no entry, no DataWriter
    NoFlow,
    NoSample,
    MaxChunk        \* bound: sentences completed by one read()

(***************************************************************************)
(* Of Config: publish_to_dds, plan # nullptr, typing = Static; and whether *)
(* the binary was built with GATEWAY_STATIC_ARM.                           *)
(***************************************************************************)
Config == [publish : BOOLEAN, selective : BOOLEAN,
           static : BOOLEAN, static_arm : BOOLEAN]

ASSUME PipelineAssumption ==
    /\ Targets \subseteq Target
    /\ GlobalTarget \in Target
    /\ Campaign \subseteq Formatters \ {Raw}
    /\ Configs \subseteq Config
    /\ NoWriter \notin Qos \cup WriterQosOf
    /\ NoFlow \notin Flows
    /\ NoSample \notin [flow : Flows, device_id : DeviceIds, qos : WriterQosOf]
    /\ NoSample \notin [flow : Flows, target : Target]
    /\ MaxChunk \in Nat

VARIABLES
    \* the owner
    cfg,          \* the configuration, fixed at construction
    plan,         \* the allowlist, shared with the worker
    opc,          \* "idle", "joining" inside stop(), "terminated"
    joinable,     \* thread_.joinable()
    \* shared atomics
    stop,         \* stop_
    state,        \* state_
    readback,     \* transports_, discovery_, domain_id_ have been written
    \* the worker and its DdsCtx
    wpc,          \* where worker_loop stands
    left,         \* sentences of the chunk still to consume
    cur, tgt,     \* the sentence being published and its resolved target
    participant, publisher,   \* the pointers of DdsCtx are set
    writers,      \* DdsCtx::writers: profile each entry was created with
    last_active,  \* the elements of last_active
    reordered,    \* the allowlist was restructured since last_active was read
    \* DDS
    topics,       \* topics alive in the participant, by formatter
    datawriters,  \* QoS of the DataWriter alive for each formatter
    leaked,       \* kinds of entity alive that no DdsCtx points to any more
    wire,         \* the last sample DDS accepted
    stale         \* history: outdated samples of each flow since its last edit

ownerVars  == <<cfg, plan, opc, joinable>>
sharedVars == <<stop, state, readback>>
localVars  == <<left, cur, tgt>>
ctxVars    == <<participant, publisher, writers, topics, datawriters, leaked>>
allowVars  == <<last_active, reordered>>
wireVars   == <<wire, stale>>

vars == <<ownerVars, sharedVars, wpc, localVars, ctxVars, allowVars, wireVars>>

WorkerPlaces == {"none", "participant", "publisher", "backend", "loop", "read",
                 "chunk", "writer", "write", "cleanup", "exited"}

(* The kinds of DDS entity a pipeline creates. *)
Kinds == {"participant", "publisher", "topic", "writer"}

TypeOK ==
    /\ cfg \in Configs
    /\ plan \in [Flows -> Targets \cup {NoTarget}]
    /\ opc \in {"idle", "joining", "terminated"}
    /\ joinable \in BOOLEAN
    /\ stop \in BOOLEAN
    /\ state \in {"Stopped", "Running", "Error"}
    /\ readback \in BOOLEAN
    /\ wpc \in WorkerPlaces
    /\ left \in 0..MaxChunk
    /\ cur \in Flows \cup {NoFlow}
    /\ tgt \in Target \cup {NoTarget}
    /\ participant \in BOOLEAN /\ publisher \in BOOLEAN /\ leaked \in SUBSET Kinds
    /\ writers \in [Formatters -> Qos \cup {NoWriter}]
    /\ last_active \in SUBSET Formatters
    /\ reordered \in BOOLEAN
    /\ topics \in SUBSET Formatters
    /\ datawriters \in [Formatters -> WriterQosOf \cup {NoWriter}]
    /\ wire \in [flow : Flows, device_id : DeviceIds, qos : WriterQosOf] \cup {NoSample}
    /\ stale \in [Flows -> 0..2]

NoEntries == [f \in Formatters |-> NoWriter]

Init ==
    /\ cfg \in Configs
    /\ plan = EmptyPlan
    /\ opc = "idle" /\ joinable = FALSE
    /\ stop = FALSE /\ state = "Stopped" /\ readback = FALSE
    /\ wpc = "none" /\ left = 0 /\ cur = NoFlow /\ tgt = NoTarget
    /\ participant = FALSE /\ publisher = FALSE /\ leaked = {}
    /\ writers = NoEntries /\ datawriters = NoEntries /\ topics = {}
    /\ last_active = {} /\ reordered = FALSE
    /\ wire = NoSample
    /\ stale = [flow \in Flows |-> 0]

----------------------------------------------------------------------------
(* The owner: start(), stop(), and the allowlist it shares with the worker. *)

(* Where worker_loop begins: DDS is set up only when it will be used. *)
FirstPlace == IF cfg.publish THEN "participant" ELSE "backend"

(* start(): the early return on Running is a step that changes nothing. *)
Start ==
    /\ opc = "idle"
    /\ state # "Running"
    /\ ~joinable
    /\ stop' = FALSE
    /\ joinable' = TRUE
    /\ wpc' = FirstPlace
    /\ UNCHANGED <<cfg, plan, opc, state, readback, localVars, ctxVars,
                   allowVars, wireVars>>

(***************************************************************************)
(* start() when the state is not Running but thread_ still holds a thread  *)
(* (it has not reached Running yet, or it ended by itself in Error or is   *)
(* cleaning up): assigning to a joinable std::thread is std::terminate,    *)
(* which takes the worker with it.                                         *)
(***************************************************************************)
StartTerminates ==
    /\ opc = "idle"
    /\ state # "Running"
    /\ joinable
    /\ stop' = FALSE
    /\ opc' = "terminated"
    /\ wpc' = "none"
    /\ UNCHANGED <<cfg, plan, joinable, state, readback, localVars, ctxVars,
                   allowVars, wireVars>>

(* stop(): raise the flag, then join if there is a thread ... *)
Stop ==
    /\ opc = "idle"
    /\ stop' = TRUE
    /\ opc' = IF joinable THEN "joining" ELSE "idle"
    /\ UNCHANGED <<cfg, plan, joinable, state, readback, wpc,
                   localVars, ctxVars, allowVars, wireVars>>

(* Variant: the thread is detached instead of joined. *)
JoinDetached ==
    /\ opc = "joining"
    /\ opc' = "idle"
    /\ joinable' = FALSE
    /\ UNCHANGED <<cfg, plan, sharedVars, wpc, localVars, ctxVars, allowVars, wireVars>>

(* ... which returns once worker_loop has returned. *)
Join ==
    /\ opc = "joining"
    /\ wpc = "exited"
    /\ opc' = "idle"
    /\ joinable' = FALSE
    /\ wpc' = "none"
    /\ UNCHANGED <<cfg, plan, sharedVars, localVars, ctxVars,
                   allowVars, wireVars>>

(* addConversion and updateConversionQoS; a raw sentence is never offered. *)
Enable(flow, target) ==
    /\ opc = "idle"
    /\ cfg.selective
    /\ Formatter(flow) # Raw
    /\ target # Resolve(plan, flow)
    /\ plan' = Add(plan, flow, target)
    /\ reordered' = (reordered \/ ~Contains(plan, flow))
    /\ stale' = [stale EXCEPT ![flow] = 0]
    /\ UNCHANGED <<cfg, opc, joinable, sharedVars, wpc, localVars,
                   ctxVars, last_active, wire>>

(* removeConversion. *)
Disable(flow) ==
    /\ opc = "idle"
    /\ cfg.selective
    /\ Contains(plan, flow)
    /\ plan' = Remove(plan, flow)
    /\ reordered' = TRUE
    /\ stale' = [stale EXCEPT ![flow] = 0]
    /\ UNCHANGED <<cfg, opc, joinable, sharedVars, wpc, localVars,
                   ctxVars, last_active, wire>>

----------------------------------------------------------------------------
(* The kinds of entity DdsCtx points to or its participant holds. *)
Held == {kind \in Kinds :
            \/ kind = "participant" /\ participant
            \/ kind = "publisher" /\ publisher
            \/ kind = "topic" /\ topics # {}
            \/ kind = "writer" /\ datawriters # NoEntries}

(* Topics and DataWriters no entry of the table remembers. *)
LostTopic  == \E f \in Formatters : writers[f] = NoWriter /\ f \in topics
LostWriter == \E f \in Formatters : writers[f] = NoWriter /\ datawriters[f] # NoWriter

(***************************************************************************)
(* What ctx.cleanup() cannot delete: it walks the table, and DDS refuses   *)
(* to delete the parent of an entity that is still there.                  *)
(***************************************************************************)
Undeleted == {kind \in Held :
                 \/ kind = "topic" /\ LostTopic
                 \/ kind \in {"writer", "publisher"} /\ LostWriter
                 \/ kind = "participant" /\ (LostTopic \/ LostWriter)}

(***************************************************************************)
(* worker_loop returns and DdsCtx, which has no destructor, goes out of    *)
(* scope.  Entities of the kinds `kept' were not deleted: they stay alive  *)
(* in the process, and nothing points to them.                             *)
(***************************************************************************)
LeaveScope(kept) ==
    /\ leaked' = leaked \cup kept
    /\ participant' = FALSE /\ publisher' = FALSE
    /\ writers' = NoEntries /\ datawriters' = NoEntries /\ topics' = {}
    /\ last_active' = {} /\ reordered' = FALSE
    /\ wpc' = "exited"

(* The worker: DDS set-up. *)
CreateParticipant ==
    /\ wpc = "participant"
    /\ participant' = TRUE
    /\ readback' = TRUE
    /\ wpc' = "publisher"
    /\ UNCHANGED <<ownerVars, stop, state, localVars, publisher,
                   writers, topics, datawriters, leaked, allowVars, wireVars>>

ParticipantFails ==
    /\ wpc = "participant"
    /\ state' = "Error"
    /\ wpc' = "exited"
    /\ UNCHANGED <<ownerVars, stop, readback, localVars, ctxVars,
                   allowVars, wireVars>>

CreatePublisher ==
    /\ wpc = "publisher"
    /\ publisher' = TRUE
    /\ wpc' = "backend"
    /\ UNCHANGED <<ownerVars, sharedVars, localVars, participant, writers,
                   topics, datawriters, leaked, allowVars, wireVars>>

(* Variant: an early return that forgets the participant. *)
PublisherFailsNoCleanup ==
    /\ wpc = "publisher"
    /\ LeaveScope(Held)
    /\ state' = "Error"
    /\ UNCHANGED <<ownerVars, stop, readback, localVars, wireVars>>

PublisherFails ==
    /\ wpc = "publisher"
    /\ LeaveScope(Undeleted)
    /\ state' = "Error"
    /\ UNCHANGED <<ownerVars, stop, readback, localVars, wireVars>>

ArmMissing == cfg.static /\ ~cfg.static_arm

(* The generated arm was asked for and not built: a return that calls no   *)
(* cleanup, so that participant and publisher stay.                        *)
StaticArmMissing ==
    /\ wpc = "backend"
    /\ ArmMissing
    /\ LeaveScope(Held)
    /\ state' = "Error"
    /\ UNCHANGED <<ownerVars, stop, readback, localVars, wireVars>>

Ready ==
    /\ wpc = "backend"
    /\ ~ArmMissing
    /\ last_active' = {}
    /\ reordered' = FALSE
    /\ state' = "Running"
    /\ wpc' = "loop"
    /\ UNCHANGED <<ownerVars, stop, readback, localVars, ctxVars, wireVars>>

----------------------------------------------------------------------------
(* The worker: the main loop. *)

(* Variant: the flag is never looked at. *)
CheckStopNever ==
    /\ wpc = "loop"
    /\ wpc' = "read"
    /\ UNCHANGED <<ownerVars, sharedVars, localVars, ctxVars, allowVars, wireVars>>

(* Variant: the new state is left for after the cleanup. *)
CheckStopSilent ==
    /\ wpc = "loop"
    /\ wpc' = IF stop THEN "cleanup" ELSE "read"
    /\ UNCHANGED <<ownerVars, sharedVars, localVars, ctxVars, allowVars, wireVars>>

(* while (!stop_): seen raised, Stopped is published before the cleanup. *)
CheckStop ==
    /\ wpc = "loop"
    /\ state' = IF stop THEN "Stopped" ELSE state
    /\ wpc' = IF stop THEN "cleanup" ELSE "read"
    /\ UNCHANGED <<ownerVars, stop, readback, localVars, ctxVars,
                   allowVars, wireVars>>

(* Variant: one turn of the byte loop too many. *)
ReadOneMore(n) ==
    /\ wpc = "read"
    /\ left' = n + 1
    /\ wpc' = "chunk"
    /\ UNCHANGED <<ownerVars, sharedVars, cur, tgt, ctxVars, allowVars, wireVars>>

(* read() returns data, or nothing within its 100 ms. *)
Read(n) ==
    /\ wpc = "read"
    /\ left' = n
    /\ wpc' = "chunk"
    /\ UNCHANGED <<ownerVars, sharedVars, cur, tgt, ctxVars, allowVars, wireVars>>

(* read() < 0: the source is gone. *)
SourceFails ==
    /\ wpc = "read"
    /\ state' = "Error"
    /\ wpc' = "cleanup"
    /\ UNCHANGED <<ownerVars, stop, readback, localVars, ctxVars,
                   allowVars, wireVars>>

BadChecksum ==
    /\ wpc = "chunk" /\ left > 0
    /\ left' = left - 1
    /\ UNCHANGED <<ownerVars, stop, state, readback, wpc, cur, tgt, ctxVars,
                   allowVars, wireVars>>

(* Whether a sentence of this flow goes on to a writer, and with what. *)
Publishes(flow) ==
    /\ cfg.publish
    /\ cfg.selective => Formatter(flow) # Raw /\ Contains(plan, flow)

(* Variant: the target of the previous sample of the flow is kept. *)
TargetCached(flow) ==
    IF wire # NoSample /\ wire.flow = flow
    THEN CHOOSE t \in Targets : t.device_id = wire.device_id
    ELSE IF cfg.selective THEN Resolve(plan, flow) ELSE GlobalTarget

TargetFor(flow) == IF cfg.selective THEN Resolve(plan, flow) ELSE GlobalTarget

(* A valid sentence: resolved, shown to on_sentence, looked up in the plan. *)
Complete(flow) ==
    /\ wpc = "chunk" /\ left > 0
    /\ left' = left - 1
    /\ IF Publishes(flow)
       THEN cur' = flow /\ tgt' = TargetFor(flow) /\ wpc' = "writer"
       ELSE UNCHANGED <<cur, tgt, wpc>>
    /\ UNCHANGED <<ownerVars, stop, state, readback, ctxVars, allowVars, wireVars>>

Entry == Formatter(cur)

(* get_or_create finds an entry with the same profile. *)
Reusable == writers[Entry] # NoWriter /\ SameQos(writers[Entry], tgt.qos)

ReuseWriter ==
    /\ wpc = "writer"
    /\ Reusable
    /\ wpc' = "write"
    /\ UNCHANGED <<ownerVars, sharedVars, localVars, ctxVars, allowVars, wireVars>>

(* The generated arm has no type outside the campaign. *)
CanPrepare == cfg.static => Entry \in Campaign

(***************************************************************************)
(* get_or_create finds no entry, or one with another profile, which it     *)
(* deletes first.  A topic still alive under the name would refuse the     *)
(* new one.                                                                *)
(***************************************************************************)
CreateWriter ==
    /\ wpc = "writer"
    /\ ~Reusable
    /\ CanPrepare
    /\ Entry \notin topics \/ writers[Entry] # NoWriter
    /\ writers' = [writers EXCEPT ![Entry] = tgt.qos]
    /\ topics' = topics \cup {Entry}
    /\ datawriters' = [datawriters EXCEPT ![Entry] = BuildWriterQos(tgt.qos)]
    /\ wpc' = "write"
    /\ UNCHANGED <<ownerVars, sharedVars, localVars, participant, publisher,
                   leaked, allowVars, wireVars>>

(* The sentence is done with: back to the bytes of the chunk. *)
NextSentence == wpc' = "chunk" /\ cur' = NoFlow /\ tgt' = NoTarget

(* Variant: the topic of a writer that could not be created stays. *)
WriterFailsKeepingTopic ==
    /\ wpc = "writer"
    /\ ~Reusable
    /\ writers' = [writers EXCEPT ![Entry] = NoWriter]
    /\ topics' = topics \cup {Entry}
    /\ datawriters' = [datawriters EXCEPT ![Entry] = NoWriter]
    /\ NextSentence
    /\ UNCHANGED <<ownerVars, sharedVars, left, participant, publisher,
                   leaked, allowVars, wireVars>>

(***************************************************************************)
(* prepare, create_topic or create_datawriter fails: the old writer is     *)
(* already gone, a topic created in between is deleted, and the sentence   *)
(* is not published.                                                       *)
(***************************************************************************)
WriterFails ==
    /\ wpc = "writer"
    /\ ~Reusable
    /\ writers' = [writers EXCEPT ![Entry] = NoWriter]
    /\ topics' = topics \ {Entry}
    /\ datawriters' = [datawriters EXCEPT ![Entry] = NoWriter]
    /\ NextSentence
    /\ UNCHANGED <<ownerVars, sharedVars, left, participant, publisher,
                   leaked, allowVars, wireVars>>

(* The target in hand is not, or no longer, the one the allowlist gives. *)
Outdated == cfg.selective /\ tgt # Resolve(plan, cur)

(* write() through the writer of the formatter; its result is ignored. *)
Write ==
    /\ wpc = "write"
    /\ wire' = [flow |-> cur, device_id |-> tgt.device_id, qos |-> datawriters[Entry]]
    /\ stale' = IF Outdated THEN [stale EXCEPT ![cur] = IF @ < 2 THEN @ + 1 ELSE @]
                ELSE stale
    /\ NextSentence
    /\ UNCHANGED <<ownerVars, sharedVars, left, ctxVars, allowVars>>

WriteFails ==
    /\ wpc = "write"
    /\ NextSentence
    /\ UNCHANGED <<ownerVars, sharedVars, left, ctxVars, allowVars, wireVars>>

----------------------------------------------------------------------------
(* The worker: end of a chunk and end of the thread. *)

(***************************************************************************)
(* active != last_active compares two vectors.  Restructuring the table    *)
(* may change their order, so equal sets of two or more formatters may     *)
(* still compare different.                                                *)
(***************************************************************************)
MayDiffer(active) ==
    \/ active # last_active
    \/ reordered /\ Cardinality(active) > 1

(* Variant: the comparison is remembered, the writers are not visited. *)
ReconcileForgets ==
    /\ wpc = "chunk" /\ left = 0
    /\ cfg.publish /\ cfg.selective
    /\ MayDiffer(ActiveFormatters(plan))
    /\ last_active' = ActiveFormatters(plan)
    /\ reordered' = FALSE
    /\ wpc' = "loop"
    /\ UNCHANGED <<ownerVars, sharedVars, localVars, ctxVars, wireVars>>

(* reconcile: writers whose formatter is not active go, with their topics. *)
Reconcile ==
    /\ wpc = "chunk" /\ left = 0
    /\ cfg.publish /\ cfg.selective
    /\ LET active == ActiveFormatters(plan)
           kept(f) == f \in active \/ writers[f] = NoWriter
       IN  /\ MayDiffer(active)
           /\ last_active' = active
           /\ writers' = [f \in Formatters |-> IF kept(f) THEN writers[f] ELSE NoWriter]
           /\ datawriters' =
                 [f \in Formatters |-> IF kept(f) THEN datawriters[f] ELSE NoWriter]
           /\ topics' = {f \in topics : kept(f)}
    /\ reordered' = FALSE
    /\ wpc' = "loop"
    /\ UNCHANGED <<ownerVars, sharedVars, localVars, participant, publisher,
                   leaked, wireVars>>

SkipReconcile ==
    /\ wpc = "chunk" /\ left = 0
    /\ cfg.publish /\ cfg.selective => ActiveFormatters(plan) = last_active
    /\ reordered' = FALSE
    /\ wpc' = "loop"
    /\ UNCHANGED <<ownerVars, sharedVars, localVars, ctxVars, last_active, wireVars>>

(* Variant: the worker leaves the cleanup to whoever joins it. *)
CleanupWhenJoined ==
    /\ wpc = "cleanup"
    /\ opc = "joining"
    /\ LeaveScope(Undeleted)
    /\ UNCHANGED <<ownerVars, sharedVars, localVars, wireVars>>

(* cleanup: writers and topics, then publisher, then participant. *)
Cleanup ==
    /\ wpc = "cleanup"
    /\ LeaveScope(Undeleted)
    /\ UNCHANGED <<ownerVars, sharedVars, localVars, wireVars>>

----------------------------------------------------------------------------
SetUp ==
    \/ CreateParticipant \/ ParticipantFails
    \/ CreatePublisher \/ PublisherFails
    \/ StaticArmMissing \/ Ready

Consume == BadChecksum \/ \E flow \in Flows : Complete(flow)

PublishSentence ==
    \/ ReuseWriter \/ CreateWriter \/ WriterFails
    \/ Write \/ WriteFails

Worker ==
    \/ SetUp
    \/ CheckStop \/ SourceFails
    \/ \E n \in 0..MaxChunk : Read(n)
    \/ Consume
    \/ PublishSentence
    \/ Reconcile \/ SkipReconcile
    \/ Cleanup

Owner ==
    \/ Start \/ StartTerminates \/ Stop \/ Join
    \/ \E flow \in Flows, target \in Targets : Enable(flow, target)
    \/ \E flow \in Flows : Disable(flow)

(* std::terminate has ended the process. *)
Terminated == opc = "terminated" /\ UNCHANGED vars

Next == Owner \/ Worker \/ Terminated

Spec == Init /\ [][Next]_vars

(***************************************************************************)
(* The worker thread is scheduled and read() returns within its timeout;   *)
(* a join returns when the thread is gone.  What the operator does and     *)
(* what the source sends is not promised.                                  *)
(***************************************************************************)
FairSpec == Spec /\ WF_vars(Worker) /\ WF_vars(Join)

----------------------------------------------------------------------------
(* Safety. *)

(* No entity is alive in DDS: neither one DdsCtx reaches nor an older one. *)
NoEntities == Held = {} /\ leaked = {}

(***************************************************************************)
(* The entry table and DDS agree in every reachable state: each entry has  *)
(* its topic and a DataWriter with the QoS of the profile remembered for   *)
(* it, and nothing is alive that the table lost.  It is what lets cleanup  *)
(* and reconcile, which walk the table, delete everything, across every    *)
(* order of profile changes, failed creations and reconciliations          *)
(* (Pipeline.cpp:84-139).                                                  *)
(***************************************************************************)
TableMatchesDds ==
    \A f \in Formatters :
        /\ f \in topics <=> writers[f] # NoWriter
        /\ datawriters[f] = IF writers[f] = NoWriter THEN NoWriter
                            ELSE BuildWriterQos(writers[f])

(***************************************************************************)
(* "todo lo que crea un Pipeline, con cleanup en orden correcto"           *)
(* (Pipeline.cpp:38): whatever fails, and whenever stop() arrives, nothing *)
(* stays alive behind a worker that returned, except the participant and   *)
(* the publisher on the one return that skips the cleanup                  *)
(* (Pipeline.cpp:283-290).                                                 *)
(***************************************************************************)
LeaksOnlyWithoutStaticArm ==
    leaked \subseteq IF ArmMissing THEN {"participant", "publisher"} ELSE {}

(***************************************************************************)
(* Another thread that sees Running may rely on DDS being up and on the    *)
(* effective_* values being there (Pipeline.cpp:299, Pipeline.hpp:141):    *)
(* Running is announced after the set-up and withdrawn before the cleanup. *)
(***************************************************************************)
RunningImpliesReady ==
    state = "Running" =>
        /\ wpc \in {"loop", "read", "chunk", "writer", "write"}
        /\ cfg.publish => participant /\ publisher /\ readback

(***************************************************************************)
(* After stop() returned, or before start(), nothing of the pipeline is    *)
(* left: no thread, no Running state and, unless the generated arm was     *)
(* asked for and not built, no entity in DDS, of this run or of an earlier *)
(* one (so the owner may destroy the source, the allowlist and the         *)
(* registry it borrows).  Without that arm the entities of Pipeline.cpp:289 *)
(* are still alive, which LeaksOnlyWithoutStaticArm bounds.                *)
(***************************************************************************)
StoppedIsQuiescent ==
    ~joinable => /\ wpc = "none" /\ state # "Running"
                 /\ NoEntities \/ ArmMissing

(***************************************************************************)
(* The worker uses a copy of the target it resolved, so an edit of the     *)
(* allowlist may be overtaken: but by one sample of the flow at most.      *)
(* Removing a conversion, or changing its QoS, takes effect from the       *)
(* second sentence after removeConversion/updateConversionQoS returned.    *)
(***************************************************************************)
AtMostOneStaleSample == \A flow \in Flows : stale[flow] <= 1

(***************************************************************************)
(* The refinement: without an allowlist every flow has the global target;  *)
(* a sample is in flight from the moment its target is resolved.           *)
(***************************************************************************)
Allowed == IF cfg.selective THEN plan ELSE [flow \in Flows |-> GlobalTarget]

InFlight == IF wpc \in {"writer", "write"} THEN [flow |-> cur, target |-> tgt]
            ELSE NoSample

Abstract == INSTANCE SelectivePublication WITH plan <- Allowed, inflight <- InFlight

(***************************************************************************)
(* Through writer reuse, re-creation, reconciliation and failures, what    *)
(* reaches the wire is what SelectivePublication promises: the device_id   *)
(* and the QoS of one target the allowlist held, never a mixture of two.   *)
(***************************************************************************)
RefinesSelectivePublication == Abstract!Spec

----------------------------------------------------------------------------
(* What the comments say and the code does not do. *)

(***************************************************************************)
(* "Elimina los writers cuyo formatter ya no está en la allowlist"         *)
(* (Pipeline.cpp:128): when a chunk is done, every writer belongs to a     *)
(* formatter of the allowlist just compared.                               *)
(***************************************************************************)
WritersWithinAllowlist ==
    wpc = "loop" /\ cfg.selective =>
        \A f \in Formatters : writers[f] # NoWriter => f \in last_active

----------------------------------------------------------------------------
(* Liveness. *)

(* stop() returns: the owner, which is the UI thread, is never stuck in it. *)
StopReturns == opc = "joining" ~> opc = "idle"

(***************************************************************************)
(* A worker that loses its source or is asked to stop gives its DDS        *)
(* entities back, whether or not anyone joins it (Pipeline.cpp:305-308,    *)
(* 393-396); asked to stop during the set-up too, except without the       *)
(* generated arm it needs (283-290).                                       *)
(***************************************************************************)
EndReleasesEntities ==
    ~ArmMissing /\ (wpc = "cleanup" \/ (stop /\ joinable))
        ~> (NoEntities \/ opc = "terminated")

(***************************************************************************)
(* A formatter the worker has seen in the allowlist and that leaves it     *)
(* eventually loses its writer, unless it comes back or the process ends   *)
(* (Pipeline.cpp:385-391).                                                 *)
(***************************************************************************)
DelistedWriterGoes ==
    \A f \in Formatters :
        (f \in last_active /\ f \notin ActiveFormatters(plan))
            ~> \/ writers[f] = NoWriter
               \/ f \in ActiveFormatters(plan)
               \/ opc = "terminated"
=============================================================================
