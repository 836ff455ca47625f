--------------------------- MODULE PipelineProofs ---------------------------
(***************************************************************************)
(* Proofs about Pipeline, for every set of flows, targets, configurations  *)
(* and every chunk size.                                                   *)
(***************************************************************************)
EXTENDS Pipeline, TLAPS

InLoop   == {"loop", "read", "chunk", "writer", "write"}
HasScope == InLoop \cup {"backend", "cleanup"}

NoWriters == topics = {} /\ datawriters = NoEntries

(* Nothing of the worker's own scope is alive; `leaked' is not its business. *)
Released == ~participant /\ ~publisher /\ NoWriters

(***************************************************************************)
(* The life of a worker: what its place says about the owner, the announced *)
(* state and the entities its DdsCtx holds.                                *)
(***************************************************************************)
LifeCycle ==
    /\ ~joinable => wpc = "none" /\ opc = "idle"
    /\ opc = "terminated" => wpc = "none" /\ state # "Running"
    /\ wpc = "none" => ~joinable \/ opc = "terminated"
    /\ state = "Running" => wpc \in InLoop
    /\ wpc \in {"none", "participant", "exited"} /\ opc # "terminated" => Released
    /\ wpc \in {"publisher", "backend"} => NoWriters
    /\ cfg.publish =>
         /\ wpc = "publisher" => participant /\ readback
         /\ wpc \in HasScope => participant /\ publisher /\ readback

(* The sentence in hand, and the writer found or created for it. *)
InHand ==
    wpc \in {"writer", "write"} =>
        /\ cur \in Flows /\ tgt \in Target
        /\ ~cfg.selective => tgt = GlobalTarget
        /\ wpc = "write" => writers[Entry] = tgt.qos

(* An outdated sample already left: the one in hand is not another. *)
OneOutdated ==
    \A flow \in Flows :
        /\ stale[flow] <= 1
        /\ stale[flow] = 1 =>
             ~ (wpc \in {"writer", "write"} /\ cur = flow /\ Outdated)

IInv ==
    /\ TypeOK
    /\ LifeCycle
    /\ InHand
    /\ TableMatchesDds
    /\ LeaksOnlyWithoutStaticArm
    /\ OneOutdated

----------------------------------------------------------------------------
(* Facts about the profiles. *)

(* get_or_create's field-by-field comparison is equality of profiles. *)
LEMMA SameQosIsEquality ==
    ASSUME NEW c \in Qos, NEW q \in Qos, SameQos(c, q)
    PROVE  c = q
  BY PlanAssumption DEF QosSettings, SameQos

LEMMA BuildWriterQosType ==
    ASSUME NEW q \in Qos
    PROVE  BuildWriterQos(q) \in WriterQosOf /\ BuildWriterQos(q) # NoWriter
  BY PipelineAssumption DEF WriterQosOf

LEMMA FormatterType ==
    ASSUME NEW flow \in Flows
    PROVE  Formatter(flow) \in Formatters
  BY PlanAssumption DEF Formatter

----------------------------------------------------------------------------
(* The invariant holds at the start and is preserved by every action. *)

LEMMA InitInv == Init => IInv
  <1> SUFFICES ASSUME Init PROVE IInv
    OBVIOUS
  <1> USE PlanAssumption, PipelineAssumption DEF Init
  <1>1. TypeOK
    <2>1. plan \in [Flows -> Targets \cup {NoTarget}]
      BY DEF EmptyPlan
    <2>2. /\ writers \in [Formatters -> Qos \cup {NoWriter}]
          /\ datawriters \in [Formatters -> WriterQosOf \cup {NoWriter}]
      BY DEF NoEntries
    <2>3. stale \in [Flows -> 0..2] /\ left \in 0..MaxChunk
      OBVIOUS
    <2> QED
      BY <2>1, <2>2, <2>3 DEF TypeOK, WorkerPlaces
  <1>2. LifeCycle
    BY DEF LifeCycle, Released, NoWriters, InLoop, HasScope
  <1>3. InHand /\ LeaksOnlyWithoutStaticArm /\ OneOutdated
    BY DEF InHand, LeaksOnlyWithoutStaticArm, ArmMissing, OneOutdated
  <1>4. TableMatchesDds
    BY DEF TableMatchesDds, NoEntries
  <1> QED
    BY <1>1, <1>2, <1>3, <1>4 DEF IInv

(* The owner's steps on the thread change nothing the worker owns. *)
LEMMA OwnerInv == IInv /\ (Start \/ StartTerminates \/ Stop \/ Join) => IInv'
  <1> SUFFICES ASSUME IInv, Start \/ StartTerminates \/ Stop \/ Join
               PROVE  IInv'
    OBVIOUS
  <1> USE DEF IInv, ownerVars, sharedVars, localVars, ctxVars, allowVars, wireVars
  <1>1. CASE Start
    <2>1. TypeOK'
      BY <1>1 DEF Start, TypeOK, FirstPlace, WorkerPlaces
    <2>2. LifeCycle'
      BY <1>1 DEF Start, LifeCycle, FirstPlace, Released, NoWriters, InLoop,
         HasScope
    <2> QED
      BY <1>1, <2>1, <2>2 DEF Start, FirstPlace, LifeCycle, InHand,
         TableMatchesDds, LeaksOnlyWithoutStaticArm, ArmMissing, OneOutdated
  <1>2. CASE StartTerminates
    BY <1>2 DEF StartTerminates, TypeOK, WorkerPlaces, LifeCycle, InHand,
       TableMatchesDds, LeaksOnlyWithoutStaticArm, ArmMissing, OneOutdated,
       HasScope, InLoop
  <1>3. CASE Stop
    BY <1>3 DEF Stop, TypeOK, LifeCycle, InHand, TableMatchesDds, Entry, Released,
       NoWriters, LeaksOnlyWithoutStaticArm, ArmMissing, OneOutdated, Outdated
  <1>4. CASE Join
    BY <1>4 DEF Join, TypeOK, WorkerPlaces, LifeCycle, InHand, Released,
       NoWriters, TableMatchesDds, LeaksOnlyWithoutStaticArm, ArmMissing,
       OneOutdated, HasScope, InLoop
  <1> QED
    BY <1>1, <1>2, <1>3, <1>4

(* Edits of the allowlist: only the plan and the staleness history move. *)
LEMMA EnableInv ==
    ASSUME IInv, NEW flow \in Flows, NEW target \in Targets, Enable(flow, target)
    PROVE  IInv'
  <1> USE DEF IInv, Enable, ownerVars, sharedVars, localVars, ctxVars, allowVars,
              wireVars
  <1>1. TypeOK'
    BY DEF TypeOK, Add
  <1>2. LifeCycle' /\ InHand' /\ TableMatchesDds' /\ LeaksOnlyWithoutStaticArm'
    BY DEF LifeCycle, InHand, Entry, TableMatchesDds, LeaksOnlyWithoutStaticArm,
       ArmMissing, Released, NoWriters
  <1>3. OneOutdated'
    BY DEF TypeOK, OneOutdated, Outdated, Add, Resolve
  <1> QED
    BY <1>1, <1>2, <1>3

LEMMA DisableInv ==
    ASSUME IInv, NEW flow \in Flows, Disable(flow)
    PROVE  IInv'
  <1> USE DEF IInv, Disable, ownerVars, sharedVars, localVars, ctxVars, allowVars,
              wireVars
  <1>1. TypeOK'
    BY DEF TypeOK, Remove
  <1>2. LifeCycle' /\ InHand' /\ TableMatchesDds' /\ LeaksOnlyWithoutStaticArm'
    BY DEF LifeCycle, InHand, Entry, TableMatchesDds, LeaksOnlyWithoutStaticArm,
       ArmMissing, Released, NoWriters
  <1>3. OneOutdated'
    BY DEF TypeOK, OneOutdated, Outdated, Remove, Resolve
  <1> QED
    BY <1>1, <1>2, <1>3

(* Leaving worker_loop leaves nothing behind but the kinds `kept'. *)
LEMMA LeaveScopeInv ==
    ASSUME IInv, NEW kept \in SUBSET Kinds, LeaveScope(kept),
           kept \subseteq IF ArmMissing THEN {"participant", "publisher"} ELSE {},
           wpc \in {"publisher", "backend", "cleanup"},
           state' \in {"Stopped", "Error"},
           UNCHANGED <<ownerVars, stop, readback, localVars, wireVars>>
    PROVE  IInv'
  <1> USE DEF IInv, LeaveScope, ownerVars, localVars, wireVars
  <1>1. TypeOK'
    BY DEF TypeOK, NoEntries, WorkerPlaces
  <1>2. LifeCycle'
    BY DEF LifeCycle, Released, NoWriters, InLoop, HasScope
  <1>3. InHand' /\ OneOutdated'
    BY DEF InHand, OneOutdated
  <1>4. LeaksOnlyWithoutStaticArm'
    BY DEF LeaksOnlyWithoutStaticArm, ArmMissing
  <1>5. TableMatchesDds'
    BY DEF TableMatchesDds, NoEntries
  <1> QED
    BY <1>1, <1>2, <1>3, <1>4, <1>5

(***************************************************************************)
(* ctx.cleanup() reaches everything, because the table knows everything.   *)
(***************************************************************************)
LEMMA NothingUndeleted == IInv => Undeleted = {}
  <1> SUFFICES ASSUME IInv PROVE Undeleted = {}
    OBVIOUS
  <1>1. ~LostTopic /\ ~LostWriter
    BY DEF IInv, TypeOK, TableMatchesDds, LostTopic, LostWriter
  <1> QED
    BY <1>1 DEF Undeleted, Held, Kinds

(* Before the first writer there are a participant and a publisher at most. *)
LEMMA HeldBeforeLoop ==
    ASSUME IInv, wpc = "backend"
    PROVE  Held \subseteq {"participant", "publisher"}
  BY DEF IInv, LifeCycle, NoWriters, Held, Kinds

(* Set-up: entities appear one by one, Running only at the end. *)
LEMMA SetUpInv == IInv /\ SetUp => IInv'
  <1> SUFFICES ASSUME IInv, SetUp PROVE IInv'
    OBVIOUS
  <1> USE DEF ownerVars, sharedVars, localVars, ctxVars, allowVars, wireVars
  <1>1. CASE CreateParticipant
    BY <1>1 DEF CreateParticipant, IInv, TypeOK, WorkerPlaces, LifeCycle, InHand,
       TableMatchesDds, LeaksOnlyWithoutStaticArm, ArmMissing, OneOutdated,
       HasScope, InLoop, Released, NoWriters
  <1>2. CASE ParticipantFails
    BY <1>2 DEF ParticipantFails, IInv, TypeOK, WorkerPlaces, LifeCycle, InHand,
       TableMatchesDds, LeaksOnlyWithoutStaticArm, ArmMissing, OneOutdated,
       HasScope, InLoop, Released, NoWriters
  <1>3. CASE CreatePublisher
    BY <1>3 DEF CreatePublisher, IInv, TypeOK, WorkerPlaces, LifeCycle, InHand,
       TableMatchesDds, LeaksOnlyWithoutStaticArm, ArmMissing, OneOutdated,
       HasScope, InLoop, Released, NoWriters
  <1>4. CASE PublisherFails
    BY <1>4, NothingUndeleted, LeaveScopeInv DEF PublisherFails, Kinds
  <1>5. CASE StaticArmMissing
    BY <1>5, HeldBeforeLoop, LeaveScopeInv DEF StaticArmMissing, Held
  <1>6. CASE Ready
    BY <1>6 DEF Ready, IInv, TypeOK, WorkerPlaces, LifeCycle, InHand,
       TableMatchesDds, LeaksOnlyWithoutStaticArm, ArmMissing, OneOutdated,
       HasScope, InLoop
  <1> QED
    BY <1>1, <1>2, <1>3, <1>4, <1>5, <1>6 DEF SetUp

LEMMA CleanupInv == IInv /\ Cleanup => IInv'
  <1> SUFFICES ASSUME IInv, Cleanup PROVE IInv'
    OBVIOUS
  <1>1. state' \in {"Stopped", "Error"}
    BY DEF Cleanup, sharedVars, IInv, TypeOK, LifeCycle, InLoop
  <1>2. LeaveScope({})
    BY NothingUndeleted DEF Cleanup
  <1> QED
    BY <1>1, <1>2, LeaveScopeInv DEF Cleanup, sharedVars, Kinds

(* The head of the loop, and read(). *)
LEMMA LoopInv ==
    IInv /\ (CheckStop \/ SourceFails \/ \E n \in 0..MaxChunk : Read(n)) => IInv'
  <1> SUFFICES ASSUME IInv, CheckStop \/ SourceFails \/ \E n \in 0..MaxChunk : Read(n)
               PROVE  IInv'
    OBVIOUS
  <1> USE DEF IInv, ownerVars, sharedVars, localVars, ctxVars, allowVars, wireVars
  <1>1. CASE CheckStop
    BY <1>1 DEF CheckStop, TypeOK, WorkerPlaces, LifeCycle, InHand,
       TableMatchesDds, LeaksOnlyWithoutStaticArm, ArmMissing, OneOutdated,
       HasScope, InLoop
  <1>2. CASE SourceFails
    BY <1>2 DEF SourceFails, TypeOK, WorkerPlaces, LifeCycle, InHand,
       TableMatchesDds, LeaksOnlyWithoutStaticArm, ArmMissing, OneOutdated,
       HasScope, InLoop
  <1>3. CASE \E n \in 0..MaxChunk : Read(n)
    BY <1>3 DEF Read, TypeOK, WorkerPlaces, LifeCycle, InHand, TableMatchesDds,
       LeaksOnlyWithoutStaticArm, ArmMissing, OneOutdated, HasScope, InLoop
  <1> QED
    BY <1>1, <1>2, <1>3

(* A sentence is consumed: the target in hand is the allowlist's. *)
LEMMA ConsumeInv == IInv /\ Consume => IInv'
  <1> SUFFICES ASSUME IInv, Consume PROVE IInv'
    OBVIOUS
  <1> USE PipelineAssumption
      DEF IInv, ownerVars, sharedVars, localVars, ctxVars, allowVars, wireVars
  <1>1. CASE BadChecksum
    BY <1>1 DEF BadChecksum, TypeOK, LifeCycle, InHand, Released, NoWriters,
       TableMatchesDds, LeaksOnlyWithoutStaticArm, ArmMissing, OneOutdated
  <1>2. ASSUME NEW flow \in Flows, Complete(flow)
        PROVE  IInv'
    <2> USE <1>2 DEF Complete
    <2>1. Publishes(flow) => /\ TargetFor(flow) \in Target
                             /\ ~cfg.selective => TargetFor(flow) = GlobalTarget
                             /\ cfg.selective => TargetFor(flow) = plan[flow]
      BY DEF Publishes, TargetFor, Contains, Resolve, TypeOK
    <2>2. TypeOK'
      BY <2>1 DEF TypeOK, WorkerPlaces
    <2>3. LifeCycle'
      BY DEF LifeCycle, HasScope, InLoop, Released, NoWriters
    <2>4. InHand' /\ TableMatchesDds' /\ LeaksOnlyWithoutStaticArm'
      BY <2>1 DEF InHand, TableMatchesDds, LeaksOnlyWithoutStaticArm, ArmMissing
    <2>5. OneOutdated'
      BY <2>1 DEF OneOutdated, Outdated, Resolve
    <2> QED
      BY <2>2, <2>3, <2>4, <2>5
  <1> QED
    BY <1>1, <1>2 DEF Consume

(* get_or_create: afterwards the entry has the profile of the target. *)
LEMMA WriterInv == IInv /\ (ReuseWriter \/ CreateWriter \/ WriterFails) => IInv'
  <1> SUFFICES ASSUME IInv, ReuseWriter \/ CreateWriter \/ WriterFails PROVE IInv'
    OBVIOUS
  <1> USE DEF IInv, ownerVars, sharedVars, localVars, ctxVars, allowVars, wireVars
  <1>1. wpc = "writer"
    BY DEF ReuseWriter, CreateWriter, WriterFails
  <1>2. cur \in Flows /\ tgt \in Target /\ Entry \in Formatters
    BY <1>1, FormatterType DEF InHand, Entry
  <1>3. tgt.qos \in Qos
    BY <1>2 DEF Target
  <1>4. /\ BuildWriterQos(tgt.qos) \in WriterQosOf
        /\ BuildWriterQos(tgt.qos) # NoWriter /\ tgt.qos # NoWriter
    BY <1>3, BuildWriterQosType, PipelineAssumption
  <1>5. CASE ReuseWriter
    <2>1. writers[Entry] = tgt.qos
      BY <1>2, <1>3, <1>5, SameQosIsEquality DEF ReuseWriter, Reusable, TypeOK
    <2> QED
      BY <1>5, <2>1 DEF ReuseWriter, TypeOK, WorkerPlaces, LifeCycle, InHand,
         Entry, TableMatchesDds, LeaksOnlyWithoutStaticArm, ArmMissing,
         OneOutdated, Outdated, HasScope, InLoop
  <1>6. CASE CreateWriter
    <2> USE <1>6 DEF CreateWriter
    <2>1. TypeOK'
      BY <1>2, <1>3, <1>4 DEF TypeOK, WorkerPlaces
    <2>2. LifeCycle' /\ LeaksOnlyWithoutStaticArm'
      BY DEF LifeCycle, HasScope, InLoop, LeaksOnlyWithoutStaticArm, ArmMissing
    <2>3. InHand'
      BY <1>2 DEF InHand, Entry, TypeOK
    <2>4. TableMatchesDds'
      BY <1>2, <1>4 DEF TableMatchesDds, TypeOK
    <2>5. OneOutdated'
      BY DEF OneOutdated, Outdated
    <2> QED
      BY <2>1, <2>2, <2>3, <2>4, <2>5
  <1>7. CASE WriterFails
    <2> USE <1>7 DEF WriterFails, NextSentence
    <2>1. TypeOK'
      BY <1>2 DEF TypeOK, WorkerPlaces
    <2>2. LifeCycle' /\ LeaksOnlyWithoutStaticArm' /\ InHand' /\ OneOutdated'
      BY DEF LifeCycle, HasScope, InLoop, LeaksOnlyWithoutStaticArm, ArmMissing,
         InHand, OneOutdated
    <2>3. TableMatchesDds'
      BY <1>2 DEF TableMatchesDds, TypeOK
    <2> QED
      BY <2>1, <2>2, <2>3
  <1> QED
    BY <1>5, <1>6, <1>7

(* The DataWriter a sample is written through has the QoS of its target. *)
LEMMA WriterMatchesTarget ==
    ASSUME IInv, wpc = "write"
    PROVE  /\ cur \in Flows /\ tgt \in Target
           /\ datawriters[Entry] = BuildWriterQos(tgt.qos)
           /\ datawriters[Entry] \in WriterQosOf
  <1>1. cur \in Flows /\ tgt \in Target /\ writers[Entry] = tgt.qos
    BY DEF IInv, InHand
  <1>2. Entry \in Formatters
    BY <1>1, FormatterType DEF Entry
  <1>3. tgt.qos \in Qos
    BY <1>1 DEF Target
  <1>4. tgt.qos # NoWriter
    BY <1>3, PipelineAssumption
  <1>5. datawriters[Entry] = BuildWriterQos(tgt.qos)
    BY <1>1, <1>2, <1>4 DEF IInv, TableMatchesDds
  <1> QED
    BY <1>1, <1>3, <1>5, BuildWriterQosType

(* An outdated sample that leaves is the first since the edit. *)
LEMMA WriteInv == IInv /\ (Write \/ WriteFails) => IInv'
  <1> SUFFICES ASSUME IInv, Write \/ WriteFails PROVE IInv'
    OBVIOUS
  <1> USE DEF NextSentence, ownerVars, sharedVars, ctxVars, allowVars, wireVars
  <1>1. CASE Write
    <2> USE <1>1 DEF Write
    <2>1. /\ cur \in Flows /\ tgt \in Target /\ tgt.device_id \in DeviceIds
          /\ datawriters[Entry] \in WriterQosOf
      BY WriterMatchesTarget DEF Target
    <2>2. OneOutdated'
      BY <2>1 DEF IInv, TypeOK, OneOutdated
    <2>3. stale' \in [Flows -> 0..2]
      BY <2>1 DEF IInv, TypeOK
    <2>4. TypeOK'
      BY <2>1, <2>3 DEF IInv, TypeOK, WorkerPlaces
    <2>5. LifeCycle' /\ InHand' /\ TableMatchesDds' /\ LeaksOnlyWithoutStaticArm'
      BY DEF IInv, LifeCycle, HasScope, InLoop, InHand, TableMatchesDds,
         LeaksOnlyWithoutStaticArm, ArmMissing
    <2> QED
      BY <2>2, <2>4, <2>5 DEF IInv
  <1>2. CASE WriteFails
    BY <1>2 DEF WriteFails, IInv, TypeOK, WorkerPlaces, LifeCycle, InHand,
       TableMatchesDds, LeaksOnlyWithoutStaticArm, ArmMissing, OneOutdated,
       HasScope, InLoop
  <1> QED
    BY <1>1, <1>2

(* reconcile removes whole entries. *)
LEMMA ReconcileInv == IInv /\ (Reconcile \/ SkipReconcile) => IInv'
  <1> SUFFICES ASSUME IInv, Reconcile \/ SkipReconcile PROVE IInv'
    OBVIOUS
  <1> USE DEF IInv, ownerVars, sharedVars, localVars, ctxVars, wireVars
  <1>1. CASE Reconcile
    <2> USE <1>1 DEF Reconcile
    <2>1. ActiveFormatters(plan) \subseteq Formatters
      BY FormatterType DEF ActiveFormatters
    <2>2. writers' \in [Formatters -> Qos \cup {NoWriter}]
      BY DEF TypeOK
    <2>3. datawriters' \in [Formatters -> WriterQosOf \cup {NoWriter}]
      BY DEF TypeOK
    <2>4. topics' \in SUBSET Formatters /\ last_active' \in SUBSET Formatters
      BY <2>1 DEF TypeOK
    <2>5. TypeOK'
      <3>1. /\ UNCHANGED <<ownerVars, sharedVars, localVars, participant, publisher,
                           leaked, wireVars>>
            /\ reordered' = FALSE /\ wpc' = "loop"
        OBVIOUS
      <3> HIDE <1>1 DEF Reconcile
      <3>2. wpc' \in WorkerPlaces /\ reordered' \in BOOLEAN
        BY <3>1 DEF WorkerPlaces
      <3> QED
        BY <3>1, <3>2, <2>2, <2>3, <2>4 DEF TypeOK
    <2>6. LifeCycle' /\ InHand' /\ LeaksOnlyWithoutStaticArm' /\ OneOutdated'
      BY DEF LifeCycle, HasScope, InLoop, InHand, LeaksOnlyWithoutStaticArm,
         ArmMissing, OneOutdated
    <2>7. TableMatchesDds'
      BY DEF TypeOK, TableMatchesDds
    <2> QED
      BY <2>5, <2>6, <2>7
  <1>2. CASE SkipReconcile
    <2> USE <1>2 DEF SkipReconcile
    <2>1. TypeOK'
      <3>1. /\ UNCHANGED <<ownerVars, sharedVars, localVars, ctxVars, last_active,
                           wireVars>>
            /\ reordered' = FALSE /\ wpc' = "loop"
        OBVIOUS
      <3> HIDE <1>2 DEF SkipReconcile
      <3>2. wpc' \in WorkerPlaces /\ reordered' \in BOOLEAN
        BY <3>1 DEF WorkerPlaces
      <3>3. (last_active \in SUBSET Formatters)'
        BY <3>1 DEF TypeOK
      <3> QED
        BY <3>1, <3>2, <3>3 DEF TypeOK
    <2>2. LifeCycle'
      BY DEF LifeCycle, HasScope, InLoop, Released, NoWriters
    <2>3. InHand' /\ TableMatchesDds' /\ LeaksOnlyWithoutStaticArm' /\ OneOutdated'
      BY DEF InHand, TableMatchesDds, LeaksOnlyWithoutStaticArm, ArmMissing,
         OneOutdated
    <2> QED
      BY <2>1, <2>2, <2>3
  <1> QED
    BY <1>1, <1>2

LEMMA StutterInv == IInv /\ UNCHANGED vars => IInv'
  BY DEF vars, IInv, TypeOK, LifeCycle, InHand, Entry, Released, NoWriters,
     TableMatchesDds, LeaksOnlyWithoutStaticArm, ArmMissing, OneOutdated,
     Outdated, ownerVars, sharedVars, localVars, ctxVars, allowVars, wireVars

LEMMA StepInv == IInv /\ [Next]_vars => IInv'
  <1> SUFFICES ASSUME IInv, [Next]_vars PROVE IInv'
    OBVIOUS
  <1>1. CASE Owner
    BY <1>1, OwnerInv, EnableInv, DisableInv DEF Owner
  <1>2. CASE Worker
    BY <1>2, SetUpInv, LoopInv, ConsumeInv, WriterInv, WriteInv, ReconcileInv,
       CleanupInv DEF Worker, PublishSentence
  <1>3. CASE Terminated \/ UNCHANGED vars
    BY <1>3, StutterInv DEF Terminated
  <1> QED
    BY <1>1, <1>2, <1>3 DEF Next

LEMMA Invariance == Spec => []IInv
  BY InitInv, StepInv, PTL DEF Spec

----------------------------------------------------------------------------
(* What follows from the invariant. *)

(* Every variable keeps its type. *)
THEOREM TypeCorrect == Spec => []TypeOK
  <1>1. IInv => TypeOK
    BY DEF IInv
  <1> QED
    BY <1>1, Invariance, PTL

(***************************************************************************)
(* The entry table of DdsCtx and the entities alive in DDS agree in every  *)
(* reachable state (Pipeline.cpp:84-139).                                  *)
(***************************************************************************)
THEOREM EntityTable == Spec => []TableMatchesDds
  <1>1. IInv => TableMatchesDds
    BY DEF IInv
  <1> QED
    BY <1>1, Invariance, PTL

(***************************************************************************)
(* No worker leaves entities behind, except through the return that skips  *)
(* the cleanup when the generated arm is missing (Pipeline.cpp:283-290).   *)
(***************************************************************************)
THEOREM LeakFreedom == Spec => []LeaksOnlyWithoutStaticArm
  <1>1. IInv => LeaksOnlyWithoutStaticArm
    BY DEF IInv
  <1> QED
    BY <1>1, Invariance, PTL

(* Whoever sees Running may use DDS and the effective_* values.            *)
THEOREM RunningReady == Spec => []RunningImpliesReady
  <1>1. IInv => RunningImpliesReady
    BY DEF IInv, LifeCycle, InLoop, HasScope, RunningImpliesReady
  <1> QED
    BY <1>1, Invariance, PTL

(***************************************************************************)
(* Once stop() returned nothing runs, what the pipeline borrows may be     *)
(* destroyed (Pipeline.cpp:184-187), and no entity of any worker is alive: *)
(* neither of the last one nor of an earlier one, unless the generated arm *)
(* is missing (283-290).                                                   *)
(***************************************************************************)
THEOREM Quiescence == Spec => []StoppedIsQuiescent
  <1>1. ASSUME IInv, ~joinable
        PROVE  wpc = "none" /\ state # "Running" /\ Held = {}
    BY <1>1 DEF IInv, LifeCycle, InLoop, Released, NoWriters, Held, Kinds
  <1>2. IInv => ArmMissing \/ leaked = {}
    BY DEF IInv, LeaksOnlyWithoutStaticArm, ArmMissing
  <1>3. IInv => StoppedIsQuiescent
    BY <1>1, <1>2 DEF StoppedIsQuiescent, NoEntities
  <1> QED
    BY <1>3, Invariance, PTL

(***************************************************************************)
(* However edits of the allowlist and the worker interleave, one sample of *)
(* a flow at most leaves with a target the operator already replaced.      *)
(***************************************************************************)
THEOREM StaleBound == Spec => []AtMostOneStaleSample
  <1>1. IInv => AtMostOneStaleSample
    BY DEF IInv, OneOutdated, AtMostOneStaleSample
  <1> QED
    BY <1>1, Invariance, PTL

----------------------------------------------------------------------------
(* Pipeline implements SelectivePublication. *)

LEMMA AllowedType ==
    ASSUME IInv
    PROVE  /\ Allowed \in [Flows -> Target \cup {NoTarget}]
           /\ cfg.selective => Allowed = plan
           /\ ~cfg.selective => \A flow \in Flows : Allowed[flow] = GlobalTarget
  BY PipelineAssumption DEF IInv, TypeOK, Allowed

(* A sentence in hand is a pending sample, and never mistaken for none. *)
LEMMA InFlightType ==
    ASSUME IInv, wpc \in {"writer", "write"}
    PROVE  /\ InFlight = [flow |-> cur, target |-> tgt]
           /\ InFlight # NoSample
           /\ InFlight.flow = cur /\ InFlight.target = tgt
           /\ cur \in Flows /\ tgt \in Target
  BY PipelineAssumption DEF IInv, InHand, InFlight

(* Steps that leave these alone are invisible above. *)
LEMMA InvisibleStep ==
    ASSUME UNCHANGED <<cfg, plan, wireVars>>, InFlight' = InFlight
    PROVE  UNCHANGED Abstract!vars
  BY DEF Abstract!vars, Allowed, wireVars

(* Giving up the sentence in hand, whatever the reason, drops its sample. *)
LEMMA GivingUpDrops ==
    ASSUME IInv, UNCHANGED <<cfg, plan, wireVars>>,
           wpc \in {"writer", "write"}, wpc' \notin {"writer", "write"}
    PROVE  Abstract!Drop
  <1>1. InFlight # NoSample
    BY InFlightType
  <1>2. InFlight' = NoSample
    BY DEF InFlight
  <1> QED
    BY <1>1, <1>2 DEF Abstract!Drop, Allowed, wireVars

(* Edits of the allowlist are edits of the promise. *)
LEMMA EditMaps ==
    ASSUME IInv, NEW flow \in Flows
    PROVE  /\ \A target \in Targets : Enable(flow, target) => Abstract!Edit(flow, target)
           /\ Disable(flow) => Abstract!Edit(flow, NoTarget)
  <1> USE DEF Abstract!Edit, Abstract!Add, Allowed, InFlight, ownerVars,
              sharedVars, localVars, ctxVars
  <1>1. ASSUME NEW target \in Targets, Enable(flow, target)
        PROVE  Abstract!Edit(flow, target)
    BY <1>1 DEF Enable, Add
  <1>2. ASSUME Disable(flow)
        PROVE  Abstract!Edit(flow, NoTarget)
    BY <1>2 DEF Disable, Remove
  <1> QED
    BY <1>1, <1>2

(* Resolving a sentence against the allowlist takes its sample. *)
LEMMA CompleteMaps ==
    ASSUME IInv, NEW flow \in Flows, Complete(flow)
    PROVE  Abstract!Take(flow) \/ UNCHANGED Abstract!vars
  <1> USE DEF Complete, ownerVars, ctxVars, allowVars
  <1>1. CASE ~Publishes(flow)
    BY <1>1, InvisibleStep DEF InFlight
  <1>2. CASE Publishes(flow)
    <2>1. InFlight = NoSample
      BY DEF InFlight
    <2>2. Allowed[flow] = TargetFor(flow)
      BY AllowedType DEF TargetFor, Resolve
    <2>3. Allowed[flow] # NoTarget
      BY <1>2, AllowedType, PipelineAssumption, PlanAssumption
         DEF Publishes, Contains
    <2>4. InFlight' = [flow |-> flow, target |-> Allowed[flow]]
      BY <1>2, <2>2 DEF InFlight
    <2>5. UNCHANGED <<Allowed, wire, stale>>
      BY DEF Allowed, wireVars
    <2> QED
      BY <2>1, <2>3, <2>4, <2>5 DEF Abstract!Take, Abstract!Contains,
         Abstract!Resolve
  <1> QED
    BY <1>1, <1>2

(***************************************************************************)
(* write() emits the sample in flight: the DataWriter it goes through has  *)
(* the QoS of the target resolved, by the entry table.                     *)
(***************************************************************************)
LEMMA WriteMaps ==
    ASSUME IInv, Write
    PROVE  Abstract!Emit
  <1> USE DEF Write, NextSentence, ownerVars, sharedVars, ctxVars, allowVars
  <1>1. /\ InFlight # NoSample
        /\ InFlight.flow = cur /\ InFlight.target = tgt
        /\ cur \in Flows /\ tgt \in Target
    BY InFlightType
  <1>2. InFlight' = NoSample
    BY DEF InFlight
  <1>3. wire' = Abstract!SampleOf(InFlight)
    BY <1>1, WriterMatchesTarget
       DEF Abstract!SampleOf, Abstract!BuildWriterQos, BuildWriterQos,
           Abstract!Infinite, Infinite
  <1>4. Abstract!Outdated(InFlight) <=> Outdated
    <2>1. CASE cfg.selective
      BY <1>1, <2>1, AllowedType
         DEF Abstract!Outdated, Abstract!Resolve, Outdated, Resolve
    <2>2. CASE ~cfg.selective
      <3>1. tgt = GlobalTarget
        BY <2>2 DEF IInv, InHand
      <3> QED
        BY <1>1, <2>2, <3>1, AllowedType DEF Abstract!Outdated, Abstract!Resolve,
           Outdated
    <2> QED
      BY <2>1, <2>2
  <1>5. Allowed' = Allowed
    BY DEF Allowed
  <1> QED
    BY <1>1, <1>2, <1>3, <1>4, <1>5 DEF Abstract!Emit

(* Everything else the owner and the worker do is invisible or drops. *)
LEMMA OwnerMaps ==
    ASSUME IInv, Owner
    PROVE  Abstract!Next \/ UNCHANGED Abstract!vars
  <1> USE DEF ownerVars, sharedVars, localVars, ctxVars, allowVars
  <1>1. CASE Start
    BY <1>1, InvisibleStep DEF Start, FirstPlace, InFlight, IInv, LifeCycle
  <1>2. CASE StartTerminates
    <2>1. UNCHANGED <<cfg, plan, wireVars>> /\ wpc' = "none"
      BY <1>2 DEF StartTerminates
    <2>2. CASE wpc \in {"writer", "write"}
      BY <2>1, <2>2, GivingUpDrops DEF Abstract!Next
    <2>3. CASE wpc \notin {"writer", "write"}
      BY <2>1, <2>3, InvisibleStep DEF InFlight
    <2> QED
      BY <2>2, <2>3
  <1>3. CASE Stop
    BY <1>3, InvisibleStep DEF Stop, InFlight
  <1>4. CASE Join
    BY <1>4, InvisibleStep DEF Join, InFlight
  <1>5. ASSUME NEW flow \in Flows,
               Disable(flow) \/ \E target \in Targets : Enable(flow, target)
        PROVE  Abstract!Next
    BY <1>5, EditMaps, PipelineAssumption DEF Abstract!Next, Abstract!Target, Target
  <1> QED
    BY <1>1, <1>2, <1>3, <1>4, <1>5 DEF Owner

LEMMA WorkerMaps ==
    ASSUME IInv, Worker
    PROVE  Abstract!Next \/ UNCHANGED Abstract!vars
  <1> USE DEF ownerVars, sharedVars, localVars, ctxVars, allowVars
  <1>1. CASE SetUp
    BY <1>1, InvisibleStep DEF SetUp, CreateParticipant, ParticipantFails,
       CreatePublisher, PublisherFails, StaticArmMissing, Ready, LeaveScope,
       InFlight
  <1>2. CASE \/ CheckStop \/ SourceFails \/ \E n \in 0..MaxChunk : Read(n)
             \/ Reconcile \/ SkipReconcile \/ Cleanup
    BY <1>2, InvisibleStep DEF CheckStop, SourceFails, Read, Reconcile,
       SkipReconcile, Cleanup, LeaveScope, InFlight
  <1>3. CASE Consume
    <2>1. CASE BadChecksum
      BY <2>1, InvisibleStep DEF BadChecksum, InFlight
    <2>2. ASSUME NEW flow \in Flows, Complete(flow)
          PROVE  Abstract!Next \/ UNCHANGED Abstract!vars
      BY <2>2, CompleteMaps DEF Abstract!Next
    <2> QED
      BY <1>3, <2>1, <2>2 DEF Consume
  <1>4. CASE ReuseWriter \/ CreateWriter
    BY <1>4, InvisibleStep DEF ReuseWriter, CreateWriter, InFlight
  <1>5. CASE WriterFails \/ WriteFails
    BY <1>5, GivingUpDrops DEF WriterFails, WriteFails, NextSentence, Abstract!Next
  <1>6. CASE Write
    BY <1>6, WriteMaps DEF Abstract!Next
  <1> QED
    BY <1>1, <1>2, <1>3, <1>4, <1>5, <1>6 DEF Worker, PublishSentence

(***************************************************************************)
(* Every behaviour of the pipeline is one SelectivePublication allows: a   *)
(* sample carries the device_id and the QoS of one target the allowlist    *)
(* held for its flow, whatever happens to writers and threads meanwhile.   *)
(***************************************************************************)
THEOREM Refinement == Spec => RefinesSelectivePublication
  <1>1. Init => Abstract!Init
    <2> SUFFICES ASSUME Init PROVE Abstract!Init
      OBVIOUS
    <2>1. Allowed \in Abstract!Plans
      BY InitInv, AllowedType DEF Abstract!Plans, Abstract!Target, Target
    <2> QED
      BY <2>1 DEF Init, Abstract!Init, InFlight
  <1>2. IInv /\ [Next]_vars => [Abstract!Next]_(Abstract!vars)
    <2> SUFFICES ASSUME IInv, [Next]_vars
                 PROVE  Abstract!Next \/ UNCHANGED Abstract!vars
      OBVIOUS
    <2>1. CASE Terminated \/ UNCHANGED vars
      BY <2>1, InvisibleStep
         DEF Terminated, vars, ownerVars, localVars, InFlight
    <2> QED
      BY <2>1, OwnerMaps, WorkerMaps DEF Next
  <1> QED
    BY <1>1, <1>2, Invariance, PTL DEF Spec, RefinesSelectivePublication,
       Abstract!Spec
=============================================================================
