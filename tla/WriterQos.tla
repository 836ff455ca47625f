----------------------------- MODULE WriterQos -----------------------------
(***************************************************************************)
(* How a neutral QosSettings profile becomes the QoS of a DDS DataWriter,  *)
(* and when two profiles count as the same (DdsCtx in Pipeline.cpp).       *)
(***************************************************************************)
EXTENDS PublishPlan

Infinite == -1     \* a period the writer QoS leaves at its infinite default

(* build_writer_qos: only a positive period is set. *)
BuildWriterQos(q) ==
    [reliability |-> IF q.reliable THEN "RELIABLE" ELSE "BEST_EFFORT",
     durability  |-> IF q.transient_local THEN "TRANSIENT_LOCAL" ELSE "VOLATILE",
     deadline    |-> IF q.deadline_ms > 0 THEN q.deadline_ms ELSE Infinite,
     lifespan    |-> IF q.lifespan_ms > 0 THEN q.lifespan_ms ELSE Infinite]

WriterQosOf == {BuildWriterQos(q) : q \in Qos}

(* The comparison of get_or_create without its last conjunct. *)
SameQosButLifespan(c, q) ==
    /\ c.reliable = q.reliable
    /\ c.transient_local = q.transient_local
    /\ c.deadline_ms = q.deadline_ms

(* `same` in get_or_create: field by field. *)
SameQos(c, q) ==
    /\ c.reliable = q.reliable
    /\ c.transient_local = q.transient_local
    /\ c.deadline_ms = q.deadline_ms
    /\ c.lifespan_ms = q.lifespan_ms
=============================================================================
