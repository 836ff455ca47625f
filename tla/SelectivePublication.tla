------------------------ MODULE SelectivePublication ------------------------
(***************************************************************************)
(* What a running conversion promises to whoever edits the allowlist and   *)
(* to whoever subscribes, with no writers, no chunks and no threads: a     *)
(* sample on the wire carries the target the allowlist held for its flow   *)
(* when the sample was taken, as one indivisible pair of device_id and     *)
(* QoS, and at most one sample is in flight at a time.  It follows that at *)
(* most one sample leaves with an outdated target after an edit.           *)
(***************************************************************************)
EXTENDS WriterQos

CONSTANT NoSample

VARIABLES
    plan,      \* the allowlist
    inflight,  \* the sample taken and not yet written, or NoSample
    wire,      \* the last sample written, or NoSample
    stale      \* per flow: samples written since its last edit with a target
               \* the allowlist no longer gave it

vars == <<plan, inflight, wire, stale>>

Pending == [flow : Flows, target : Target]
Sample  == [flow : Flows, device_id : DeviceIds, qos : WriterQosOf]

(* The sample a subscriber sees for a pending one. *)
SampleOf(p) == [flow      |-> p.flow,
                device_id |-> p.target.device_id,
                qos       |-> BuildWriterQos(p.target.qos)]

TypeOK ==
    /\ plan \in Plans
    /\ inflight \in Pending \cup {NoSample}
    /\ wire \in Sample \cup {NoSample}
    /\ stale \in [Flows -> 0..2]

Init ==
    /\ plan \in Plans
    /\ inflight = NoSample
    /\ wire = NoSample
    /\ stale = [flow \in Flows |-> 0]

(* The operator enables, disables or edits a flow. *)
Edit(flow, target) ==
    /\ plan' = Add(plan, flow, target)
    /\ stale' = [stale EXCEPT ![flow] = 0]
    /\ UNCHANGED <<inflight, wire>>

(* A sentence of an enabled flow arrives. *)
Take(flow) ==
    /\ inflight = NoSample
    /\ Contains(plan, flow)
    /\ inflight' = [flow |-> flow, target |-> Resolve(plan, flow)]
    /\ UNCHANGED <<plan, wire, stale>>

Outdated(p) == p.target # Resolve(plan, p.flow)

(* Its sample reaches the wire ... *)
Emit ==
    /\ inflight # NoSample
    /\ wire' = SampleOf(inflight)
    /\ stale' = IF Outdated(inflight)
                THEN [stale EXCEPT ![inflight.flow] = IF @ < 2 THEN @ + 1 ELSE @]
                ELSE stale
    /\ inflight' = NoSample
    /\ UNCHANGED plan

(* ... or DDS refuses it. *)
Drop ==
    /\ inflight # NoSample
    /\ inflight' = NoSample
    /\ UNCHANGED <<plan, wire, stale>>

Next ==
    \/ \E flow \in Flows, target \in Target \cup {NoTarget} : Edit(flow, target)
    \/ \E flow \in Flows : Take(flow)
    \/ Emit
    \/ Drop

Spec == Init /\ [][Next]_vars
=============================================================================
