---------------------------- MODULE PublishPlan ----------------------------
(***************************************************************************)
(* The allowlist of converted flows (pipeline/PublishPlan.hpp, .cpp).      *)
(*                                                                         *)
(* A flow is a <<talker, formatter>> pair.  The table maps each flow to    *)
(* the target it is published with, or to NoTarget when it is not enabled. *)
(* Every operation runs under one mutex (PublishPlan.cpp:9, 15, 21, 29,    *)
(* 34), so each is one indivisible operator on the table.                  *)
(***************************************************************************)
EXTENDS Integers, FiniteSets

CONSTANTS
    Talkers,     \* talker identifiers, "GP", "II", ...
    Formatters,  \* sentence formatters, and Raw
    Raw,         \* the empty formatter Mapper::resolve gives an unknown address
    Flows,       \* the <<talker, formatter>> pairs that occur
    Qos,         \* the QosSettings values in use
    DeviceIds,   \* the device_id values in use
    NoTarget     \* std::nullopt

(* Pipeline::QosSettings: a period of 0 stands for "infinite". *)
QosSettings == [reliable        : BOOLEAN,
                transient_local : BOOLEAN,
                deadline_ms     : Int,
                lifespan_ms     : Int]

(* PublishPlan::Target. *)
Target == [device_id : DeviceIds, qos : Qos]

ASSUME PlanAssumption ==
    /\ Flows \subseteq Talkers \X Formatters
    /\ Raw \in Formatters
    /\ Qos \subseteq QosSettings
    /\ NoTarget \notin Target

Talker(flow)    == flow[1]
Formatter(flow) == flow[2]

(* Every table the five operations can build. *)
Plans == [Flows -> Target \cup {NoTarget}]

EmptyPlan == [flow \in Flows |-> NoTarget]

(* add: enable the flow, replacing the target it had. *)
Add(plan, flow, target) == [plan EXCEPT ![flow] = target]

(* remove: disable the flow, no-op when it was not enabled. *)
Remove(plan, flow) == [plan EXCEPT ![flow] = NoTarget]

(* resolve: a copy of the target, NoTarget when the flow is not enabled. *)
Resolve(plan, flow) == plan[flow]

Contains(plan, flow) == plan[flow] # NoTarget

(***************************************************************************)
(* active_formatters returns a vector without duplicates, in the iteration *)
(* order of an unordered_map.  Its elements are this set; its order, which *)
(* the language leaves open, is accounted for where two vectors are        *)
(* compared (MayDiffer in Pipeline).                                       *)
(***************************************************************************)
ActiveFormatters(plan) ==
    {Formatter(flow) : flow \in {g \in Flows : Contains(plan, g)}}
=============================================================================
