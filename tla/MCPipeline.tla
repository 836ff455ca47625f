----------------------------- MODULE MCPipeline -----------------------------
(***************************************************************************)
(* Instances of Pipeline for TLC: two talkers that share a formatter, a    *)
(* second formatter, and unknown addresses; two targets that differ in the *)
(* device and in the last field of the QoS only.                           *)
(***************************************************************************)
EXTENDS Pipeline, TLC

CONSTANTS GP, GN, II, Unknown     \* talkers; Unknown is the empty one

MCTalkers    == {GP, GN, II, Unknown}
MCFormatters == {"GGA", "DBT", "raw"}
MCRaw        == "raw"
MCFlows      == {<<GP, "GGA">>, <<GN, "GGA">>, <<II, "DBT">>, <<Unknown, "raw">>}

(* For liveness: one flow for each formatter, and one target. *)
MCFewFlows   == {<<GP, "GGA">>, <<II, "DBT">>}
MCFewTargets == {[device_id |-> "gps_bow", qos |-> [reliable |-> TRUE,
                  transient_local |-> TRUE, deadline_ms |-> 0, lifespan_ms |-> 0]]}

(* The two talkers of GGA are interchangeable. *)
MCSymmetry == Permutations({GP, GN})

LowRate  == [reliable |-> TRUE, transient_local |-> TRUE,
             deadline_ms |-> 0, lifespan_ms |-> 0]
HighRate == [reliable |-> TRUE, transient_local |-> TRUE,
             deadline_ms |-> 0, lifespan_ms |-> 500]

MCQos       == {LowRate, HighRate}
MCDeviceIds == {"gps_bow", "gps_stern"}
MCTargets   == {[device_id |-> "gps_bow",   qos |-> LowRate],
                [device_id |-> "gps_stern", qos |-> HighRate]}
MCGlobal    == [device_id |-> "gps_bow", qos |-> LowRate]
MCCampaign  == {"GGA"}

Dynamic(publish, selective) ==
    [publish |-> publish, selective |-> selective, static |-> FALSE, static_arm |-> FALSE]
Static(selective, built) ==
    [publish |-> TRUE, selective |-> selective, static |-> TRUE, static_arm |-> built]

(* What GatewayController runs, the measurement driver, and preview. *)
MCConfigs == {Dynamic(TRUE, TRUE), Dynamic(TRUE, FALSE), Dynamic(FALSE, FALSE),
              Static(FALSE, TRUE), Static(FALSE, FALSE)}
MCSelective == {Dynamic(TRUE, TRUE)}
=============================================================================
