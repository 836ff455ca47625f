--------------------------- MODULE MCConvertDesk ---------------------------
(***************************************************************************)
(* A flow for each ROS message, the second without a talker, and one that  *)
(* has none; one id the operator types, and the cleared edit.              *)
(***************************************************************************)
EXTENDS ConvertDesk

MCFlows    == {<<"GP", "GGA">>, <<"", "VNYPR">>, <<"RA", "TTM">>}
MCCategory == [f \in MCFlows |-> CASE f[2] = "GGA" -> "GPS"
                                   [] f[2] = "VNYPR" -> "Inertial"
                                   [] OTHER -> "Radar"]
MCQosEdits == {Qos(TRUE, FALSE, 500, 0)}
MCTyped    == {<<>>, <<"gps_proa">>}
=============================================================================
