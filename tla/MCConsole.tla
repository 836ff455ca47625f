----------------------------- MODULE MCConsole -----------------------------
(***************************************************************************)
(* Two sources that bring the same position sentence, as two receivers on  *)
(* one talker do, and one of them a depth sentence without a ROS type.     *)
(***************************************************************************)
EXTENDS Console, TLC

CONSTANTS serial, udp, bow, stern, fast, latched

MCSources   == {serial, udp}
MCFlows     == {"GPGGA", "IIDBT"}
MCRosFlows  == {"GPGGA"}
MCBrings    == {<<serial, "GPGGA">>, <<udp, "GPGGA">>, <<udp, "IIDBT">>}
MCDeviceIds == {bow, stern}
MCProfiles  == {fast, latched}

(* Names and profiles are interchangeable; the sources are not. *)
MCSymmetry  == Permutations({bow, stern}) \cup Permutations({fast, latched})
=============================================================================
