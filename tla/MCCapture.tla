----------------------------- MODULE MCCapture -----------------------------
(***************************************************************************)
(* Three candidates; a device with the speed of the middle one or of none. *)
(***************************************************************************)
EXTENDS Capture

MCCandidates   == <<4800, 9600, 38400>>
MCDeviceSpeeds == {9600, 19200}
=============================================================================
