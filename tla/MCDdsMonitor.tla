---------------------------- MODULE MCDdsMonitor ----------------------------
(***************************************************************************)
(* Two domains.  In the first a writer and a reader of one topic, in the   *)
(* second a writer of the same topic and one of a topic of another system. *)
(***************************************************************************)
EXTENDS DdsMonitor, TLC

MCDomains   == 0..1
MCTopics    == {"gps_GGA", "chatter"}
MCTypes     == {"NmeaGGA", "String"}
MCReadable  == {"NmeaGGA"}
MCEndpoints == {"w0", "r0", "w1", "f1"}
MCDomainOf  == ("w0" :> 0) @@ ("r0" :> 0) @@ ("w1" :> 1) @@ ("f1" :> 1)
MCKindOf    == [e \in MCEndpoints |-> IF e = "r0" THEN "reader" ELSE "writer"]
MCTopicOf   == [e \in MCEndpoints |-> IF e = "f1" THEN "chatter" ELSE "gps_GGA"]
MCTypeOf    == [e \in MCEndpoints |-> IF e = "f1" THEN "String" ELSE "NmeaGGA"]
=============================================================================
