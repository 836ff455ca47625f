------------------------- MODULE MeasurementProofs -------------------------
(***************************************************************************)
(* Theorems about MeasurementRun, for any room of the socket, any capacity *)
(* of the probe and any number of sentences sent.                          *)
(***************************************************************************)
EXTENDS MeasurementRun, TLAPS

(* An append under way had room, and clear() only makes more.              *)
HasRoom == worker = "append" => begun < Capacity /\ size <= begun

(* What the generator has sent and not counted yet. *)
Counted ==
    /\ sent = offered + (IF gen = "count" THEN 1 ELSE 0)
    /\ main \in {"start", "started"} => gen = "none"

(* The counter at the opening is not ahead of the counter.                 *)
OpenedBefore == offered_at_open <= offered

Sound == TypeOK /\ HasRoom /\ Counted /\ OpenedBefore

LEMMA SoundStep ==
  ASSUME Sound, [Next]_vars
  PROVE  Sound'
<1> USE DEF MeasurementAssumption, Sound, TypeOK, HasRoom, Counted, OpenedBefore, MainPlaces
<1>1. CASE Send
  BY <1>1, MeasurementAssumption DEF Send, workerVars, windowVars
<1>2. CASE Count
  BY <1>2, MeasurementAssumption DEF Count, workerVars, windowVars
<1>3. CASE GeneratorEnds
  BY <1>3, MeasurementAssumption DEF GeneratorEnds, workerVars, windowVars
<1>4. CASE Receive
  BY <1>4, MeasurementAssumption DEF Receive, genVars, windowVars
<1>5. CASE RecordBegins
  BY <1>5, MeasurementAssumption DEF RecordBegins, genVars, windowVars
<1>6. CASE RecordEnds
  BY <1>6, MeasurementAssumption DEF RecordEnds, genVars, windowVars
<1>7. CASE SourceFails
  BY <1>7, MeasurementAssumption DEF SourceFails, genVars, windowVars
<1>8. CASE WorkerEnds
  BY <1>8, MeasurementAssumption DEF WorkerEnds, genVars, windowVars
<1>9. CASE StartPipeline
  BY <1>9, MeasurementAssumption DEF StartPipeline, genVars, windowVars
<1>10. CASE StartFails
  BY <1>10, MeasurementAssumption DEF StartFails, genVars, windowVars
<1>11. CASE StartGenerator
  BY <1>11, MeasurementAssumption DEF StartGenerator, workerVars, windowVars
<1>12. CASE Settle
  BY <1>12, MeasurementAssumption DEF Settle, genVars, workerVars, windowVars
<1>13. CASE SettleFails
  BY <1>13, MeasurementAssumption DEF SettleFails, workerVars, windowVars
<1>14. CASE Open
  BY <1>14, MeasurementAssumption DEF Open, genVars, workerVars, InHand
<1>15. CASE Clear
  BY <1>15, MeasurementAssumption DEF Clear, genVars, workerVars, windowVars
<1>16. CASE CloseOnProbe
  BY <1>16, MeasurementAssumption DEF CloseOnProbe, genVars, workerVars
<1>17. CASE CloseOnCounter
  BY <1>17, MeasurementAssumption DEF CloseOnCounter, genVars, workerVars
<1>18. CASE StopGenerator
  BY <1>18, MeasurementAssumption DEF StopGenerator, workerVars, windowVars
<1>19. CASE JoinGenerator
  BY <1>19, MeasurementAssumption DEF JoinGenerator, workerVars, windowVars
<1>20. CASE Dump
  BY <1>20, MeasurementAssumption DEF Dump, genVars, workerVars, windowVars
<1>21. CASE StopPipeline
  BY <1>21, MeasurementAssumption DEF StopPipeline, genVars, windowVars
<1>22. CASE Return
  BY <1>22, MeasurementAssumption DEF Return, genVars, windowVars
<1>23. CASE UNCHANGED vars
  BY <1>23 DEF vars, genVars, workerVars, windowVars
<1> QED
  BY <1>1, <1>2, <1>3, <1>4, <1>5, <1>6, <1>7, <1>8, <1>9, <1>10, <1>11, <1>12, <1>13,
     <1>14, <1>15, <1>16, <1>17, <1>18, <1>19, <1>20, <1>21, <1>22, <1>23 DEF Next,
     Generator, Worker, Main, Returned

(* The samples never exceed the capacity and no counter runs negative:     *)
(* what was offered since the opening is a number, whenever it is read.    *)
THEOREM TypeCorrect == Spec => []TypeOK
<1>1. Init => Sound
  BY MeasurementAssumption
     DEF MeasurementAssumption, Init, Sound, TypeOK, HasRoom, Counted, OpenedBefore,
         MainPlaces
<1>2. Sound => TypeOK
  BY DEF Sound
<1> QED
  BY <1>1, <1>2, SoundStep, PTL DEF Spec

----------------------------------------------------------------------------

(* From the error path and the ordinary one alike, the generator is joined *)
(* before main() goes for the pipeline.                                    *)
Joins ==
    /\ main \in {"dump", "stop_pipe", "join_pipe", "returned"} => gen \in {"none", "joined"}
    /\ main = "returned" => worker = "joined"

LEMMA JoinsStep ==
  ASSUME Sound, Joins, [Next]_vars
  PROVE  Joins'
<1> USE DEF Sound, Counted, Joins
<1>1. CASE Send
  BY <1>1 DEF Send, workerVars, windowVars
<1>2. CASE Count
  BY <1>2 DEF Count, workerVars, windowVars
<1>3. CASE GeneratorEnds
  BY <1>3 DEF GeneratorEnds, workerVars, windowVars
<1>4. CASE Receive
  BY <1>4 DEF Receive, genVars, windowVars
<1>5. CASE RecordBegins
  BY <1>5 DEF RecordBegins, genVars, windowVars
<1>6. CASE RecordEnds
  BY <1>6 DEF RecordEnds, genVars, windowVars
<1>7. CASE SourceFails
  BY <1>7 DEF SourceFails, genVars, windowVars
<1>8. CASE WorkerEnds
  BY <1>8 DEF WorkerEnds, genVars, windowVars
<1>9. CASE StartPipeline
  BY <1>9 DEF StartPipeline, genVars, windowVars
<1>10. CASE StartFails
  BY <1>10 DEF StartFails, genVars, windowVars
<1>11. CASE StartGenerator
  BY <1>11 DEF StartGenerator, workerVars, windowVars
<1>12. CASE Settle
  BY <1>12 DEF Settle, genVars, workerVars, windowVars
<1>13. CASE SettleFails
  BY <1>13 DEF SettleFails, workerVars, windowVars
<1>14. CASE Open
  BY <1>14 DEF Open, genVars, workerVars
<1>15. CASE Clear
  BY <1>15 DEF Clear, genVars, workerVars, windowVars
<1>16. CASE CloseOnProbe
  BY <1>16 DEF CloseOnProbe, genVars, workerVars
<1>17. CASE CloseOnCounter
  BY <1>17 DEF CloseOnCounter, genVars, workerVars
<1>18. CASE StopGenerator
  BY <1>18 DEF StopGenerator, workerVars, windowVars
<1>19. CASE JoinGenerator
  BY <1>19 DEF JoinGenerator, workerVars, windowVars
<1>20. CASE Dump
  BY <1>20 DEF Dump, genVars, workerVars, windowVars
<1>21. CASE StopPipeline
  BY <1>21 DEF StopPipeline, genVars, windowVars
<1>22. CASE Return
  BY <1>22 DEF Return, genVars, windowVars
<1>23. CASE UNCHANGED vars
  BY <1>23 DEF vars, genVars, workerVars, windowVars
<1> QED
  BY <1>1, <1>2, <1>3, <1>4, <1>5, <1>6, <1>7, <1>8, <1>9, <1>10, <1>11, <1>12, <1>13,
     <1>14, <1>15, <1>16, <1>17, <1>18, <1>19, <1>20, <1>21, <1>22, <1>23 DEF Next,
     Generator, Worker, Main, Returned

(* However main() returns, both threads have been joined.                  *)
THEOREM JoinedAtReturn == Spec => []ReturnsJoined
<1>1. Init => Sound /\ Joins
  BY MeasurementAssumption
     DEF MeasurementAssumption, Init, Sound, TypeOK, HasRoom, Counted, OpenedBefore,
         MainPlaces, Joins
<1>2. Joins => ReturnsJoined
  BY DEF Joins, ReturnsJoined
<1> QED
  BY <1>1, <1>2, SoundStep, JoinsStep, PTL DEF Spec

----------------------------------------------------------------------------

(* What was sent since the opening, and one the generator may have had     *)
(* sent and not counted by then.                                           *)
SentSince == sent - offered_at_open

(* Every sentence is once in the socket, in hand or in the probe.          *)
Conserved ==
    /\ main = "clear" => socket + InHand <= in_flight + SentSince
    /\ main = "window" /\ ~raced => /\ size + socket + InHand <= in_flight + SentSince
                                    /\ worker = "append" => begun = size
    /\ main = "close" /\ ~raced => measured <= in_flight + SentSince
    /\ main \in {"start", "started", "settle", "open", "clear", "window", "close",
                "stop_gen", "dump"} => exit = -1
    /\ main = "join_gen" => exit \in {-1, 3}

LEMMA ConservedStep ==
  ASSUME Sound, Conserved, ExcessIsInFlight, [Next]_vars
  PROVE  Conserved' /\ ExcessIsInFlight'
<1> USE DEF Sound, TypeOK, Counted, OpenedBefore, Conserved, ExcessIsInFlight, Closed,
            SentSince, InHand
<1>1. CASE Send
  BY <1>1 DEF Send, workerVars, windowVars
<1>2. CASE Count
  BY <1>2 DEF Count, workerVars, windowVars
<1>3. CASE GeneratorEnds
  BY <1>3 DEF GeneratorEnds, workerVars, windowVars
<1>4. CASE Receive
  BY <1>4 DEF Receive, genVars, windowVars
<1>5. CASE RecordBegins
  BY <1>5 DEF RecordBegins, genVars, windowVars
<1>6. CASE RecordEnds
  <2>1. /\ worker = "append" /\ worker' = "read" /\ size' \in {begun + 1, size + 1}
        /\ UNCHANGED <<main, exit, sent, offered, offered_at_open, measured,
                       offered_in_window, in_flight, socket>>
    BY <1>6 DEF RecordEnds, genVars, windowVars
  <2>a. ~raced' => ~raced
    BY <1>6 DEF RecordEnds
  <2>2. CASE main = "window" /\ ~raced
    <3>1. size' = size + 1
      BY <2>1, <2>2
    <3> QED
      BY <2>1, <2>2, <2>a, <3>1
  <2>3. CASE ~(main = "window" /\ ~raced)
    <3>1. ~(main' = "window" /\ ~raced')
      BY <2>1, <2>3, <2>a
    <3>2. socket + InHand <= in_flight + SentSince => socket' + InHand' <= in_flight' + SentSince'
      BY <2>1
    <3>3. Conserved'
      BY <2>1, <2>a, <3>1, <3>2
    <3>4. ExcessIsInFlight'
      BY <2>1, <2>a
    <3> QED
      BY <3>3, <3>4
  <2> QED
    BY <2>2, <2>3
<1>7. CASE SourceFails
  BY <1>7 DEF SourceFails, genVars, windowVars
<1>8. CASE WorkerEnds
  BY <1>8 DEF WorkerEnds, genVars, windowVars
<1>9. CASE StartPipeline
  BY <1>9 DEF StartPipeline, genVars, windowVars
<1>10. CASE StartFails
  BY <1>10 DEF StartFails, genVars, windowVars
<1>11. CASE StartGenerator
  BY <1>11 DEF StartGenerator, workerVars, windowVars
<1>12. CASE Settle
  BY <1>12 DEF Settle, genVars, workerVars, windowVars
<1>13. CASE SettleFails
  BY <1>13 DEF SettleFails, workerVars, windowVars
<1>14. CASE Open
  BY <1>14 DEF Open, genVars, workerVars
<1>15. CASE Clear
  <2>1. ~raced' => worker # "append"
    BY <1>15 DEF Clear
  <2>2. /\ main = "clear" /\ main' = "window" /\ size' = 0
        /\ UNCHANGED <<sent, offered_at_open, in_flight, socket, worker, exit>>
    BY <1>15 DEF Clear, genVars, workerVars, windowVars
  <2> QED
    BY <2>1, <2>2
<1>16. CASE CloseOnProbe
  BY <1>16 DEF CloseOnProbe, genVars, workerVars
<1>17. CASE CloseOnCounter
  BY <1>17 DEF CloseOnCounter, genVars, workerVars
<1>18. CASE StopGenerator
  BY <1>18 DEF StopGenerator, workerVars, windowVars
<1>19. CASE JoinGenerator
  BY <1>19 DEF JoinGenerator, workerVars, windowVars
<1>20. CASE Dump
  BY <1>20 DEF Dump, genVars, workerVars, windowVars
<1>21. CASE StopPipeline
  BY <1>21 DEF StopPipeline, genVars, windowVars
<1>22. CASE Return
  BY <1>22 DEF Return, genVars, windowVars
<1>23. CASE UNCHANGED vars
  BY <1>23 DEF vars, genVars, workerVars, windowVars
<1> QED
  BY <1>1, <1>2, <1>3, <1>4, <1>5, <1>6, <1>7, <1>8, <1>9, <1>10, <1>11, <1>12, <1>13,
     <1>14, <1>15, <1>16, <1>17, <1>18, <1>19, <1>20, <1>21, <1>22, <1>23 DEF Next,
     Generator, Worker, Main, Returned

(***************************************************************************)
(* A sentence is neither duplicated nor made up between the socket and the *)
(* probe, so the probe holds no more than what was on its way and what was *)
(* sent since; the counter is at most one behind (measurement_run.cpp:     *)
(* 371-382).                                                               *)
(***************************************************************************)
THEOREM ExcessBounded == Spec => []ExcessIsInFlight
<1>1. Init => Sound /\ Conserved /\ ExcessIsInFlight
  BY MeasurementAssumption
     DEF MeasurementAssumption, Init, Sound, TypeOK, HasRoom, Counted, OpenedBefore,
         MainPlaces, Conserved, ExcessIsInFlight, Closed
<1> QED
  BY <1>1, SoundStep, ConservedStep, PTL DEF Spec
=============================================================================
