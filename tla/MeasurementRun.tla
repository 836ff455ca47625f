--------------------------- MODULE MeasurementRun ---------------------------
(***************************************************************************)
(* One measurement run (tools/measurement_run.cpp): the generator thread   *)
(* that offers sentences to a UDP socket, the worker of the pipeline that  *)
(* publishes them and records each in the probe                            *)
(* (instrument/PublishProbe.hpp), and the main thread that opens and       *)
(* closes the measurement window between them.                             *)
(*                                                                         *)
(* The probe is a plain vector shared by two threads.  A clear() that      *)
(* falls inside a record() is a data race; of its outcomes the model has   *)
(* the two that come from the end pointer being read before and written    *)
(* after: the append counts from zero, or brings all samples back.         *)
(* Latencies, sequence numbers and the contents of the files are left out. *)
(***************************************************************************)
EXTENDS Integers

CONSTANTS
    SocketRoom,   \* datagrams the kernel holds; more are lost
    Capacity,     \* of the probe
    MaxSent       \* bound: sentences the generator sends

ASSUME MeasurementAssumption == SocketRoom \in Nat /\ Capacity \in Nat /\ MaxSent \in Nat

VARIABLES
    main,         \* where main() stands
    exit,         \* the code it returns, once decided
    gen,          \* the generator: "none", "send", "count", "ended", "joined"
    stop_gen,
    offered,
    sent,         \* history: bounds the run
    socket,       \* datagrams waiting
    worker,       \* "none", "read", "publish", "append", "ended", "joined"
    pipe_stop,    \* Pipeline::stop_
    size,         \* probe.size()
    begun,        \* the end of the vector as record() read it
    dropped,      \* dropped_
    offered_at_open, measured, offered_in_window,
    in_flight,    \* history: counted or not, sent and not recorded at the opening
    raced         \* history: clear() fell inside a record()

genVars    == <<gen, stop_gen, offered, sent>>
workerVars == <<worker, pipe_stop, begun>>
windowVars == <<offered_at_open, measured, offered_in_window, in_flight>>
vars == <<main, exit, genVars, socket, workerVars, size, dropped, windowVars, raced>>

MainPlaces == {"start", "started", "settle", "open", "clear", "window", "close",
               "stop_gen", "join_gen", "dump", "stop_pipe", "join_pipe", "returned"}

TypeOK ==
    /\ main \in MainPlaces /\ exit \in {-1, 0, 1, 3, 4}
    /\ gen \in {"none", "send", "count", "ended", "joined"}
    /\ sent \in 0..MaxSent /\ offered \in 0..sent
    /\ socket \in 0..SocketRoom
    /\ worker \in {"none", "read", "publish", "append", "ended", "joined"}
    /\ size \in 0..Capacity /\ begun \in 0..Capacity /\ dropped \in Nat
    /\ offered_at_open \in 0..sent /\ offered_in_window \in 0..sent
    /\ measured \in 0..Capacity
    /\ in_flight \in Nat

Init ==
    /\ main = "start" /\ exit = -1
    /\ gen = "none" /\ stop_gen = FALSE /\ offered = 0 /\ sent = 0
    /\ socket = 0
    /\ worker = "none" /\ pipe_stop = FALSE
    /\ size = 0 /\ begun = 0 /\ dropped = 0
    /\ offered_at_open = 0 /\ measured = 0 /\ offered_in_window = 0
    /\ in_flight = 0 /\ raced = FALSE

----------------------------------------------------------------------------
(* The generator. *)

(* while (!stop_gen) sendto(...): the datagram is queued or lost ... *)
Send ==
    /\ gen = "send" /\ ~stop_gen
    /\ sent < MaxSent
    /\ sent' = sent + 1
    /\ socket' = IF socket < SocketRoom THEN socket + 1 ELSE socket
    /\ gen' = "count"
    /\ UNCHANGED <<main, exit, stop_gen, offered, workerVars, size, dropped,
                   windowVars, raced>>

(* ... and counted after it was sent. *)
Count ==
    /\ gen = "count"
    /\ offered' = offered + 1
    /\ gen' = "send"
    /\ UNCHANGED <<main, exit, stop_gen, sent, socket, workerVars, size, dropped,
                   windowVars, raced>>

GeneratorEnds ==
    /\ gen = "send" /\ stop_gen
    /\ gen' = "ended"
    /\ UNCHANGED <<main, exit, stop_gen, offered, sent, socket, workerVars, size,
                   dropped, windowVars, raced>>

----------------------------------------------------------------------------
(* The worker. *)

(* A datagram is read, and its sentence is complete. *)
Receive ==
    /\ worker = "read" /\ ~pipe_stop
    /\ socket > 0
    /\ socket' = socket - 1
    /\ worker' = "publish"
    /\ UNCHANGED <<main, exit, genVars, pipe_stop, begun, size, dropped, windowVars, raced>>

(* After write(), whatever it returned, record() looks for room ... *)
RecordBegins ==
    /\ worker = "publish"
    /\ IF size >= Capacity
       THEN dropped' = dropped + 1 /\ worker' = "read" /\ UNCHANGED begun
       ELSE begun' = size /\ worker' = "append" /\ UNCHANGED dropped
    /\ UNCHANGED <<main, exit, genVars, socket, pipe_stop, size, windowVars, raced>>

(* ... and appends the sample to the vector as it was, or as it is. *)
RecordEnds ==
    /\ worker = "append"
    /\ size' \in {begun + 1, size + 1}
    /\ worker' = "read"
    /\ begun' = 0
    /\ UNCHANGED <<main, exit, genVars, socket, pipe_stop, dropped, windowVars, raced>>

(* The socket fails: the worker ends in Error, and main() does not notice. *)
SourceFails ==
    /\ worker = "read" /\ ~pipe_stop
    /\ worker' = "ended"
    /\ UNCHANGED <<main, exit, genVars, socket, pipe_stop, begun, size, dropped,
                   windowVars, raced>>

WorkerEnds ==
    /\ worker = "read" /\ pipe_stop
    /\ worker' = "ended"
    /\ UNCHANGED <<main, exit, genVars, socket, pipe_stop, begun, size, dropped,
                   windowVars, raced>>

----------------------------------------------------------------------------
(* The main thread. *)

(* pipe.start(), and 1.5 s later the pipeline is not in Error ... *)
StartPipeline ==
    /\ main = "start"
    /\ main' = "started"
    /\ worker' = "read"
    /\ UNCHANGED <<exit, genVars, socket, pipe_stop, begun, size, dropped, windowVars, raced>>

(* ... or it is: main returns, and the destructor joins the worker. *)
StartFails ==
    /\ main = "start"
    /\ main' = "join_pipe" /\ exit' = 1
    /\ worker' = "ended" /\ pipe_stop' = TRUE
    /\ UNCHANGED <<genVars, socket, begun, size, dropped, windowVars, raced>>

StartGenerator ==
    /\ main = "started"
    /\ main' = "settle"
    /\ gen' = "send"
    /\ UNCHANGED <<exit, stop_gen, offered, sent, socket, workerVars, size, dropped,
                   windowVars, raced>>

(* Variant: the error path forgets the generator. *)
SettleFailsUnjoined ==
    /\ main = "settle"
    /\ main' = "stop_pipe" /\ exit' = 3
    /\ UNCHANGED <<genVars, socket, workerVars, size, dropped, windowVars, raced>>

(* The settling time is over and warmup.csv is written, or cannot be. *)
Settle ==
    /\ main = "settle"
    /\ main' = "open"
    /\ UNCHANGED <<exit, genVars, socket, workerVars, size, dropped, windowVars, raced>>

SettleFails ==
    /\ main = "settle"
    /\ main' = "join_gen" /\ exit' = 3
    /\ stop_gen' = TRUE
    /\ UNCHANGED <<gen, offered, sent, socket, workerVars, size, dropped, windowVars, raced>>

InHand == IF worker \in {"publish", "append"} THEN 1 ELSE 0

(* offered_at_open = offered.load() *)
Open ==
    /\ main = "open"
    /\ main' = "clear"
    /\ offered_at_open' = offered
    /\ in_flight' = socket + InHand
    /\ UNCHANGED <<exit, genVars, socket, workerVars, size, dropped, measured,
                   offered_in_window, raced>>

(* Variant: the counters of the probe are cleared and the samples are not. *)
ClearCounters ==
    /\ main = "clear"
    /\ main' = "window"
    /\ dropped' = 0
    /\ raced' = (worker = "append")
    /\ UNCHANGED <<exit, genVars, socket, workerVars, size, windowVars>>

(* probe.clear() *)
Clear ==
    /\ main = "clear"
    /\ main' = "window"
    /\ size' = 0 /\ dropped' = 0
    /\ raced' = (worker = "append")
    /\ UNCHANGED <<exit, genVars, socket, workerVars, windowVars>>

(* measured = probe.size() ... *)
CloseOnProbe ==
    /\ main = "window"
    /\ main' = "close"
    /\ measured' = size
    /\ UNCHANGED <<exit, genVars, socket, workerVars, size, dropped, offered_at_open,
                   offered_in_window, in_flight, raced>>

(* ... then offered_in_window = offered.load() - offered_at_open. *)
CloseOnCounter ==
    /\ main = "close"
    /\ main' = "stop_gen"
    /\ offered_in_window' = offered - offered_at_open
    /\ UNCHANGED <<exit, genVars, socket, workerVars, size, dropped, offered_at_open,
                   measured, in_flight, raced>>

(* Variant: the generator is not told. *)
StopGeneratorLater ==
    /\ main = "stop_gen"
    /\ main' = "join_gen"
    /\ UNCHANGED <<exit, genVars, socket, workerVars, size, dropped, windowVars, raced>>

StopGenerator ==
    /\ main = "stop_gen"
    /\ main' = "join_gen"
    /\ stop_gen' = TRUE
    /\ UNCHANGED <<exit, gen, offered, sent, socket, workerVars, size, dropped,
                   windowVars, raced>>

JoinGenerator ==
    /\ main = "join_gen"
    /\ gen = "ended"
    /\ gen' = "joined"
    /\ main' = IF exit = 3 THEN "stop_pipe" ELSE "dump"
    /\ UNCHANGED <<exit, stop_gen, offered, sent, socket, workerVars, size, dropped,
                   windowVars, raced>>

(* latencies.csv is written, or cannot be. *)
Dump ==
    /\ main = "dump"
    /\ main' = "stop_pipe"
    /\ exit' \in {exit, 4}
    /\ UNCHANGED <<genVars, socket, workerVars, size, dropped, windowVars, raced>>

(* pipe.stop() *)
StopPipeline ==
    /\ main = "stop_pipe"
    /\ main' = "join_pipe"
    /\ pipe_stop' = TRUE
    /\ UNCHANGED <<exit, genVars, socket, worker, begun, size, dropped, windowVars, raced>>

Return ==
    /\ main = "join_pipe"
    /\ worker = "ended"
    /\ worker' = "joined"
    /\ main' = "returned"
    /\ exit' = IF exit # -1 THEN exit ELSE IF measured > 0 THEN 0 ELSE 1
    /\ UNCHANGED <<genVars, socket, pipe_stop, begun, size, dropped, windowVars, raced>>

----------------------------------------------------------------------------
Generator == Send \/ Count \/ GeneratorEnds
Worker    == Receive \/ RecordBegins \/ RecordEnds \/ WorkerEnds
Main      == \/ StartPipeline \/ StartFails \/ StartGenerator
             \/ Settle \/ SettleFails
             \/ Open \/ Clear \/ CloseOnProbe \/ CloseOnCounter
             \/ StopGenerator \/ JoinGenerator \/ Dump \/ StopPipeline \/ Return

Returned == main = "returned" /\ UNCHANGED vars

Next == Generator \/ Worker \/ SourceFails \/ Main \/ Returned

Spec == Init /\ [][Next]_vars

(* Three threads the system schedules; the sleeps and the reads time out. *)
FairSpec == Spec /\ WF_vars(Generator) /\ WF_vars(Worker) /\ WF_vars(Main)

----------------------------------------------------------------------------
Closed == main \in {"stop_gen", "join_gen", "dump", "stop_pipe", "join_pipe", "returned"}
          /\ exit \notin {1, 3}

(***************************************************************************)
(* What the window counts as published beyond what it counts as offered is *)
(* no more than what was on its way when it opened, and one sentence the   *)
(* generator had sent and not yet counted when it closed: unless clear()   *)
(* fell inside a record() (measurement_run.cpp:371-382).                   *)
(***************************************************************************)
ExcessIsInFlight ==
    Closed /\ ~raced => measured <= offered_in_window + in_flight + 1

(***************************************************************************)
(* However main() returns, the generator and the worker have been joined:  *)
(* "sin esto el destructor de un hilo joinable aborta"                     *)
(* (measurement_run.cpp:352), and the worker uses a probe on its stack.    *)
(***************************************************************************)
ReturnsJoined ==
    main = "returned" => gen \in {"none", "joined"} /\ worker = "joined"

(* A run ends, on every path through the files it may fail to write. *)
RunEnds == <>(main = "returned")

=============================================================================
