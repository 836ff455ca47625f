------------------------------ MODULE Capture ------------------------------
(***************************************************************************)
(* One source of bytes: its descriptor (capture/SerialSource.cpp,          *)
(* TcpSource.cpp, UdpSource.cpp), the worker that reads it and the console *)
(* that connects and disconnects it, and, for a serial port, the automatic *)
(* detection of its speed (capture/BaudDetector.cpp), which runs in a      *)
(* detached thread and opens the same port.                                *)
(*                                                                         *)
(* All three reads are a select() with a timeout and then a read that      *)
(* blocks.  A terminal has one speed and one queue of input, whoever has   *)
(* it open, and drops the queue when the last descriptor is closed.        *)
(*                                                                         *)
(* An item of the queue is the number of valid sentences it carries: a     *)
(* sentence on a stream (0 for what arrives at a wrong speed), a datagram  *)
(* on UDP.                                                                 *)
(***************************************************************************)
EXTENDS Integers, Sequences, FiniteSets

CONSTANTS
    Candidates,    \* speeds the detector tries, in order
    DeviceSpeeds,  \* speeds a device may have
    MinValid,      \* valid sentences that make a speed a result
    MaxRoom,       \* bound: items one read takes
    MaxRx,         \* bound: items waiting
    MaxValid,      \* bound: the count of a candidate goes no further
    MaxAddresses,  \* bound: addresses a host name resolves to
    NoResult

ASSUME CaptureAssumption ==
    /\ Candidates \in Seq(Nat \ {0}) /\ DeviceSpeeds \subseteq Nat \ {0}
    /\ MinValid \in Nat \ {0} /\ MaxRoom \in Nat \ {0}
    /\ MaxRx \in Nat /\ MaxValid \in Nat /\ MaxAddresses \in Nat
    /\ NoResult \notin Nat

VARIABLES
    kind,        \* "serial", "tcp" or "udp"
    device,      \* speed of the serial device
    alive,       \* the device is plugged in, the peer has not closed
    speed,       \* of the terminal
    rx,          \* items the kernel holds for the source
    descriptors, \* number of descriptors of the source open in the kernel
    worker,      \* of the pipeline: "none" while the source is not connected
    stop,        \* stop_ of the pipeline
    ui,          \* what the UI thread is doing
    left,        \* addresses TcpSource::connect has not tried
    det,         \* the detector: place, candidate, valid sentences
    due,         \* the sampling time of the candidate is over
    best,        \* best_baud and best_valid
    event,       \* the result queued for the UI thread
    button,      \* autodetect_btn_ is enabled
    counts,      \* history: valid sentences of each candidate
    disturbed    \* history: who had to share the terminal in its present use

kernelVars == <<kind, device, alive>>
detVars    == <<det, due, best, event, button, counts>>
connVars   == <<worker, stop, ui, left>>
vars == <<kernelVars, speed, rx, descriptors, connVars, detVars, disturbed>>

Index     == DOMAIN Candidates
Sampling  == det.pc \in {"check", "select", "read"}
Connected == worker # "none"
Both      == {"worker", "detector"}

NoDetection == [pc |-> "off", k |-> 1, valid |-> 0]
NoBest      == [baud |-> 0, valid |-> 0]
NoCounts    == [k \in Index |-> 0]

Init ==
    /\ kind \in {"serial", "tcp", "udp"} /\ device \in DeviceSpeeds
    /\ alive = TRUE /\ speed = 0 /\ rx = <<>> /\ descriptors = 0
    /\ worker = "none" /\ stop = FALSE /\ ui = "free" /\ left = 0
    /\ det = NoDetection /\ due = FALSE /\ best = NoBest
    /\ event = NoResult /\ button = TRUE
    /\ counts = NoCounts /\ disturbed = {}

----------------------------------------------------------------------------
(* The device, the peer and the kernel. *)

(* What an item is worth: on a terminal, a sentence only if it arrives at  *)
(* the speed of the device; UDP has datagrams of any number of sentences,  *)
(* an empty one included.                                                  *)
Arriving ==
    CASE kind = "serial" -> {IF speed = device THEN 1 ELSE 0}
      [] kind = "tcp"    -> {1}
      [] kind = "udp"    -> 0 .. MaxRoom + 1

(* Nothing says when the source pauses, if ever.                           *)
Arrive ==
    /\ alive /\ (Connected \/ Sampling)
    /\ Len(rx) < MaxRx
    /\ \E item \in Arriving : rx' = Append(rx, item)
    /\ UNCHANGED <<kernelVars, speed, descriptors, connVars, detVars, disturbed>>

(* The device is unplugged or the peer closes; UDP has no end.             *)
Gone ==
    /\ alive /\ kind # "udp" /\ alive' = FALSE
    /\ UNCHANGED <<kind, device, speed, rx, descriptors, connVars, detVars, disturbed>>

(* select() returns: input, or an end that is going to be read as one.     *)
Readable == rx # <<>> \/ ~alive

(* What one read may take: the beginning of a stream, one datagram.  The   *)
(* rest of a datagram that is longer than the buffer is gone.              *)
Takes(n) == n \in 1 .. IF kind = "udp" THEN 1 ELSE MaxRoom

(* close(): on the last descriptor the terminal forgets its input.         *)
CloseDescriptor ==
    /\ descriptors' = descriptors - 1
    /\ rx' = IF descriptors = 1 THEN <<>> ELSE rx

----------------------------------------------------------------------------
(* The console: connecting (GatewayController.cpp, open() and connect() of *)
(* the sources).                                                           *)

(* makeSource() gave an open source: its pipeline is made and started.     *)
Opened ==
    /\ descriptors' = descriptors + 1
    /\ worker' = "check" /\ stop' = FALSE
    /\ disturbed' = IF Sampling THEN Both ELSE disturbed \ {"worker"}

ConnectSerial(baud) ==
    /\ ui = "free" /\ ~Connected /\ kind = "serial" /\ alive
    /\ Opened /\ speed' = baud
    /\ UNCHANGED <<kernelVars, rx, ui, left, detVars>>

ConnectUdp ==
    /\ ui = "free" /\ ~Connected /\ kind = "udp"
    /\ Opened
    /\ UNCHANGED <<kernelVars, speed, rx, ui, left, detVars>>

(* tcgetattr() or tcsetattr() refuse the port, bind() the address.         *)
ConnectFails ==
    /\ ui = "free" /\ ~Connected /\ kind # "tcp"
    /\ descriptors' = descriptors + 1 /\ ui' = "undoing"
    /\ disturbed' = IF det.pc = "off" THEN disturbed ELSE disturbed \cup {"detector"}
    /\ UNCHANGED <<kernelVars, speed, rx, worker, stop, left, detVars>>

Undo ==
    /\ ui = "undoing" /\ ui' = "free"
    /\ CloseDescriptor
    /\ UNCHANGED <<kernelVars, speed, worker, stop, left, detVars, disturbed>>

(* Name resolution gives some addresses, or none when it fails.            *)
ConnectTcp ==
    /\ ui = "free" /\ ~Connected /\ kind = "tcp"
    /\ ui' = "connecting" /\ left' \in 0 .. MaxAddresses
    /\ UNCHANGED <<kernelVars, speed, rx, descriptors, worker, stop, detVars, disturbed>>

(* No socket for this address: the next one.                               *)
NoSocket ==
    /\ ui = "connecting" /\ left > 0 /\ left' = left - 1
    /\ UNCHANGED <<kernelVars, speed, rx, descriptors, worker, stop, ui, detVars, disturbed>>

Socket ==
    /\ ui = "connecting" /\ left > 0 /\ left' = left - 1
    /\ ui' = "waiting" /\ descriptors' = descriptors + 1
    /\ UNCHANGED <<kernelVars, speed, rx, worker, stop, detVars, disturbed>>

(* Variant: the socket of an address that refuses stays open. *)
RefusedOpen ==
    /\ ui = "waiting" /\ ui' = "connecting"
    /\ UNCHANGED <<kernelVars, speed, rx, descriptors, worker, stop, left, detVars, disturbed>>

(* Refused, failed, or no answer in time: this socket is closed.           *)
Refused ==
    /\ ui = "waiting" /\ ui' = "connecting"
    /\ CloseDescriptor
    /\ UNCHANGED <<kernelVars, speed, worker, stop, left, detVars, disturbed>>

Accepted ==
    /\ ui = "waiting" /\ ui' = "free" /\ left' = 0
    /\ alive' = TRUE /\ worker' = "check" /\ stop' = FALSE
    /\ UNCHANGED <<kind, device, speed, rx, descriptors, detVars, disturbed>>

NoAddressLeft ==
    /\ ui = "connecting" /\ left = 0 /\ ui' = "free"
    /\ UNCHANGED <<kernelVars, speed, rx, descriptors, worker, stop, left, detVars, disturbed>>

(* disconnectInterface(): raises the flag, joins the worker, destroys the  *)
(* pipeline and with it the source.                                        *)
Disconnect ==
    /\ ui = "free" /\ Connected
    /\ stop' = TRUE /\ ui' = "joining"
    /\ UNCHANGED <<kernelVars, speed, rx, descriptors, worker, left, detVars, disturbed>>

Join ==
    /\ ui = "joining" /\ worker \in {"stopped", "failed"}
    /\ worker' = "none" /\ stop' = FALSE /\ ui' = "free"
    /\ CloseDescriptor
    /\ UNCHANGED <<kernelVars, speed, left, detVars, disturbed>>

----------------------------------------------------------------------------
(* The worker, once its pipeline is set up. *)

WorkerOnly == UNCHANGED <<kernelVars, speed, descriptors, stop, ui, left, detVars, disturbed>>

(* Variant: the flag is only looked at when there was no input. *)
WorkerCheckWhenQuiet ==
    /\ worker = "check"
    /\ worker' = IF stop /\ rx = <<>> THEN "stopped" ELSE "select"
    /\ UNCHANGED rx /\ WorkerOnly

WorkerCheck ==
    /\ worker = "check"
    /\ worker' = IF stop THEN "stopped" ELSE "select"
    /\ UNCHANGED rx /\ WorkerOnly

WorkerSelect ==
    /\ worker = "select" /\ Readable
    /\ worker' = "read"
    /\ UNCHANGED rx /\ WorkerOnly

(* Variant: goes on to the read although select() reported nothing. *)
WorkerTimesOutReads ==
    /\ worker = "select" /\ ~Readable
    /\ worker' = "read"
    /\ UNCHANGED rx /\ WorkerOnly

(* 100 ms without input. *)
WorkerTimesOut ==
    /\ worker = "select" /\ ~Readable
    /\ worker' = "check"
    /\ UNCHANGED rx /\ WorkerOnly

(* Variant: an empty datagram is taken for the end of the source. *)
WorkerReadZeroIsEnd ==
    /\ worker = "read"
    /\ \E n \in 1 .. Len(rx) :
           /\ Takes(n) /\ rx' = SubSeq(rx, n + 1, Len(rx))
           /\ worker' = IF kind = "udp" /\ Head(rx) = 0 THEN "failed" ELSE "check"
    /\ WorkerOnly

(* The read waits until there is something to take. *)
WorkerRead ==
    /\ worker = "read"
    /\ \E n \in 1 .. Len(rx) : Takes(n) /\ rx' = SubSeq(rx, n + 1, Len(rx))
    /\ worker' = "check"
    /\ WorkerOnly

(* End of file or an error: the worker ends, its source stays open.        *)
WorkerEnds ==
    /\ worker = "read" /\ rx = <<>> /\ ~alive
    /\ worker' = "failed"
    /\ UNCHANGED rx /\ WorkerOnly

----------------------------------------------------------------------------
(* The detector (InterfacesPanel::onAutoDetect, BaudDetector::detect). *)

AutoDetect ==
    /\ kind = "serial" /\ ui = "free" /\ button
    /\ button' = FALSE
    /\ det' = [NoDetection EXCEPT !.pc = "open"]
    /\ disturbed' = disturbed \ {"detector"}
    /\ UNCHANGED <<kernelVars, speed, rx, descriptors, connVars, due, best, event, counts>>

(* Sets the speed of the terminal, whoever else uses it.                   *)
OpenCandidate ==
    /\ det.pc = "open" /\ det.k \in Index /\ alive
    /\ det' = [det EXCEPT !.pc = "check", !.valid = 0] /\ due' = FALSE
    /\ descriptors' = descriptors + 1 /\ speed' = Candidates[det.k]
    /\ disturbed' = IF Connected THEN Both ELSE disturbed
    /\ UNCHANGED <<kernelVars, rx, connVars, best, event, button, counts>>

SkipCandidate ==
    /\ det.pc = "open" /\ det.k \in Index
    /\ det' = [det EXCEPT !.k = @ + 1]
    /\ UNCHANGED <<kernelVars, speed, rx, descriptors, connVars, due, best, event,
                   button, counts, disturbed>>

DetectorOnly ==
    UNCHANGED <<kernelVars, speed, descriptors, connVars, due, best, event, button,
                counts, disturbed>>

WindowElapses ==
    /\ Sampling /\ ~due /\ due' = TRUE
    /\ UNCHANGED <<kernelVars, speed, rx, descriptors, connVars, det, best, event,
                   button, counts, disturbed>>

(* Variant: looks at the time only when no input is waiting. *)
DetectorCheckWhenQuiet ==
    /\ det.pc = "check" /\ (~due \/ rx # <<>>)
    /\ det' = [det EXCEPT !.pc = "select"]
    /\ UNCHANGED rx /\ DetectorOnly

DetectorCheck ==
    /\ det.pc = "check" /\ ~due
    /\ det' = [det EXCEPT !.pc = "select"]
    /\ UNCHANGED rx /\ DetectorOnly

DetectorSelect ==
    /\ det.pc = "select" /\ Readable
    /\ det' = [det EXCEPT !.pc = "read"]
    /\ UNCHANGED rx /\ DetectorOnly

(* What was left of the sampling time passed without input. *)
DetectorTimesOut ==
    /\ det.pc = "select" /\ ~Readable /\ due
    /\ det' = [det EXCEPT !.pc = "check"]
    /\ UNCHANGED rx /\ DetectorOnly

(* Variant: counts what arrived, not what had a right checksum. *)
ValidWhateverArrived(items) == Len(items)

(* The detector reads a serial port, where an item is a sentence or noise. *)
Valid(items) == Cardinality({k \in DOMAIN items : items[k] = 1})

Capped(n) == IF n > MaxValid THEN MaxValid ELSE n

DetectorRead ==
    /\ det.pc = "read"
    /\ \E n \in 1 .. Len(rx) :
           /\ Takes(n) /\ rx' = SubSeq(rx, n + 1, Len(rx))
           /\ det' = [det EXCEPT !.pc = "check",
                                 !.valid = Capped(@ + Valid(SubSeq(rx, 1, n)))]
    /\ DetectorOnly

(* Variant: of two equal candidates the later one wins. *)
BetterOrEqual(valid) == IF valid >= best.valid
                        THEN [baud |-> Candidates[det.k], valid |-> valid] ELSE best

Better(valid) == IF valid > best.valid
                 THEN [baud |-> Candidates[det.k], valid |-> valid] ELSE best

(* The time is over, or the port is gone: what was counted so far is       *)
(* compared, and the source of this candidate destroyed.                   *)
CloseCandidate ==
    /\ \/ det.pc = "check" /\ due
       \/ det.pc = "read" /\ rx = <<>> /\ ~alive
    /\ best' = Better(det.valid)
    /\ counts' = [counts EXCEPT ![det.k] = det.valid]
    /\ det' = [det EXCEPT !.pc = "open", !.k = @ + 1, !.valid = 0]
    /\ CloseDescriptor
    /\ UNCHANGED <<kernelVars, speed, connVars, due, event, button, disturbed>>

(* Variant: the button is back before the result was shown. *)
PostResultWithButton ==
    /\ det.pc = "open" /\ det.k \notin Index
    /\ event' = IF best.valid >= MinValid THEN best.baud ELSE 0
    /\ det' = [det EXCEPT !.pc = "off"] /\ button' = TRUE
    /\ UNCHANGED <<kernelVars, speed, rx, descriptors, connVars, due, best,
                   counts, disturbed>>

(* The result is queued for the UI thread. *)
PostResult ==
    /\ det.pc = "open" /\ det.k \notin Index
    /\ event' = IF best.valid >= MinValid THEN best.baud ELSE 0
    /\ det' = [det EXCEPT !.pc = "off"]
    /\ UNCHANGED <<kernelVars, speed, rx, descriptors, connVars, due, best, button,
                   counts, disturbed>>

(* The UI thread shows it, when it is free to serve its events.  Nothing   *)
(* else is left of the detection.                                          *)
Deliver ==
    /\ ui = "free" /\ event # NoResult
    /\ event' = NoResult /\ button' = TRUE
    /\ det' = NoDetection /\ best' = NoBest /\ counts' = NoCounts /\ due' = FALSE
    /\ UNCHANGED <<kernelVars, speed, rx, descriptors, connVars, disturbed>>

----------------------------------------------------------------------------

Operator == \/ \E k \in Index : ConnectSerial(Candidates[k])
            \/ ConnectUdp \/ ConnectTcp \/ ConnectFails \/ Disconnect \/ AutoDetect
Ui       == Undo \/ NoSocket \/ Socket \/ Refused \/ Accepted \/ NoAddressLeft
            \/ Join \/ Deliver
Worker   == WorkerCheck \/ WorkerSelect \/ WorkerTimesOut \/ WorkerRead \/ WorkerEnds
Detector == \/ OpenCandidate \/ SkipCandidate \/ DetectorCheck \/ DetectorSelect
            \/ DetectorTimesOut \/ DetectorRead \/ CloseCandidate \/ PostResult

Next == Operator \/ Ui \/ Worker \/ Detector \/ WindowElapses \/ Arrive \/ Gone

Spec == Init /\ [][Next]_vars

(* Threads are scheduled, time passes, the UI thread serves its events and *)
(* an attempt to connect ends.  Nothing is asked of operator and device.   *)
(* A queued event is served before later clicks.                           *)
FairSpec == Spec /\ WF_vars(Ui) /\ WF_vars(Worker) /\ WF_vars(Detector)
                 /\ WF_vars(WindowElapses) /\ SF_vars(Deliver)

----------------------------------------------------------------------------
(* Properties. *)

Det == [pc : {"off", "open", "check", "select", "read"}, k : Nat, valid : 0 .. MaxValid]

TypeOK ==
    /\ kind \in {"serial", "tcp", "udp"} /\ device \in DeviceSpeeds
    /\ speed \in Nat /\ rx \in Seq(Nat) /\ Len(rx) <= MaxRx
    /\ descriptors \in Int /\ left \in 0 .. MaxAddresses
    /\ worker \in {"none", "check", "select", "read", "stopped", "failed"}
    /\ ui \in {"free", "undoing", "connecting", "waiting", "joining"}
    /\ det \in Det
    /\ counts \in [Index -> 0 .. MaxValid] /\ disturbed \subseteq Both
    /\ best = [baud |-> best.baud, valid |-> best.valid] /\ best.valid \in 0 .. MaxValid

(* The kernel has open exactly the descriptors somebody is going to close: *)
(* the one of a connected source, the one of the candidate being sampled   *)
(* and the one of an attempt under way.  No way out of open() or connect() *)
(* leaves another, whichever address or call fails.                        *)
DescriptorsAreHeld ==
    descriptors = (IF Connected THEN 1 ELSE 0) + (IF Sampling THEN 1 ELSE 0)
                    + (IF ui \in {"undoing", "waiting"} THEN 1 ELSE 0)

(* A worker gives up only a source that is gone: neither a quiet line, nor *)
(* an empty datagram, nor what the detector does to a shared terminal,     *)
(* ends it.                                                                *)
FailedOnlyWhenGone == worker = "failed" => ~alive

(* The result of a detection is the first of the candidates with most      *)
(* valid sentences, and 0 when none has enough, also when a candidate      *)
(* could not be opened or broke off.                                       *)
ResultIsFirstBest ==
    event # NoResult =>
        LET IsFirstBest(k) == /\ counts[k] >= MinValid
                              /\ \A j \in Index : /\ counts[j] <= counts[k]
                                                  /\ j < k => counts[j] < counts[k]
        IN  IF \E k \in Index : counts[k] >= MinValid
            THEN \E k \in Index : IsFirstBest(k) /\ event = Candidates[k]
            ELSE event = 0

(* A speed that was detected on a terminal nobody shared is the speed of   *)
(* the device: no candidate is credited with the input of another.         *)
DetectedIsDeviceSpeed ==
    event \notin {NoResult, 0} /\ "detector" \notin disturbed => event = device

(* A read finds what select() announced, so that it does not wait: select  *)
(* and read are two calls, and the terminal is not locked between them     *)
(* (SerialSource.cpp:66-81).  Only who shared the terminal may find its    *)
(* input taken.                                                            *)
ReadsFindInput ==
    /\ worker = "read" /\ "worker" \notin disturbed => Readable
    /\ det.pc = "read" /\ "detector" \notin disturbed => Readable

(* For the operator all this is one press and one answer: whatever happens *)
(* to port, candidates and connections meanwhile, and though pressing,     *)
(* sampling and answering are in two threads, no answer is lost, replaced  *)
(* or given twice.                                                         *)
Detection == INSTANCE SpeedDetection WITH
    Speeds   <- {Candidates[k] : k \in Index},
    NoAnswer <- NoResult,
    answer   <- event,
    shared   <- "detector" \in disturbed

RefinesSpeedDetection == Detection!Spec

(* The detection ends and gives its button back, on a silent line, on one  *)
(* that goes on sending for ever and when the port goes away; or else the  *)
(* terminal was shared.                                                    *)
ButtonComesBack == ~button ~> (button \/ disturbed # {})

(* disconnectInterface() returns, whatever the source does, unless its     *)
(* terminal was shared.                                                    *)
DisconnectReturns == ui = "joining" ~> (ui # "joining" \/ "worker" \in disturbed)

(* A read ends in its time: "Lee hasta `len` bytes en `buf` con un         *)
(* timeout. [...] 0 timeout sin datos" (ISource.hpp:15-16), which is what  *)
(* lets the UI thread join the worker.                                     *)
DisconnectAlwaysReturns == ui = "joining" ~> ui # "joining"
=============================================================================
