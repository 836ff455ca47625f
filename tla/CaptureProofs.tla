--------------------------- MODULE CaptureProofs ---------------------------
(***************************************************************************)
(* Theorems about Capture, for any candidates, any number of addresses,    *)
(* any read size and any number of sentences that makes a result.          *)
(***************************************************************************)
EXTENDS Capture, FiniteSetTheorems, TLAPS

(* What is counted of a read is a number, and nothing in noise. *)
LEMMA ValidIsNat ==
  ASSUME NEW items \in Seq(Nat)
  PROVE  /\ Valid(items) \in Nat
         /\ (\A i \in DOMAIN items : items[i] # 1) => Valid(items) = 0
<1> DEFINE Hits == {k \in DOMAIN items : items[k] = 1}
<1>1. IsFiniteSet(1 .. Len(items))
  BY FS_Interval
<1>2. Hits \subseteq 1 .. Len(items)
  OBVIOUS
<1>3. IsFiniteSet(Hits)
  BY <1>1, <1>2, FS_Subset
<1>4. Cardinality(Hits) \in Nat
  BY <1>3, FS_CardinalityType
<1>5. (\A i \in DOMAIN items : items[i] # 1) => Cardinality(Hits) = 0
  BY FS_EmptySet
<1> QED
  BY <1>4, <1>5 DEF Valid

(* A read takes a beginning of the queue. *)
LEMMA ReadSplits ==
  ASSUME NEW S, NEW q \in Seq(S), NEW n \in 1 .. Len(q)
  PROVE  /\ SubSeq(q, 1, n) \in Seq(S) /\ SubSeq(q, n + 1, Len(q)) \in Seq(S)
         /\ Len(SubSeq(q, n + 1, Len(q))) = Len(q) - n
         /\ \A i \in DOMAIN SubSeq(q, 1, n) : i \in DOMAIN q /\ SubSeq(q, 1, n)[i] = q[i]
         /\ \A i \in DOMAIN SubSeq(q, n + 1, Len(q)) :
                n + i \in DOMAIN q /\ SubSeq(q, n + 1, Len(q))[i] = q[n + i]
  BY SMTT(60)

(* A count that goes no further than its bound is one of its values, and 0 *)
(* only if nothing was counted.                                            *)
LEMMA CappedRange ==
  ASSUME NEW m \in Nat
  PROVE  Capped(m) \in 0 .. MaxValid /\ (m = 0 => Capped(m) = 0)
  BY CaptureAssumption DEF CaptureAssumption, Capped

LEMMA ConstantFacts ==
  /\ Index = 1 .. Len(Candidates) /\ Len(Candidates) \in Nat
  /\ \A k \in Index : Candidates[k] \in Nat \ {0}
  /\ 0 \in 0 .. MaxValid
  BY CaptureAssumption DEF CaptureAssumption, Index

(* The state has its types: no count leaves the numbers, no candidate the  *)
(* list of candidates it is counted for.                                   *)
THEOREM TypeCorrect == Spec => []TypeOK
<1>1. Init => TypeOK
  BY ConstantFacts, CaptureAssumption
     DEF Init, TypeOK, Det, Index, Both, CaptureAssumption, NoDetection, NoBest, NoCounts
<1>2. TypeOK /\ [Next]_vars => TypeOK'
  <2> SUFFICES ASSUME TypeOK, [Next]_vars PROVE TypeOK'
    OBVIOUS
  <2> USE DEF Index, Both
  <2>1. CASE Arrive
    <3>1. PICK item \in Arriving : rx' = Append(rx, item)
      BY <2>1 DEF Arrive
    <3>2. item \in Nat
      BY <3>1, CaptureAssumption DEF Arriving, TypeOK, CaptureAssumption
    <3>3. rx' \in Seq(Nat) /\ Len(rx') = Len(rx) + 1
      BY <3>1, <3>2 DEF TypeOK
    <3>4. Len(rx') <= MaxRx
      BY <2>1, <3>3, CaptureAssumption DEF Arrive, TypeOK, CaptureAssumption
    <3> QED
      BY <2>1, <3>3, <3>4 DEF Arrive, TypeOK, kernelVars, connVars, detVars
  <2>2. CASE Undo
    <3>1. rx' \in Seq(Nat) /\ Len(rx') <= MaxRx /\ descriptors' \in Int
      BY <2>2, CaptureAssumption DEF Undo, CloseDescriptor, TypeOK, CaptureAssumption
    <3> QED
      BY <2>2, <3>1 DEF Undo, TypeOK, kernelVars, detVars
  <2>3. CASE Join
    <3>1. rx' \in Seq(Nat) /\ Len(rx') <= MaxRx /\ descriptors' \in Int
      BY <2>3, CaptureAssumption DEF Join, CloseDescriptor, TypeOK, CaptureAssumption
    <3> QED
      BY <2>3, <3>1 DEF Join, TypeOK, kernelVars, detVars
  <2>4. CASE Refused
    <3>1. rx' \in Seq(Nat) /\ Len(rx') <= MaxRx /\ descriptors' \in Int
      BY <2>4, CaptureAssumption DEF Refused, CloseDescriptor, TypeOK, CaptureAssumption
    <3> QED
      BY <2>4, <3>1 DEF Refused, TypeOK, kernelVars, detVars
  <2>5. CASE Gone
    BY <2>5 DEF Gone, TypeOK, connVars, detVars
  <2>6. CASE ConnectUdp
    BY <2>6 DEF ConnectUdp, TypeOK, Opened, kernelVars, detVars
  <2>7. CASE ConnectFails
    BY <2>7 DEF ConnectFails, TypeOK, kernelVars, detVars
  <2>8. CASE ConnectTcp
    BY <2>8, CaptureAssumption
       DEF ConnectTcp, TypeOK, CaptureAssumption, kernelVars, detVars
  <2>9. CASE Disconnect
    BY <2>9 DEF Disconnect, TypeOK, kernelVars, detVars
  <2>10. CASE NoSocket
    BY <2>10, CaptureAssumption
       DEF NoSocket, TypeOK, CaptureAssumption, kernelVars, detVars
  <2>11. CASE Socket
    BY <2>11, CaptureAssumption DEF Socket, TypeOK, CaptureAssumption, kernelVars, detVars
  <2>12. CASE Accepted
    BY <2>12, CaptureAssumption
       DEF Accepted, TypeOK, CaptureAssumption, kernelVars, detVars
  <2>13. CASE NoAddressLeft
    BY <2>13 DEF NoAddressLeft, TypeOK, kernelVars, detVars
  <2>14. CASE WorkerCheck
    BY <2>14 DEF WorkerCheck, TypeOK, WorkerOnly, kernelVars, detVars
  <2>15. CASE WorkerSelect
    BY <2>15 DEF WorkerSelect, TypeOK, WorkerOnly, kernelVars, detVars
  <2>16. CASE WorkerTimesOut
    BY <2>16 DEF WorkerTimesOut, TypeOK, WorkerOnly, kernelVars, detVars
  <2>17. CASE WorkerEnds
    BY <2>17 DEF WorkerEnds, TypeOK, WorkerOnly, kernelVars, detVars
  <2>18. CASE AutoDetect
    BY <2>18, ConstantFacts
       DEF AutoDetect, TypeOK, Det, NoDetection, NoBest, NoCounts, kernelVars, connVars
  <2>19. CASE Deliver
    BY <2>19, ConstantFacts
       DEF Deliver, TypeOK, Det, NoDetection, NoBest, NoCounts, kernelVars, connVars
  <2>20. CASE SkipCandidate
    <3>1. det \in Det
      BY DEF TypeOK
    <3>2. det' \in Det
      BY <2>20, <3>1 DEF SkipCandidate, Det
    <3> QED
      BY <2>20, <3>2 DEF SkipCandidate, TypeOK, kernelVars, connVars
  <2>21. CASE DetectorCheck
    BY <2>21 DEF DetectorCheck, TypeOK, Det, DetectorOnly, kernelVars, connVars
  <2>22. CASE DetectorSelect
    BY <2>22 DEF DetectorSelect, TypeOK, Det, DetectorOnly, kernelVars, connVars
  <2>23. CASE DetectorTimesOut
    BY <2>23 DEF DetectorTimesOut, TypeOK, Det, DetectorOnly, kernelVars, connVars
  <2>24. CASE WindowElapses
    BY <2>24 DEF WindowElapses, TypeOK, kernelVars, connVars
  <2>25. CASE PostResult
    BY <2>25 DEF PostResult, TypeOK, Det, kernelVars, connVars
  <2>26. ASSUME NEW k \in Index, ConnectSerial(Candidates[k]) PROVE TypeOK'
    BY <2>26, ConstantFacts DEF ConnectSerial, Opened, TypeOK, kernelVars, detVars
  <2>27. CASE OpenCandidate
    <3>1. Candidates[det.k] \in Nat
      BY <2>27, ConstantFacts DEF OpenCandidate
    <3>2. det \in Det
      BY DEF TypeOK
    <3>3. det' \in Det
      BY <2>27, <3>2, ConstantFacts DEF OpenCandidate, Det
    <3> QED
      BY <2>27, <3>1, <3>3 DEF OpenCandidate, TypeOK, kernelVars, connVars
  <2>28. CASE WorkerRead
    <3>1. PICK n \in 1 .. Len(rx) : rx' = SubSeq(rx, n + 1, Len(rx))
      BY <2>28 DEF WorkerRead
    <3>2. rx \in Seq(Nat) /\ Len(rx) <= MaxRx
      BY DEF TypeOK
    <3>3. rx' \in Seq(Nat) /\ Len(rx') = Len(rx) - n
      BY <3>1, <3>2, ReadSplits
    <3>4. Len(rx') <= MaxRx
      BY <3>2, <3>3, CaptureAssumption DEF CaptureAssumption
    <3> QED
      BY <2>28, <3>3, <3>4 DEF WorkerRead, WorkerOnly, TypeOK, kernelVars, detVars
  <2>29. CASE DetectorRead
    <3>1. PICK n \in 1 .. Len(rx) :
              /\ rx' = SubSeq(rx, n + 1, Len(rx))
              /\ det' = [det EXCEPT !.pc = "check",
                                    !.valid = Capped(@ + Valid(SubSeq(rx, 1, n)))]
      BY <2>29 DEF DetectorRead
    <3>2. rx \in Seq(Nat) /\ Len(rx) <= MaxRx
      BY DEF TypeOK
    <3>3. rx' \in Seq(Nat) /\ Len(rx') = Len(rx) - n /\ SubSeq(rx, 1, n) \in Seq(Nat)
      BY <3>1, <3>2, ReadSplits
    <3>4. Len(rx') <= MaxRx
      BY <3>2, <3>3, CaptureAssumption DEF CaptureAssumption
    <3>5. Valid(SubSeq(rx, 1, n)) \in Nat
      BY <3>3, ValidIsNat
    <3>6. det' \in Det
      <4> DEFINE more == Valid(SubSeq(rx, 1, n))
      <4>1. det \in Det
        BY DEF TypeOK
      <4>2. more \in Nat /\ det' = [det EXCEPT !.pc = "check", !.valid = Capped(@ + more)]
        BY <3>1, <3>5
      <4> HIDE DEF more
      <4>3. det.k \in Nat /\ det.valid \in Nat
        BY <4>1, CaptureAssumption DEF Det, CaptureAssumption
      <4>4. det' = [pc |-> "check", k |-> det.k, valid |-> Capped(det.valid + more)]
        BY <4>1, <4>2 DEF Det
      <4>5. Capped(det.valid + more) \in 0 .. MaxValid
        BY <4>2, <4>3, CappedRange
      <4> QED
        BY <4>3, <4>4, <4>5 DEF Det
    <3> QED
      BY <2>29, <3>3, <3>4, <3>6
         DEF DetectorRead, DetectorOnly, TypeOK, kernelVars, connVars
  <2>30. CASE CloseCandidate
    <3>1. rx' \in Seq(Nat) /\ Len(rx') <= MaxRx /\ descriptors' \in Int
      BY <2>30, CaptureAssumption
         DEF CloseCandidate, CloseDescriptor, TypeOK, CaptureAssumption
    <3>2. det \in Det /\ counts \in [Index -> 0 .. MaxValid] /\ 0 \in 0 .. MaxValid
      BY ConstantFacts DEF TypeOK
    <3>3. det' \in Det
      <4>1. det' = [det EXCEPT !.pc = "open", !.k = @ + 1, !.valid = 0]
        BY <2>30 DEF CloseCandidate
      <4>2. det.k \in Nat
        BY <3>2 DEF Det
      <4>3. det' = [pc |-> "open", k |-> det.k + 1, valid |-> 0]
        BY <3>2, <4>1 DEF Det
      <4> QED
        BY <3>2, <4>2, <4>3 DEF Det
    <3>4. det.valid \in 0 .. MaxValid
      BY <3>2 DEF Det
    <3>5. counts' \in [Index -> 0 .. MaxValid]
      BY <2>30, <3>2, <3>4 DEF CloseCandidate
    <3>6. best' = [baud |-> best'.baud, valid |-> best'.valid] /\ best'.valid \in 0 .. MaxValid
      BY <2>30, <3>4 DEF CloseCandidate, Better, TypeOK
    <3> QED
      BY <2>30, <3>1, <3>3, <3>5, <3>6 DEF CloseCandidate, TypeOK, kernelVars, connVars
  <2>31. CASE UNCHANGED vars
    BY <2>31 DEF vars, TypeOK, kernelVars, connVars, detVars
  <2> QED
    BY <2>1, <2>2, <2>3, <2>4, <2>5, <2>6, <2>7, <2>8, <2>9, <2>10, <2>11, <2>12,
       <2>13, <2>14, <2>15, <2>16, <2>17, <2>18, <2>19, <2>20, <2>21, <2>22, <2>23,
       <2>24, <2>25, <2>26, <2>27, <2>28, <2>29, <2>30, <2>31 DEF Next, Operator, Ui,
       Worker, Detector
<1> QED
  BY <1>1, <1>2, PTL DEF Spec

----------------------------------------------------------------------------

(* A record of the detector is its three fields, and what it counts a      *)
(* number.                                                                 *)
LEMMA DetShape ==
  ASSUME TypeOK
  PROVE  /\ det = [pc |-> det.pc, k |-> det.k, valid |-> det.valid]
         /\ det.k \in Nat /\ det.valid \in Nat
         /\ best.valid \in Nat /\ counts \in [Index -> Nat]
  BY CaptureAssumption DEF TypeOK, Det, CaptureAssumption

(* Nobody connects while an attempt is under way, and nobody detects while *)
(* a result waits or the button is there.                                  *)
Roles ==
    /\ ui \in {"connecting", "waiting"} => worker = "none"
    /\ event # NoResult => det.pc = "off"
    /\ button => det.pc = "off" /\ event = NoResult

Held == Roles /\ DescriptorsAreHeld

(***************************************************************************)
(* Each way in counts one descriptor for the party that holds it and each  *)
(* way out uncounts it; what has to be known is that the parties exclude   *)
(* each other where they share one, an attempt and a connected source, and *)
(* that a detection begins where none is under way.                        *)
(***************************************************************************)
LEMMA HeldStep == TypeOK /\ Held /\ [Next]_vars => Held'
<1> SUFFICES ASSUME TypeOK, Held, [Next]_vars PROVE Held'
  OBVIOUS
<1> USE DEF Held, Roles, DescriptorsAreHeld, Connected, Sampling
<1>0. /\ descriptors \in Int
      /\ det = [pc |-> det.pc, k |-> det.k, valid |-> det.valid]
  BY DetShape DEF TypeOK
<1>1. CASE Arrive
  BY <1>1 DEF Arrive, connVars, detVars
<1>2. CASE Gone
  BY <1>2, <1>0 DEF Gone, connVars, detVars
<1>3. ASSUME NEW k \in Index, ConnectSerial(Candidates[k]) PROVE Held'
  BY <1>3, <1>0 DEF ConnectSerial, Opened, detVars
<1>4. CASE ConnectUdp
  BY <1>4, <1>0 DEF ConnectUdp, Opened, detVars
<1>5. CASE ConnectFails
  BY <1>5, <1>0 DEF ConnectFails, detVars
<1>6. CASE ConnectTcp
  BY <1>6, <1>0 DEF ConnectTcp, detVars
<1>7. CASE Disconnect
  BY <1>7, <1>0 DEF Disconnect, detVars
<1>8. CASE NoSocket
  BY <1>8, <1>0 DEF NoSocket, detVars
<1>9. CASE Socket
  BY <1>9, <1>0 DEF Socket, detVars
<1>10. CASE Accepted
  BY <1>10, <1>0 DEF Accepted, detVars
<1>11. CASE NoAddressLeft
  BY <1>11, <1>0 DEF NoAddressLeft, detVars
<1>12. CASE Undo
  BY <1>12, <1>0 DEF Undo, CloseDescriptor, detVars
<1>13. CASE Refused
  BY <1>13, <1>0 DEF Refused, CloseDescriptor, detVars
<1>14. CASE Join
  BY <1>14, <1>0 DEF Join, CloseDescriptor, detVars
<1>15. CASE WorkerCheck
  BY <1>15, <1>0 DEF WorkerCheck, WorkerOnly, detVars
<1>16. CASE WorkerSelect
  BY <1>16, <1>0 DEF WorkerSelect, WorkerOnly, detVars
<1>17. CASE WorkerTimesOut
  BY <1>17, <1>0 DEF WorkerTimesOut, WorkerOnly, detVars
<1>18. CASE WorkerRead
  BY <1>18, <1>0 DEF WorkerRead, WorkerOnly, detVars
<1>19. CASE WorkerEnds
  BY <1>19, <1>0 DEF WorkerEnds, WorkerOnly, detVars
<1>20. CASE AutoDetect
  BY <1>20, <1>0 DEF AutoDetect, connVars, NoDetection
<1>21. CASE Deliver
  BY <1>21, <1>0 DEF Deliver, connVars, NoDetection
<1>22. CASE OpenCandidate
  BY <1>22, <1>0 DEF OpenCandidate, connVars
<1>23. CASE SkipCandidate
  BY <1>23, <1>0 DEF SkipCandidate, connVars
<1>24. CASE WindowElapses
  BY <1>24, <1>0 DEF WindowElapses, connVars
<1>25. CASE PostResult
  BY <1>25, <1>0 DEF PostResult, connVars
<1>26. CASE DetectorCheck
  BY <1>26, <1>0 DEF DetectorCheck, DetectorOnly, connVars
<1>27. CASE DetectorSelect
  BY <1>27, <1>0 DEF DetectorSelect, DetectorOnly, connVars
<1>28. CASE DetectorTimesOut
  BY <1>28, <1>0 DEF DetectorTimesOut, DetectorOnly, connVars
<1>29. CASE DetectorRead
  BY <1>29, <1>0 DEF DetectorRead, DetectorOnly, connVars
<1>30. CASE CloseCandidate
  BY <1>30, <1>0 DEF CloseCandidate, CloseDescriptor, connVars
<1>31. CASE UNCHANGED vars
  BY <1>31, <1>0 DEF vars, connVars, detVars
<1> QED
  BY <1>1, <1>2, <1>3, <1>4, <1>5, <1>6, <1>7, <1>8, <1>9, <1>10, <1>11, <1>12,
     <1>13, <1>14, <1>15, <1>16, <1>17, <1>18, <1>19, <1>20, <1>21, <1>22, <1>23,
     <1>24, <1>25, <1>26, <1>27, <1>28, <1>29, <1>30, <1>31 DEF Next, Operator, Ui,
     Worker, Detector

(* No way out of open(), connect(), a detection or a disconnection leaves  *)
(* a descriptor nobody is going to close, or closes one twice.             *)
THEOREM DescriptorsHeld == Spec => []DescriptorsAreHeld
<1>1. Init => Held
  BY DEF Init, Held, Roles, DescriptorsAreHeld, Connected, Sampling, NoDetection
<1> QED
  BY <1>1, HeldStep, TypeCorrect, PTL DEF Spec, Held

(* The end of a worker is that of its source, until it is connected anew.  *)
THEOREM FailedWhenGone == Spec => []FailedOnlyWhenGone
<1>1. Init => FailedOnlyWhenGone
  BY DEF Init, FailedOnlyWhenGone
<1>2. FailedOnlyWhenGone /\ [Next]_vars => FailedOnlyWhenGone'
  <2> SUFFICES ASSUME FailedOnlyWhenGone, [Next]_vars PROVE FailedOnlyWhenGone'
    OBVIOUS
  <2>1. CASE /\ alive' = alive
             /\ worker' \in {worker, "none", "check", "select", "read", "stopped"}
    BY <2>1 DEF FailedOnlyWhenGone
  <2>2. CASE Gone \/ WorkerEnds
    BY <2>2 DEF Gone, WorkerEnds, WorkerOnly, kernelVars, FailedOnlyWhenGone
  <2>3. CASE Accepted
    BY <2>3 DEF Accepted, FailedOnlyWhenGone
  <2>4. [Next]_vars => \/ Gone \/ WorkerEnds \/ Accepted
                       \/ /\ alive' = alive
                          /\ worker' \in {worker, "none", "check", "select", "read", "stopped"}
    BY DEF Next, Operator, Ui, Worker, Detector, vars, kernelVars, connVars, detVars,
           Arrive, ConnectSerial, ConnectUdp, ConnectFails, Opened, Undo, ConnectTcp,
           NoSocket, Socket, Refused, NoAddressLeft, Disconnect, Join, WorkerOnly,
           WorkerCheck, WorkerSelect, WorkerTimesOut, WorkerRead, AutoDetect,
           OpenCandidate, SkipCandidate, DetectorOnly, WindowElapses, DetectorCheck,
           DetectorSelect, DetectorTimesOut, DetectorRead, CloseCandidate, PostResult,
           Deliver
  <2> QED
    BY <2>1, <2>2, <2>3, <2>4
<1> QED
  BY <1>1, <1>2, PTL DEF Spec

----------------------------------------------------------------------------

(* What the detector knows: best is the first of the largest counts so     *)
(* far, and nothing is counted yet for the candidates to come.             *)
Tally ==
    /\ Sampling => det.k \in Index
    /\ \A j \in Index : counts[j] <= best.valid /\ (j >= det.k => counts[j] = 0)
    /\ best.valid > 0 =>
           \E k \in Index : /\ k < det.k /\ counts[k] = best.valid
                            /\ best.baud = Candidates[k]
                            /\ \A j \in Index : j < k => counts[j] < counts[k]

Fresh  == button => best = NoBest /\ counts = NoCounts
Posted == event # NoResult =>
              event = IF best.valid >= MinValid THEN best.baud ELSE 0

(* A step of anybody that leaves the state of the comparison alone.        *)
Aside ==
    /\ UNCHANGED <<best, counts, event, button>>
    /\ det'.k = det.k
    /\ Sampling' => Sampling

LEMMA StepKinds ==
  ASSUME TypeOK, [Next]_vars
  PROVE  \/ Aside
         \/ AutoDetect \/ OpenCandidate \/ SkipCandidate \/ CloseCandidate
         \/ PostResult \/ Deliver
<1>0. det = [pc |-> det.pc, k |-> det.k, valid |-> det.valid]
  BY DetShape
<1> USE DEF Aside, Sampling
<1>1. CASE Arrive
  BY <1>1 DEF Arrive, detVars
<1>2. CASE DetectorCheck \/ DetectorSelect \/ DetectorTimesOut
  BY <1>0, <1>2 DEF DetectorCheck, DetectorSelect, DetectorTimesOut, DetectorOnly
<1>3. CASE DetectorRead
  <2>1. PICK n \in 1 .. Len(rx) :
            det' = [det EXCEPT !.pc = "check",
                               !.valid = Capped(@ + Valid(SubSeq(rx, 1, n)))]
    BY <1>3 DEF DetectorRead
  <2> QED
    BY <1>0, <1>3, <2>1 DEF DetectorRead, DetectorOnly
<1>4. CASE UNCHANGED detVars
  BY <1>4 DEF detVars
<1>5. CASE WindowElapses
  BY <1>5 DEF WindowElapses
<1> QED
  BY <1>1, <1>2, <1>3, <1>4, <1>5
     DEF Next, Operator, Ui, Worker, Detector, vars, Gone, ConnectSerial, ConnectUdp,
         ConnectFails, Undo, ConnectTcp, NoSocket, Socket, Refused, Accepted,
         NoAddressLeft, Disconnect, Join, WorkerOnly, WorkerCheck, WorkerSelect,
         WorkerTimesOut, WorkerRead, WorkerEnds

LEMMA TallyStep ==
  ASSUME TypeOK, Roles, Tally, Fresh, Posted, [Next]_vars
  PROVE  Tally' /\ Fresh' /\ Posted'
<1>0. /\ det = [pc |-> det.pc, k |-> det.k, valid |-> det.valid]
      /\ det.k \in Nat /\ det.valid \in Nat
      /\ best.valid \in Nat /\ counts \in [Index -> Nat]
  BY DetShape DEF TypeOK
<1>a. Index = 1 .. Len(Candidates) /\ Index \subseteq Nat /\ Index' = Index
  BY ConstantFacts DEF Index
<1>1. CASE Aside
  BY <1>1, <1>a DEF Aside, Tally, Fresh, Posted
<1>2. CASE AutoDetect
  <2>1. /\ det' = [pc |-> "open", k |-> 1, valid |-> 0]
        /\ best' = NoBest /\ counts' = NoCounts /\ event' = NoResult /\ ~button'
    BY <1>2 DEF AutoDetect, NoDetection, Fresh, Roles
  <2> QED
    BY <2>1, <1>a DEF Tally, Fresh, Posted, NoBest, NoCounts, Sampling
<1>3. CASE OpenCandidate
  <2>1. det'.k = det.k /\ det.k \in Index /\ UNCHANGED <<best, counts, event, button>>
    BY <1>0, <1>3 DEF OpenCandidate
  <2> QED
    BY <2>1, <1>a DEF Tally, Fresh, Posted
<1>4. CASE SkipCandidate
  <2>1. /\ det'.k = det.k + 1 /\ det'.pc = "open"
        /\ UNCHANGED <<best, counts, event, button>>
    BY <1>0, <1>4 DEF SkipCandidate
  <2> QED
    BY <2>1, <1>0, <1>a DEF Tally, Fresh, Posted, Sampling
<1>5. CASE CloseCandidate
  <2>1. /\ det'.k = det.k + 1 /\ det'.pc = "open" /\ UNCHANGED <<event, button>>
        /\ det.k \in Index /\ det.pc # "off"
        /\ best' = IF det.valid > best.valid
                   THEN [baud |-> Candidates[det.k], valid |-> det.valid] ELSE best
        /\ counts' = [counts EXCEPT ![det.k] = det.valid]
    BY <1>0, <1>5 DEF CloseCandidate, Better, Tally, Sampling
  <2>2. \A j \in Index : counts'[j] = IF j = det.k THEN det.valid ELSE counts[j]
    BY <1>0, <2>1
  <2>3. Fresh' /\ Posted'
    BY <2>1 DEF Fresh, Posted, Roles
  <2>4. CASE det.valid > best.valid
    <3>1. best'.valid = det.valid /\ best'.baud = Candidates[det.k]
      BY <2>1, <2>4
    <3>2. \A j \in Index : counts'[j] <= best'.valid /\ (j >= det'.k => counts'[j] = 0)
      BY <1>0, <1>a, <2>1, <2>2, <2>4, <3>1 DEF Tally
    <3>3. /\ det.k \in Index /\ det.k < det'.k /\ counts'[det.k] = best'.valid
          /\ \A j \in Index : j < det.k => counts'[j] < counts'[det.k]
      BY <1>0, <1>a, <2>1, <2>2, <2>4, <3>1 DEF Tally
    <3> QED
      BY <2>1, <2>3, <3>1, <3>2, <3>3, <1>a DEF Tally, Sampling
  <2>5. CASE ~(det.valid > best.valid)
    <3>1. best' = best
      BY <2>1, <2>5
    <3>2. \A j \in Index : counts'[j] <= best'.valid /\ (j >= det'.k => counts'[j] = 0)
      BY <1>0, <1>a, <2>1, <2>2, <2>5, <3>1 DEF Tally
    <3>3. ASSUME best.valid > 0
          PROVE  \E k \in Index : /\ k < det'.k /\ counts'[k] = best.valid
                                  /\ best.baud = Candidates[k]
                                  /\ \A j \in Index : j < k => counts'[j] < counts'[k]
      <4>1. PICK k \in Index : /\ k < det.k /\ counts[k] = best.valid
                               /\ best.baud = Candidates[k]
                               /\ \A j \in Index : j < k => counts[j] < counts[k]
        BY <3>3 DEF Tally
      <4>2. k < det'.k /\ counts'[k] = counts[k]
        BY <1>0, <1>a, <2>1, <2>2, <4>1
      <4>3. \A j \in Index : j < k => counts'[j] = counts[j]
        BY <1>0, <1>a, <2>2, <4>1
      <4> QED
        BY <4>1, <4>2, <4>3
    <3> QED
      BY <2>1, <2>3, <3>1, <3>2, <3>3, <1>a DEF Tally, Sampling
  <2> QED
    BY <2>4, <2>5
<1>6. CASE PostResult
  <2>1. /\ det'.k = det.k /\ det'.pc = "off" /\ UNCHANGED <<best, counts, button>>
        /\ event' = IF best.valid >= MinValid THEN best.baud ELSE 0
    BY <1>0, <1>6 DEF PostResult
  <2> QED
    BY <2>1, <1>a DEF Tally, Fresh, Posted, Sampling
<1>7. CASE Deliver
  <2>1. /\ det' = [pc |-> "off", k |-> 1, valid |-> 0]
        /\ best' = NoBest /\ counts' = NoCounts /\ event' = NoResult
    BY <1>7 DEF Deliver, NoDetection
  <2> QED
    BY <2>1, <1>a DEF Tally, Fresh, Posted, NoBest, NoCounts, Sampling
<1> QED
  BY <1>1, <1>2, <1>3, <1>4, <1>5, <1>6, <1>7, StepKinds

(***************************************************************************)
(* The comparison with > keeps the first of equal counts, and a candidate  *)
(* that could not be opened keeps its count of 0 (BaudDetector.cpp:38-67). *)
(***************************************************************************)
THEOREM FirstBest == Spec => []ResultIsFirstBest
<1> DEFINE Inv == Tally /\ Fresh /\ Posted
<1>1. Init => Inv
  <2> SUFFICES ASSUME Init PROVE Inv
    OBVIOUS
  <2>1. /\ det = [pc |-> "off", k |-> 1, valid |-> 0]
        /\ best = NoBest /\ counts = NoCounts /\ event = NoResult
    BY DEF Init, NoDetection
  <2> QED
    BY <2>1 DEF Tally, Fresh, Posted, NoBest, NoCounts, Sampling
<1>2. TypeOK /\ Held /\ Inv /\ [Next]_vars => Inv'
  BY TallyStep DEF Held
<1>3. TypeOK /\ Inv => ResultIsFirstBest
  <2> SUFFICES ASSUME TypeOK, Tally, Posted, event # NoResult
               PROVE  LET IsFirstBest(k) ==
                              /\ counts[k] >= MinValid
                              /\ \A j \in Index : /\ counts[j] <= counts[k]
                                                  /\ j < k => counts[j] < counts[k]
                      IN  IF \E k \in Index : counts[k] >= MinValid
                          THEN \E k \in Index : IsFirstBest(k) /\ event = Candidates[k]
                          ELSE event = 0
    BY DEF ResultIsFirstBest
  <2>1. /\ best.valid \in Nat /\ counts \in [Index -> Nat]
        /\ MinValid \in Nat /\ MinValid > 0
    BY DetShape, CaptureAssumption DEF CaptureAssumption
  <2>2. CASE best.valid >= MinValid
    <3>1. PICK k \in Index : /\ counts[k] = best.valid /\ best.baud = Candidates[k]
                             /\ \A j \in Index : j < k => counts[j] < counts[k]
      BY <2>1, <2>2 DEF Tally
    <3>2. counts[k] >= MinValid /\ \A j \in Index : counts[j] <= counts[k]
      BY <2>1, <2>2, <3>1 DEF Tally
    <3>3. event = Candidates[k]
      BY <2>2, <3>1 DEF Posted
    <3> QED
      BY <3>1, <3>2, <3>3
  <2>3. CASE ~(best.valid >= MinValid)
    <3>1. \A k \in Index : ~(counts[k] >= MinValid)
      BY <2>1, <2>3 DEF Tally
    <3>2. event = 0
      BY <2>3 DEF Posted
    <3> QED
      BY <3>1, <3>2
  <2> QED
    BY <2>2, <2>3
<1>4. Init => Held
  BY DEF Init, Held, Roles, DescriptorsAreHeld, Connected, Sampling, NoDetection
<1> QED
  BY <1>1, <1>2, <1>3, <1>4, HeldStep, TypeCorrect, PTL DEF Spec

----------------------------------------------------------------------------

(* A queue that is not empty is somebody's. *)
RxHeld == rx # <<>> => Connected \/ Sampling \/ ui = "undoing"

(* A detector that shared the terminal with nobody, so far, only ever      *)
(* heard what arrived at the speed of its candidates.                      *)
Alone == "detector" \notin disturbed

Own ==
    /\ det.pc # "off" => kind = "serial"
    /\ ui \in {"connecting", "waiting"} => kind # "serial"
    /\ Alone /\ det.pc # "off" => ui # "undoing"
    /\ Alone /\ Sampling =>
           /\ ~Connected /\ speed = Candidates[det.k]
           /\ Candidates[det.k] # device =>
                  det.valid = 0 /\ \A i \in DOMAIN rx : rx[i] # 1
    /\ Alone => \A j \in Index : counts[j] > 0 => Candidates[j] = device

LEMMA RxStep ==
  ASSUME TypeOK, Held, RxHeld, Own, [Next]_vars
  PROVE  RxHeld'
<1> USE DEF RxHeld, Connected, Sampling
<1>0. det = [pc |-> det.pc, k |-> det.k, valid |-> det.valid]
  BY DetShape
<1>1. CASE Arrive
  BY <1>1 DEF Arrive, connVars, detVars
<1>2. CASE Undo
  BY <1>2 DEF Undo, CloseDescriptor, Held, DescriptorsAreHeld, detVars
<1>3. CASE Join
  BY <1>3 DEF Join, CloseDescriptor, Held, DescriptorsAreHeld, detVars
<1>4. CASE Refused
  BY <1>4 DEF Refused, CloseDescriptor, detVars
<1>5. CASE CloseCandidate
  <2>1. Sampling /\ descriptors = 1 => rx' = <<>>
    BY <1>5 DEF CloseCandidate, CloseDescriptor
  <2>2. Sampling /\ rx' \in {rx, <<>>} /\ worker' = worker /\ ui' = ui
    BY <1>5 DEF CloseCandidate, CloseDescriptor, connVars
  <2>3. ui # "waiting"
    BY <2>2 DEF Own
  <2> QED
    BY <2>1, <2>2, <2>3 DEF Held, DescriptorsAreHeld
<1>6. CASE OpenCandidate
  <2>1. det'.pc = "check"
    BY <1>0, <1>6 DEF OpenCandidate
  <2> QED
    BY <2>1
<1>7. CASE SkipCandidate \/ PostResult
  BY <1>0, <1>7 DEF SkipCandidate, PostResult, connVars
<1>8. CASE AutoDetect \/ Deliver
  BY <1>8 DEF AutoDetect, Deliver, connVars, Held, Roles
<1>9. CASE DetectorCheck \/ DetectorSelect \/ DetectorTimesOut
  <2>1. det'.pc \in {"check", "select", "read"}
    BY <1>0, <1>9 DEF DetectorCheck, DetectorSelect, DetectorTimesOut
  <2> QED
    BY <2>1
<1>10. CASE DetectorRead
  <2>1. PICK n \in 1 .. Len(rx) :
            det' = [det EXCEPT !.pc = "check",
                               !.valid = Capped(@ + Valid(SubSeq(rx, 1, n)))]
    BY <1>10 DEF DetectorRead
  <2>2. det'.pc = "check"
    BY <1>0, <2>1
  <2> QED
    BY <2>2
<1>11. CASE Worker
  <2>1. worker' # "none"
    BY <1>11 DEF Worker, WorkerCheck, WorkerSelect, WorkerTimesOut, WorkerRead, WorkerEnds
  <2> QED
    BY <2>1
<1>12. CASE \E k \in Index : ConnectSerial(Candidates[k])
  BY <1>12 DEF ConnectSerial, Opened
<1>13. CASE ConnectUdp \/ Accepted
  BY <1>13 DEF ConnectUdp, Opened, Accepted
<1>14. CASE UNCHANGED <<rx, worker, det>> /\ (ui = "undoing" => ui' = "undoing")
  BY <1>14
<1> QED
  BY <1>1, <1>2, <1>3, <1>4, <1>5, <1>6, <1>7, <1>8, <1>9, <1>10, <1>11, <1>12, <1>13, <1>14
     DEF Next, Operator, Ui, Detector, vars, kernelVars, connVars, detVars, Gone,
         WindowElapses, ConnectFails, ConnectTcp, NoSocket, Socket, NoAddressLeft, Disconnect

LEMMA OwnStep ==
  ASSUME TypeOK, Held, RxHeld, Fresh, Tally, Own, [Next]_vars
  PROVE  Own'
<1> USE DEF Alone, Connected, Sampling
<1>0. /\ det = [pc |-> det.pc, k |-> det.k, valid |-> det.valid]
      /\ det.k \in Nat /\ det.valid \in Nat
      /\ rx \in Seq(Nat) /\ counts \in [Index -> Nat]
  BY DetShape DEF TypeOK
<1>a. Index' = Index
  BY DEF Index
<1>1. CASE Arrive
  <2>1. PICK item \in Arriving : rx' = Append(rx, item)
    BY <1>1 DEF Arrive
  <2>2. /\ det'.pc = det.pc /\ det'.k = det.k /\ det'.valid = det.valid
        /\ UNCHANGED <<kind, device, speed, worker, ui, counts, disturbed>>
    BY <1>1 DEF Arrive, kernelVars, connVars, detVars
  <2>3. kind = "serial" /\ speed # device => item = 0
    BY <2>1 DEF Arriving
  <2>4. \A i \in DOMAIN rx' : rx'[i] = IF i \in DOMAIN rx THEN rx[i] ELSE item
    BY <1>0, <2>1
  <2> QED
    BY <2>2, <2>3, <2>4, <1>a DEF Own
<1>2. CASE Undo \/ Join \/ Refused
  <2>1. /\ UNCHANGED <<kind, device, speed, det, counts, disturbed>> /\ rx' \in {rx, <<>>}
        /\ worker' \in {worker, "none"} /\ ui' # "undoing"
        /\ ui' = "connecting" => ui = "waiting"
        /\ ui' # "waiting"
    BY <1>2 DEF Undo, Join, Refused, CloseDescriptor, kernelVars, detVars
  <2> QED
    BY <2>1, <1>a DEF Own
<1>3. ASSUME NEW k \in Index, ConnectSerial(Candidates[k]) PROVE Own'
  BY <1>3, <1>a DEF ConnectSerial, Opened, Both, kernelVars, detVars, Own
<1>4. CASE ConnectUdp
  BY <1>4, <1>a DEF ConnectUdp, Opened, Both, kernelVars, detVars, Own
<1>5. CASE ConnectFails
  BY <1>5, <1>a DEF ConnectFails, kernelVars, detVars, Own
<1>6. CASE Worker
  <2>1. Connected /\ UNCHANGED <<kind, device, speed, ui, det, counts, disturbed>>
    BY <1>6 DEF Worker, WorkerCheck, WorkerSelect, WorkerTimesOut, WorkerRead, WorkerEnds,
                WorkerOnly, kernelVars, detVars
  <2> QED
    BY <2>1, <1>a DEF Own
<1>7. CASE AutoDetect
  <2>1. /\ det'.pc = "open" /\ kind = "serial" /\ ui = "free"
        /\ UNCHANGED <<kind, device, ui, counts>> /\ counts = NoCounts
    BY <1>7 DEF AutoDetect, NoDetection, kernelVars, connVars, Fresh
  <2> QED
    BY <2>1, <1>a DEF Own, NoCounts
<1>8. CASE Deliver
  <2>1. det'.pc = "off" /\ counts' = NoCounts /\ UNCHANGED <<kind, device, ui>>
    BY <1>8 DEF Deliver, NoDetection, kernelVars, connVars
  <2> QED
    BY <2>1, <1>a DEF Own, NoCounts
<1>9. CASE OpenCandidate
  <2>1. /\ det.pc = "open" /\ det'.pc = "check" /\ det'.k = det.k /\ det'.valid = 0
        /\ speed' = Candidates[det.k] /\ UNCHANGED <<kind, device, rx, worker, ui, counts>>
        /\ disturbed' = IF Connected THEN Both ELSE disturbed
    BY <1>0, <1>9 DEF OpenCandidate, kernelVars, connVars
  <2>2. CASE "detector" \in disturbed'
    BY <2>1, <2>2 DEF Own
  <2>3. CASE "detector" \notin disturbed'
    <3>1. ~Connected /\ disturbed' = disturbed
      BY <2>1, <2>3 DEF Both
    <3>2. rx = <<>>
      BY <2>1, <2>3, <3>1 DEF RxHeld, Own
    <3> QED
      BY <2>1, <3>1, <3>2, <1>a DEF Own
  <2> QED
    BY <2>2, <2>3
<1>10. CASE SkipCandidate \/ PostResult
  <2>1. /\ det.pc # "off" /\ det'.pc \in {"open", "off"}
        /\ UNCHANGED <<kind, device, ui, counts, disturbed>>
    BY <1>0, <1>10 DEF SkipCandidate, PostResult, kernelVars, connVars
  <2> QED
    BY <2>1, <1>a DEF Own
<1>11. CASE DetectorCheck \/ DetectorSelect \/ DetectorTimesOut
  <2>1. /\ Sampling /\ det'.k = det.k /\ det'.valid = det.valid
        /\ UNCHANGED <<kind, device, speed, rx, worker, ui, counts, disturbed>>
    BY <1>0, <1>11 DEF DetectorCheck, DetectorSelect, DetectorTimesOut, DetectorOnly,
                       kernelVars, connVars
  <2> QED
    BY <2>1, <1>a DEF Own
<1>12. CASE DetectorRead
  <2>1. PICK n \in 1 .. Len(rx) :
            /\ rx' = SubSeq(rx, n + 1, Len(rx))
            /\ det' = [det EXCEPT !.pc = "check",
                                  !.valid = Capped(@ + Valid(SubSeq(rx, 1, n)))]
    BY <1>12 DEF DetectorRead
  <2> DEFINE more == Valid(SubSeq(rx, 1, n))
  <2>2. SubSeq(rx, 1, n) \in Seq(Nat)
    BY <1>0, ReadSplits
  <2>3. (\A i \in DOMAIN rx : rx[i] # 1) => more = 0
    <3>1. \A i \in DOMAIN SubSeq(rx, 1, n) :
              i \in DOMAIN rx /\ SubSeq(rx, 1, n)[i] = rx[i]
      <4>1. rx \in Seq(Nat)
        BY <1>0
      <4> QED
        BY <4>1, ReadSplits, SMTT(60)
    <3> QED
      BY <2>2, <3>1, ValidIsNat
  <2>4. (\A i \in DOMAIN rx : rx[i] # 1) => \A i \in DOMAIN rx' : rx'[i] # 1
    <3>1. rx \in Seq(Nat)
      BY <1>0
    <3> DEFINE unread == SubSeq(rx, n + 1, Len(rx))
    <3>2. \A i \in DOMAIN unread : n + i \in DOMAIN rx /\ unread[i] = rx[n + i]
      BY <3>1, ReadSplits, SMTT(60)
    <3>3. rx' = unread
      BY <2>1, Zenon
    <3> HIDE DEF unread
    <3> QED
      BY <3>2, <3>3, Zenon
  <2> HIDE DEF more
  <2>5. det'.k = det.k /\ det'.valid = Capped(det.valid + more)
    BY <1>0, <2>1 DEF more
  <2>7. det.valid = 0 /\ more = 0 => det'.valid = 0
    BY <2>5, CappedRange
  <2>6. Sampling /\ UNCHANGED <<kind, device, speed, worker, ui, counts, disturbed>>
    BY <1>12 DEF DetectorRead, DetectorOnly, kernelVars, connVars
  <2> QED
    BY <2>3, <2>4, <2>5, <2>6, <2>7, <1>0, <1>a DEF Own
<1>13. CASE CloseCandidate
  <2>1. /\ Sampling /\ det'.pc = "open" /\ UNCHANGED <<kind, device, ui, disturbed>>
        /\ counts' = [counts EXCEPT ![det.k] = det.valid]
    BY <1>0, <1>13 DEF CloseCandidate, kernelVars, connVars
  <2>2. \A j \in Index : counts'[j] = IF j = det.k THEN det.valid ELSE counts[j]
    BY <1>0, <2>1
  <2> QED
    BY <2>1, <2>2, <1>0, <1>a DEF Own
<1>14. CASE /\ UNCHANGED <<kind, device, speed, rx, det, worker, counts, disturbed>>
            /\ ui' \in {ui, "free", "joining"}
  BY <1>14, <1>a DEF Own
<1>15. CASE Accepted
  <2>1. /\ UNCHANGED <<kind, device, counts, disturbed, det>> /\ ui' = "free"
        /\ ui = "waiting"
    BY <1>15 DEF Accepted, detVars
  <2>2. det.pc = "off"
    BY <2>1 DEF Own
  <2> QED
    BY <2>1, <2>2, <1>a DEF Own
<1>16. CASE ConnectTcp \/ NoSocket \/ Socket
  BY <1>16, <1>a DEF ConnectTcp, NoSocket, Socket, kernelVars, detVars, Own
<1> QED
  BY <1>1, <1>2, <1>3, <1>4, <1>5, <1>6, <1>7, <1>8, <1>9, <1>10, <1>11, <1>12, <1>13,
     <1>14, <1>15, <1>16
     DEF Next, Operator, Ui, Detector, vars, kernelVars, connVars, detVars, Gone,
         WindowElapses, NoAddressLeft, Disconnect

(* All that is known of who uses the terminal and of what was heard on it. *)
Heard == Held /\ RxHeld /\ Own /\ Tally /\ Fresh /\ Posted

(* No step of anybody undoes it. *)
LEMMA HeardAlways == Spec => []Heard
<1>1. Init => Heard
  <2> SUFFICES ASSUME Init PROVE Heard
    OBVIOUS
  <2>1. /\ det = [pc |-> "off", k |-> 1, valid |-> 0]
        /\ best = NoBest /\ counts = NoCounts /\ event = NoResult
        /\ ui = "free" /\ worker = "none" /\ descriptors = 0 /\ rx = <<>>
    BY DEF Init, NoDetection
  <2> QED
    BY <2>1 DEF Heard, Held, Roles, DescriptorsAreHeld, RxHeld, Own, Tally, Fresh, Posted,
                NoBest, NoCounts, Connected, Sampling
<1>2. TypeOK /\ Heard /\ [Next]_vars => Heard'
  <2> SUFFICES ASSUME TypeOK, Heard, [Next]_vars PROVE Heard'
    OBVIOUS
  <2>1. Held'
    BY HeldStep DEF Heard
  <2>2. Tally' /\ Fresh' /\ Posted'
    BY TallyStep DEF Held, Heard
  <2>3. RxHeld' /\ Own'
    BY RxStep, OwnStep DEF Heard
  <2> QED
    BY <2>1, <2>2, <2>3 DEF Heard
<1> QED
  BY <1>1, <1>2, TypeCorrect, PTL DEF Spec

(***************************************************************************)
(* The last close drops what a candidate left unread, so that it is not    *)
(* credited to the next; and every way to share the terminal is marked.    *)
(***************************************************************************)
THEOREM DeviceSpeed == Spec => []DetectedIsDeviceSpeed
<1>1. TypeOK /\ Heard => DetectedIsDeviceSpeed
  <2> SUFFICES ASSUME TypeOK, Own, Tally, Posted, event \notin {NoResult, 0},
                      "detector" \notin disturbed
               PROVE  event = device
    BY DEF DetectedIsDeviceSpeed, Heard
  <2>1. best.valid \in Nat /\ MinValid \in Nat /\ MinValid > 0
    BY DetShape, CaptureAssumption DEF CaptureAssumption
  <2>2. best.valid >= MinValid /\ event = best.baud
    BY DEF Posted
  <2>3. PICK k \in Index : counts[k] = best.valid /\ best.baud = Candidates[k]
    BY <2>1, <2>2 DEF Tally
  <2> QED
    BY <2>1, <2>2, <2>3 DEF Own, Alone
<1> QED
  BY <1>1, HeardAlways, TypeCorrect, PTL

----------------------------------------------------------------------------
(* Two threads read one terminal only where it is marked for both, and an  *)
(* attempt that is undone is not beside a connected source.                *)
Marked ==
    /\ ui = "undoing" => worker = "none"
    /\ Sampling /\ Connected => disturbed = Both

LEMMA ReadStep ==
  ASSUME TypeOK, Held, Own, Marked, ReadsFindInput, [Next]_vars
  PROVE  Marked' /\ ReadsFindInput'
<1> USE DEF Marked, ReadsFindInput, Connected, Sampling, Readable, Both
<1>0. /\ det = [pc |-> det.pc, k |-> det.k, valid |-> det.valid]
      /\ rx \in Seq(Nat)
      /\ worker \in {"none", "check", "select", "read", "stopped", "failed"}
  BY DetShape DEF TypeOK
<1>a. /\ det.pc # "off" => kind = "serial"
      /\ ui \in {"connecting", "waiting"} => kind # "serial"
      /\ ui \in {"connecting", "waiting"} => worker = "none"
      /\ "detector" \notin disturbed /\ det.pc # "off" => ui # "undoing"
  BY DEF Own, Alone, Held, Roles
<1>1. CASE Arrive
  <2>1. PICK item \in Arriving : rx' = Append(rx, item)
    BY <1>1 DEF Arrive
  <2>2. rx' # <<>>
    BY <1>0, <2>1
  <2>3. det'.pc = det.pc /\ UNCHANGED <<worker, ui, disturbed>>
    BY <1>1 DEF Arrive, connVars, detVars
  <2> QED
    BY <2>2, <2>3
<1>2. CASE Gone
  BY <1>2 DEF Gone, connVars, detVars
<1>3. ASSUME NEW k \in Index, ConnectSerial(Candidates[k]) PROVE Marked' /\ ReadsFindInput'
  BY <1>3, <1>0 DEF ConnectSerial, Opened, detVars, kernelVars
<1>4. CASE ConnectUdp
  BY <1>4, <1>0 DEF ConnectUdp, Opened, detVars, kernelVars
<1>5. CASE ConnectFails
  BY <1>5, <1>0 DEF ConnectFails, detVars, kernelVars
<1>6. CASE Undo
  BY <1>6, <1>0, <1>a DEF Undo, CloseDescriptor, detVars, kernelVars
<1>7. CASE Refused
  BY <1>7, <1>0, <1>a DEF Refused, CloseDescriptor, detVars, kernelVars
<1>8. CASE Accepted
  BY <1>8, <1>0, <1>a DEF Accepted, detVars
<1>9. CASE Join
  BY <1>9, <1>0 DEF Join, CloseDescriptor, detVars, kernelVars
<1>10. CASE ConnectTcp \/ NoSocket \/ Socket \/ NoAddressLeft \/ Disconnect
  BY <1>10, <1>0, <1>a
     DEF ConnectTcp, NoSocket, Socket, NoAddressLeft, Disconnect, detVars, kernelVars
<1>11. CASE WorkerCheck \/ WorkerSelect \/ WorkerTimesOut \/ WorkerEnds
  BY <1>11, <1>0, <1>a
     DEF WorkerCheck, WorkerSelect, WorkerTimesOut, WorkerEnds, WorkerOnly, detVars, kernelVars
<1>12. CASE WorkerRead
  BY <1>12, <1>0 DEF WorkerRead, WorkerOnly, detVars, kernelVars
<1>13. CASE AutoDetect
  BY <1>13, <1>0 DEF AutoDetect, NoDetection, connVars, kernelVars
<1>14. CASE Deliver
  BY <1>14, <1>0 DEF Deliver, NoDetection, connVars, kernelVars
<1>15. CASE OpenCandidate
  BY <1>15, <1>0 DEF OpenCandidate, connVars, kernelVars
<1>16. CASE SkipCandidate \/ WindowElapses \/ PostResult
  BY <1>16, <1>0 DEF SkipCandidate, WindowElapses, PostResult, connVars, kernelVars
<1>17. CASE DetectorCheck \/ DetectorSelect \/ DetectorTimesOut
  BY <1>17, <1>0
     DEF DetectorCheck, DetectorSelect, DetectorTimesOut, DetectorOnly, connVars, kernelVars
<1>18. CASE DetectorRead
  BY <1>18, <1>0 DEF DetectorRead, DetectorOnly, connVars, kernelVars
<1>19. CASE CloseCandidate
  BY <1>19, <1>0 DEF CloseCandidate, CloseDescriptor, connVars, kernelVars
<1>20. CASE UNCHANGED vars
  BY <1>20 DEF vars, kernelVars, connVars, detVars
<1> QED
  BY <1>1, <1>2, <1>3, <1>4, <1>5, <1>6, <1>7, <1>8, <1>9, <1>10, <1>11, <1>12, <1>13,
     <1>14, <1>15, <1>16, <1>17, <1>18, <1>19, <1>20 DEF Next, Operator, Ui, Worker, Detector

(***************************************************************************)
(* A read that select() announced does not wait, whoever opens, closes or  *)
(* tries to open the source between the two calls, unless its terminal was *)
(* shared (SerialSource.cpp:66-81).                                        *)
(***************************************************************************)
THEOREM ReadsFound == Spec => []ReadsFindInput
<1>1. Init => Marked /\ ReadsFindInput
  BY DEF Init, Marked, ReadsFindInput, Connected, Sampling, NoDetection
<1>2. TypeOK /\ Heard /\ (Marked /\ ReadsFindInput) /\ [Next]_vars
        => (Marked /\ ReadsFindInput)'
  BY ReadStep DEF Heard
<1> QED
  BY <1>1, <1>2, HeardAlways, TypeCorrect, PTL DEF Spec

----------------------------------------------------------------------------
(* The detection as the operator sees it.                                  *)

(* A press, the result posted and the result delivered are the steps the   *)
(* operator sees; any other step is nothing to him, or it shares the       *)
(* terminal while he waits.                                                *)
LEMMA DetectionStep ==
  ASSUME TypeOK, Roles, Tally, ResultIsFirstBest', DetectedIsDeviceSpeed', [Next]_vars
  PROVE  Detection!Next \/ UNCHANGED Detection!vars
<1>0. det = [pc |-> det.pc, k |-> det.k, valid |-> det.valid]
  BY DetShape
<1>1. CASE AutoDetect
  <2>1. button /\ event = NoResult /\ button' = FALSE /\ "detector" \notin disturbed'
        /\ UNCHANGED <<device, event>>
    BY <1>1 DEF AutoDetect, Roles, kernelVars
  <2>2. Detection!Press
    BY <2>1 DEF Detection!Press
  <2> QED
    BY <2>2 DEF Detection!Next
<1>2. CASE Deliver
  <2>1. event # NoResult /\ event' = NoResult /\ button' = TRUE
        /\ UNCHANGED <<device, disturbed>>
    BY <1>2 DEF Deliver, kernelVars
  <2>2. Detection!Show
    BY <2>1 DEF Detection!Show
  <2> QED
    BY <2>2 DEF Detection!Next
<1>3. CASE PostResult
  <2>0. event' # NoResult
    <3>1. best.valid \in Nat /\ MinValid \in Nat \ {0} /\ NoResult \notin Nat
      BY DetShape, CaptureAssumption DEF CaptureAssumption
    <3>2. best.valid >= MinValid => best.baud \in Nat
      BY <3>1, ConstantFacts DEF Tally
    <3> QED
      BY <1>3, <3>1, <3>2 DEF PostResult
  <2>1. det.pc = "open" /\ UNCHANGED <<device, button, disturbed>> /\ event' # NoResult
    BY <1>3, <2>0 DEF PostResult, kernelVars
  <2>2. Detection!Searching
    BY <2>1 DEF Detection!Searching, Roles
  <2>3. event' \in {0} \cup {Candidates[k] : k \in Index}
    BY <2>1 DEF ResultIsFirstBest, Index
  <2>4. event' # 0 /\ "detector" \notin disturbed => event' = device
    BY <2>1 DEF DetectedIsDeviceSpeed
  <2>5. Detection!Answer
    BY <2>1, <2>2, <2>3, <2>4 DEF Detection!Answer
  <2> QED
    BY <2>5 DEF Detection!Next
<1>4. CASE UNCHANGED <<device, button, event, disturbed>>
  BY <1>4 DEF Detection!vars
<1>5. CASE /\ det.pc # "off" /\ "detector" \in disturbed'
           /\ UNCHANGED <<device, button, event>>
  <2>1. Detection!Share
    BY <1>5 DEF Detection!Share, Detection!Searching, Roles
  <2> QED
    BY <2>1 DEF Detection!Next
<1>6. CASE /\ "detector" \in disturbed' <=> "detector" \in disturbed
           /\ UNCHANGED <<device, button, event>>
  BY <1>6 DEF Detection!vars
<1>7. ASSUME Opened, UNCHANGED <<kernelVars, detVars>>
      PROVE  Detection!Next \/ UNCHANGED Detection!vars
  BY <1>5, <1>6, <1>7 DEF Opened, Sampling, Both, kernelVars, detVars
<1>8. CASE ConnectFails
  BY <1>4, <1>5, <1>8 DEF ConnectFails, kernelVars, detVars
<1>9. CASE OpenCandidate
  BY <1>4, <1>5, <1>9 DEF OpenCandidate, Both, kernelVars
<1> QED
  BY <1>1, <1>2, <1>3, <1>4, <1>7, <1>8, <1>9
     DEF Next, Operator, Ui, Worker, Detector, vars, kernelVars, connVars, detVars, Arrive, Gone,
         ConnectSerial, ConnectUdp, Undo, ConnectTcp, NoSocket, Socket, Refused, Accepted,
         NoAddressLeft, Disconnect, Join, WorkerOnly, WorkerCheck, WorkerSelect,
         WorkerTimesOut, WorkerRead, WorkerEnds, SkipCandidate, WindowElapses, DetectorCheck,
         DetectorSelect, DetectorTimesOut, DetectorRead, CloseCandidate, DetectorOnly

(***************************************************************************)
(* Every behaviour of port, candidates and connections is one press, at    *)
(* most one answer, and the button again: pressing and showing happen in   *)
(* the UI thread, answering in the detached one, and the answer is none or *)
(* the speed of the device unless the terminal was shared                  *)
(* (InterfacesPanel.cpp:142-167, BaudDetector.cpp:14-46).                  *)
(***************************************************************************)
THEOREM DetectionRefined == Spec => RefinesSpeedDetection
<1>1. Init => Detection!Init
  BY DEF Init, Detection!Init
<1>2. Heard /\ TypeOK /\ ResultIsFirstBest' /\ DetectedIsDeviceSpeed' /\ [Next]_vars
        => [Detection!Next]_(Detection!vars)
  BY DetectionStep DEF Heard, Held
<1> QED
  BY <1>1, <1>2, HeardAlways, TypeCorrect, FirstBest, DeviceSpeed, PTL
     DEF Spec, RefinesSpeedDetection, Detection!Spec
=============================================================================
