-------------------------- MODULE DdsMonitorProofs --------------------------
(***************************************************************************)
(* Theorems about DdsMonitor, for any domains, endpoints and topics.       *)
(***************************************************************************)
EXTENDS DdsMonitor, FiniteSetTheorems, TLAPS

(* The entry a report leaves has a type and two natural numbers. *)
LEMMA AggregatedType ==
    ASSUME NEW agg \in TopicAgg \cup {NoTopic}, NEW e \in Endpoints, NEW added \in BOOLEAN
    PROVE  Aggregated(agg, e, added) \in TopicAgg
<1>1. TypeOf[e] \in Types /\ KindOf[e] \in Kinds
  BY MonitorAssumption DEF MonitorAssumption
<1>2. Counts(agg) \in [Kinds -> Nat]
  BY DEF Counts, TopicAgg
<1>3. [Counts(agg) EXCEPT ![KindOf[e]] = Max0(@ + Delta(added))] \in [Kinds -> Nat]
  BY <1>1, <1>2 DEF Max0, Delta
<1> QED
  BY <1>1, <1>3 DEF Aggregated, TopicAgg

(***************************************************************************)
(* The type invariant: the counts stay natural numbers because of the      *)
(* lower bound, whatever reports of earlier scans arrive                   *)
(* (GatewayController.cpp:265-275).                                        *)
(***************************************************************************)
THEOREM TypeCorrect == Spec => []TypeOK
<1>1. Init => TypeOK
  BY MonitorAssumption DEF MonitorAssumption, Init, TypeOK, Empty, Report
<1>2. TypeOK /\ [Next]_vars => TypeOK'
  <2> SUFFICES ASSUME TypeOK, [Next]_vars PROVE TypeOK'
    OBVIOUS
  <2> USE MonitorAssumption
  <2>1. ASSUME NEW e \in Endpoints, Discovered(e) PROVE TypeOK'
    BY <2>1 DEF Discovered, Posted, TypeOK, Report, shownVars, readVars, MonitorAssumption
  <2>2. ASSUME NEW e \in Endpoints, Removed(e) PROVE TypeOK'
    BY <2>2 DEF Removed, Posted, TypeOK, Report, shownVars, readVars, MonitorAssumption
  <2>3. CASE Deliver
    <3>1. /\ Head(events) \in Report
          /\ Tail(events) \in Seq(Report) /\ Len(Tail(events)) = Len(events) - 1
      BY <2>3 DEF Deliver, TypeOK
    <3> DEFINE e == Head(events).endpoint
               t == TopicOf[e]
               agg == Aggregated(topic_agg[t], e, Head(events).added)
    <3>2. e \in Endpoints /\ t \in Topics /\ Head(events).added \in BOOLEAN
      BY <3>1 DEF Report, MonitorAssumption
    <3>3. agg \in TopicAgg
      BY <3>2, AggregatedType DEF TypeOK
    <3>4. /\ topic_agg' = [topic_agg EXCEPT ![t] = agg]
          /\ table' = [table EXCEPT ![t] = agg]
      BY <2>3 DEF Deliver
    <3>5. /\ topic_agg' \in [Topics -> TopicAgg \cup {NoTopic}]
          /\ table' \in [Topics -> TopicAgg \cup {NoTopic}]
      BY <3>2, <3>3, <3>4 DEF TypeOK
    <3>6. ghosts' \in 0..Len(events') /\ misplaced' \in Nat
      BY <2>3, <3>1 DEF Deliver, TypeOK, Max0
    <3> QED
      BY <2>3, <3>1, <3>5, <3>6 DEF Deliver, TypeOK, scanVars, readVars, MonitorAssumption
  <2>4. ASSUME NEW d \in Domains, Scan(d) PROVE TypeOK'
    BY <2>4 DEF Scan, TypeOK, Empty, MonitorAssumption
  <2>5. CASE ClearTable
    BY <2>5 DEF ClearTable, TypeOK, Empty, scanVars, eventVars, readVars
  <2>6. ASSUME NEW t \in Topics, StartSampleStream(t) PROVE TypeOK'
    BY <2>6 DEF StartSampleStream, Made, TypeOK, scanVars, eventVars, shownVars
  <2>7. CASE StopSampleStream
    BY <2>7 DEF StopSampleStream, TypeOK, scanVars, eventVars, shownVars
  <2>8. CASE UNCHANGED vars
    BY <2>8 DEF TypeOK, vars, scanVars, eventVars, shownVars, readVars
  <2> QED
    BY <2>1, <2>2, <2>3, <2>4, <2>5, <2>6, <2>7, <2>8 DEF Next, Dds, Operator
<1> QED
  BY <1>1, <1>2, PTL DEF Spec

(***************************************************************************)
(* Rows and entries agree, whatever order scans, clearings and reports     *)
(* come in (DdsMonitorPanel.cpp:65-71, GatewayController.cpp:256-276).     *)
(***************************************************************************)
THEOREM RowsAgree == Spec => []RowsAreAggregates
<1>1. Init => RowsAreAggregates
  BY DEF Init, RowsAreAggregates, Empty
<1>2. TypeOK /\ RowsAreAggregates /\ [Next]_vars => RowsAreAggregates'
  <2> SUFFICES ASSUME TypeOK, RowsAreAggregates, [Next]_vars PROVE RowsAreAggregates'
    OBVIOUS
  <2>1. CASE UNCHANGED shownVars
    BY <2>1 DEF RowsAreAggregates, shownVars
  <2>2. CASE Deliver
    BY <2>2 DEF Deliver, RowsAreAggregates, TypeOK
  <2>3. ASSUME NEW d \in Domains, Scan(d) PROVE RowsAreAggregates'
    BY <2>3 DEF Scan, RowsAreAggregates, Empty
  <2>4. CASE ClearTable
    BY <2>4 DEF ClearTable, RowsAreAggregates, Empty
  <2> QED
    BY <2>1, <2>2, <2>3, <2>4
       DEF Next, Dds, Operator, Discovered, Removed, StartSampleStream, StopSampleStream, vars
<1> QED
  BY <1>1, <1>2, TypeCorrect, PTL DEF Spec

(***************************************************************************)
(* Every way through the sample stream leaves the participant empty, so    *)
(* that the next scan can delete it (GatewayController.cpp:321-406).       *)
(***************************************************************************)
THEOREM StreamLives == Spec => []OnlyTheStreamLives
<1>1. Init => OnlyTheStreamLives
  BY DEF Init, OnlyTheStreamLives, DialogOpen
<1>2. TypeOK /\ OnlyTheStreamLives /\ [Next]_vars => OnlyTheStreamLives'
  <2> SUFFICES ASSUME TypeOK, OnlyTheStreamLives, [Next]_vars PROVE OnlyTheStreamLives'
    OBVIOUS
  <2> USE MonitorAssumption DEF MonitorAssumption
  <2>1. CASE UNCHANGED <<participant, readVars>>
    BY <2>1 DEF OnlyTheStreamLives, DialogOpen, readVars
  <2>2. ASSUME NEW d \in Domains, Scan(d) PROVE OnlyTheStreamLives'
    BY <2>2 DEF Scan, OnlyTheStreamLives, DialogOpen
  <2>3. ASSUME NEW t \in Topics, StartSampleStream(t) PROVE OnlyTheStreamLives'
    <3>1. entities = {} /\ participant # NoParticipant /\ stream = NoTopic
      BY <2>3 DEF StartSampleStream, CanRead, OnlyTheStreamLives, DialogOpen
    <3>2. PICK made \in Made(t) : /\ entities' = entities \cup (made \ Undone(t, made))
                                  /\ stream' = IF "reader" \in made THEN t ELSE stream
      BY <2>3 DEF StartSampleStream
    <3>3. CASE "reader" \in made
      BY <3>1, <3>2, <3>3, <2>3
         DEF StartSampleStream, Made, Undone, OnlyTheStreamLives, DialogOpen, scanVars
    <3>4. CASE "reader" \notin made
      BY <3>1, <3>2, <3>4, <2>3
         DEF StartSampleStream, Made, Undone, OnlyTheStreamLives, DialogOpen, scanVars
    <3> QED
      BY <3>3, <3>4
  <2>4. CASE StopSampleStream
    BY <2>4 DEF StopSampleStream, OnlyTheStreamLives, DialogOpen
  <2> QED
    BY <2>1, <2>2, <2>3, <2>4
       DEF Next, Dds, Operator, Discovered, Removed, Deliver, ClearTable, vars, scanVars,
           readVars
<1> QED
  BY <1>1, <1>2, TypeCorrect, PTL DEF Spec

----------------------------------------------------------------------------
(***************************************************************************)
(* The counts.  A report of the current scan is `own'.  Replayed from some *)
(* set of endpoints, the own reports that wait lead to the endpoints that  *)
(* are known now, and each of them says something new: that set is what    *)
(* the reports taken so far speak of.                                      *)
(***************************************************************************)

Is(e, t, kind) == TopicOf[e] = t /\ KindOf[e] = kind

Of(B, t, kind) == {e \in B : Is(e, t, kind)}

After(B, r) == IF r.added THEN B \cup {r.endpoint} ELSE B \ {r.endpoint}

News(B, r) == r.added <=> r.endpoint \notin B

Replay(h) ==
    /\ \A i \in ghosts..Len(events) : IsFiniteSet(h[i])
    /\ h[Len(events)] = known
    /\ \A i \in (ghosts + 1)..Len(events) :
         News(h[i - 1], events[i]) /\ h[i] = After(h[i - 1], events[i])

(* The counts the endpoints of B have, and those of the table.             *)
CountsFit(B) ==
    \A t \in Topics, kind \in Kinds :
        /\ Reported(t, kind) = Cardinality(Of(B, t, kind))
        /\ Shown(t, kind) - Reported(t, kind) <= misplaced
        /\ Reported(t, kind) - Shown(t, kind) <= misplaced

Accounted == \E h : Replay(h) /\ CountsFit(h[ghosts])

One(condition) == IF condition THEN 1 ELSE 0

(* An endpoint more, or one less, in the set that is counted.              *)
LEMMA OfAfter ==
    ASSUME NEW B, IsFiniteSet(B), NEW r \in Report, News(B, r), NEW t, NEW kind
    PROVE  /\ IsFiniteSet(After(B, r))
           /\ Cardinality(Of(B, t, kind)) \in Nat
           /\ Cardinality(Of(After(B, r), t, kind))
                = Cardinality(Of(B, t, kind))
                    + (IF r.added THEN One(Is(r.endpoint, t, kind))
                                  ELSE -One(Is(r.endpoint, t, kind)))
<1> DEFINE e == r.endpoint
           C == Of(B, t, kind)
           D == Of(After(B, r), t, kind)
<1>1. /\ IsFiniteSet(C) /\ Cardinality(C) \in Nat
  <2>1. IsFiniteSet(C)
    BY FS_Subset DEF Of
  <2> QED
    BY <2>1, FS_CardinalityType
<1>2. IsFiniteSet(After(B, r))
  BY FS_AddElement, FS_RemoveElement DEF After
<1>3. r.added \in BOOLEAN
  BY DEF Report
<1>4. CASE r.added /\ Is(e, t, kind)
  <2>1. D = C \cup {e} /\ e \notin C
    BY <1>4 DEF Of, After, News
  <2>2. Cardinality(C \cup {e}) = Cardinality(C) + 1
    BY <1>1, <2>1, FS_AddElement
  <2> QED
    BY <1>1, <1>2, <1>4, <2>1, <2>2 DEF One
<1>5. CASE ~r.added /\ Is(e, t, kind)
  <2>1. D = C \ {e} /\ e \in C
    BY <1>3, <1>5 DEF Of, After, News
  <2>2. Cardinality(C \ {e}) = Cardinality(C) - 1
    BY <1>1, <2>1, FS_RemoveElement
  <2> QED
    BY <1>1, <1>2, <1>5, <2>1, <2>2 DEF One
<1>6. CASE ~Is(e, t, kind)
  <2>1. D = C
    BY <1>6 DEF Of, After
  <2> QED
    BY <1>1, <1>2, <1>3, <1>6, <2>1 DEF One
<1> QED
  BY <1>3, <1>4, <1>5, <1>6

----------------------------------------------------------------------------

Match(r, t, kind, added) == Is(r.endpoint, t, kind) /\ r.added = added

Places(t, kind, added) == {i \in ghosts + 1 .. Len(events) : Match(events[i], t, kind, added)}

(* The reports of one kind that wait can be counted.                       *)
LEMMA PlacesFinite ==
    ASSUME TypeOK
    PROVE  \A t, kind, added :
             /\ IsFiniteSet(Places(t, kind, added))
             /\ Waiting(t, kind, added) = Cardinality(Places(t, kind, added))
             /\ Waiting(t, kind, added) \in Nat
<1> SUFFICES ASSUME NEW t, NEW kind, NEW added
             PROVE  /\ IsFiniteSet(Places(t, kind, added))
                    /\ Waiting(t, kind, added) = Cardinality(Places(t, kind, added))
                    /\ Waiting(t, kind, added) \in Nat
  OBVIOUS
<1>1. ghosts + 1 \in Int /\ Len(events) \in Int
  BY DEF TypeOK
<1>2. IsFiniteSet(ghosts + 1 .. Len(events))
  BY <1>1, FS_Interval
<1>3. IsFiniteSet(Places(t, kind, added))
  BY <1>2, FS_Subset DEF Places
<1>4. Waiting(t, kind, added) = Cardinality(Places(t, kind, added))
  BY DEF Waiting, Places, Match, Is
<1> QED
  BY <1>3, <1>4, FS_CardinalityType

(* A report that is posted waits with the others.                          *)
LEMMA WaitingPosted ==
    ASSUME TypeOK, NEW r \in Report, events' = Append(events, r), ghosts' = ghosts,
           NEW t, NEW kind, NEW added
    PROVE  Waiting(t, kind, added)' = Waiting(t, kind, added) + One(Match(r, t, kind, added))
<1> DEFINE n == Len(events)
           P == Places(t, kind, added)
           Q == {i \in ghosts + 1 .. n + 1 : Match(events'[i], t, kind, added)}
<1>1. /\ n \in Nat /\ ghosts \in 0..n /\ Len(events') = n + 1 /\ events'[n + 1] = r
      /\ \A i \in 1..n : events'[i] = events[i]
  BY DEF TypeOK
<1>2. Waiting(t, kind, added)' = Cardinality(Q)
  <2>1. Waiting(t, kind, added)'
          = Cardinality({i \in ghosts' + 1 .. Len(events') :
              LET s == events'[i] IN
              /\ TopicOf[s.endpoint] = t /\ KindOf[s.endpoint] = kind /\ s.added = added})
    BY DEF Waiting
  <2> QED
    BY <1>1, <2>1 DEF Match, Is
<1>3. IsFiniteSet(P) /\ Waiting(t, kind, added) = Cardinality(P) /\ Cardinality(P) \in Nat
  BY PlacesFinite
<1>4. \A i \in ghosts + 1 .. n : events'[i] = events[i]
  BY <1>1
<1>5. \A i : i \in ghosts + 1 .. n + 1 <=> i \in ghosts + 1 .. n \/ i = n + 1
  BY <1>1
<1>6. n + 1 \notin P
  BY <1>1 DEF Places
<1>7. CASE Match(r, t, kind, added)
  <2>1. Q = P \cup {n + 1}
    BY <1>1, <1>4, <1>5, <1>7 DEF Places
  <2>2. Cardinality(P \cup {n + 1}) = Cardinality(P) + 1
    <3> HIDE DEF P
    <3> QED
      BY <1>3, <1>6, FS_AddElement
  <2> QED
    BY <1>2, <1>3, <1>7, <2>1, <2>2 DEF One
<1>8. CASE ~Match(r, t, kind, added)
  <2>1. Q = P
    BY <1>1, <1>4, <1>5, <1>8 DEF Places
  <2>2. One(Match(r, t, kind, added)) = 0
    BY <1>8 DEF One
  <2> HIDE DEF P, Q
  <2> QED
    BY <1>2, <1>3, <2>1, <2>2
<1> QED
  BY <1>7, <1>8

(* A report that is taken waits no more; one of an earlier scan never did. *)
LEMMA WaitingTaken ==
    ASSUME TypeOK, events # << >>, events' = Tail(events), ghosts' = Max0(ghosts - 1),
           NEW t, NEW kind, NEW added
    PROVE  /\ Waiting(t, kind, added)
                = Waiting(t, kind, added)'
                    + One(ghosts = 0 /\ Match(Head(events), t, kind, added))
           /\ Waiting(t, kind, added)' \in Nat
<1> DEFINE n == Len(events)
           g == ghosts'
           P == Places(t, kind, added)
           Q == {i \in g + 1 .. n - 1 : Match(events'[i], t, kind, added)}
           R == {i + 1 : i \in Q}
           f == [i \in Q |-> i + 1]
<1>1. /\ n \in Nat /\ n >= 1 /\ ghosts \in 0..n /\ Len(events') = n - 1
      /\ Head(events) = events[1]
      /\ \A i \in 1..(n - 1) : events'[i] = events[i + 1]
  BY DEF TypeOK
<1>2. /\ g \in Nat /\ g = IF ghosts = 0 THEN 0 ELSE ghosts - 1
  BY <1>1 DEF Max0
<1>3. Waiting(t, kind, added)' = Cardinality(Q)
  <2>1. Waiting(t, kind, added)'
          = Cardinality({i \in ghosts' + 1 .. Len(events') :
              LET s == events'[i] IN
              /\ TopicOf[s.endpoint] = t /\ KindOf[s.endpoint] = kind /\ s.added = added})
    BY DEF Waiting
  <2> QED
    BY <1>1, <2>1 DEF Match, Is
<1>4. IsFiniteSet(P) /\ Waiting(t, kind, added) = Cardinality(P) /\ Cardinality(P) \in Nat
  BY PlacesFinite
<1>5. IsFiniteSet(Q)
  <2>1. g + 1 \in Int /\ n - 1 \in Int
    BY <1>1, <1>2
  <2>2. IsFiniteSet(g + 1 .. n - 1)
    BY <2>1, FS_Interval
  <2> QED
    BY <2>2, FS_Subset
<1>6. IsFiniteSet(R) /\ Cardinality(R) = Cardinality(Q)
  <2>1. f \in Bijection(Q, R)
    <3>1. \A i, j \in Q : i + 1 = j + 1 => i = j
      BY <1>1, <1>2
    <3> HIDE DEF Q
    <3> QED
      BY <3>1 DEF Bijection, Injection, Surjection, IsInjective
  <2> HIDE DEF Q, R, f
  <2> QED
    BY <1>5, <2>1, FS_Bijection DEF ExistsBijection
<1>7. \A i : i \in R <=> i \in g + 2 .. n /\ Match(events[i], t, kind, added)
  <2>1. ASSUME NEW i \in R PROVE i \in g + 2 .. n /\ Match(events[i], t, kind, added)
    <3>1. PICK j \in Q : i = j + 1
      OBVIOUS
    <3>2. j \in 1..(n - 1) /\ j \in g + 1 .. n - 1 /\ Match(events'[j], t, kind, added)
      BY <1>1, <1>2, <3>1
    <3> QED
      BY <1>1, <1>2, <3>1, <3>2
  <2>2. ASSUME NEW i \in g + 2 .. n, Match(events[i], t, kind, added) PROVE i \in R
    <3>1. i - 1 \in g + 1 .. n - 1 /\ i - 1 \in 1..(n - 1) /\ (i - 1) + 1 = i
      BY <1>1, <1>2
    <3>2. events'[i - 1] = events[i]
      BY <1>1, <3>1
    <3>3. i - 1 \in Q
      BY <2>2, <3>1, <3>2
    <3> QED
      BY <3>1, <3>3
  <2> QED
    BY <2>1, <2>2
<1>8. Cardinality(Q) \in Nat
  BY <1>5, FS_CardinalityType
<1> HIDE DEF R
<1>9. CASE ghosts # 0
  <2>1. g + 2 = ghosts + 1
    BY <1>1, <1>2, <1>9
  <2>2. P = R
    BY <1>7, <2>1 DEF Places
  <2>3. One(ghosts = 0 /\ Match(Head(events), t, kind, added)) = 0
    BY <1>9 DEF One
  <2> HIDE DEF P, Q
  <2> QED
    BY <1>3, <1>4, <1>6, <1>8, <2>2, <2>3
<1>10. CASE ghosts = 0 /\ Match(Head(events), t, kind, added)
  <2>1. \A i : i \in ghosts + 1 .. n <=> i \in g + 2 .. n \/ i = 1
    BY <1>1, <1>2, <1>10
  <2>2. P = R \cup {1} /\ 1 \notin R
    BY <1>1, <1>2, <1>7, <1>10, <2>1 DEF Places
  <2>3. Cardinality(R \cup {1}) = Cardinality(R) + 1
    BY <1>6, <2>2, FS_AddElement
  <2> QED
    BY <1>3, <1>4, <1>6, <1>8, <1>10, <2>2, <2>3 DEF One
<1>11. CASE ghosts = 0 /\ ~Match(Head(events), t, kind, added)
  <2>1. \A i : i \in ghosts + 1 .. n <=> i \in g + 2 .. n \/ i = 1
    BY <1>1, <1>2, <1>11
  <2>2. P = R
    BY <1>1, <1>7, <1>11, <2>1 DEF Places
  <2>3. One(ghosts = 0 /\ Match(Head(events), t, kind, added)) = 0
    BY <1>11 DEF One
  <2> HIDE DEF P, Q
  <2> QED
    BY <1>3, <1>4, <1>6, <1>8, <2>2, <2>3
<1> QED
  BY <1>9, <1>10, <1>11

(* What the table shows after a report.                                    *)
LEMMA ShownAfterReport ==
    ASSUME TypeOK, Deliver, NEW t \in Topics, NEW kind \in Kinds
    PROVE  /\ Shown(t, kind) \in Nat
           /\ Shown(t, kind)' = IF Is(Head(events).endpoint, t, kind)
                                THEN Max0(Shown(t, kind) + Delta(Head(events).added))
                                ELSE Shown(t, kind)
<1> DEFINE e == Head(events).endpoint
           added == Head(events).added
           agg == Aggregated(topic_agg[TopicOf[e]], e, added)
<1>1. /\ Head(events) \in Report /\ e \in Endpoints /\ added \in BOOLEAN
      /\ TopicOf[e] \in Topics /\ KindOf[e] \in Kinds
  <2>1. events \in Seq(Report) /\ events # << >>
    BY DEF Deliver, TypeOK
  <2>2. Head(events) \in Report
    BY <2>1
  <2> QED
    BY <2>2, MonitorAssumption DEF Report, MonitorAssumption
<1>2. topic_agg' = [topic_agg EXCEPT ![TopicOf[e]] = agg]
  BY DEF Deliver
<1>3. \A u \in Topics : topic_agg[u] \in TopicAgg \cup {NoTopic}
  BY DEF TypeOK
<1>4. \A u \in Topics : Counts(topic_agg[u]) \in [Kinds -> Nat]
  BY <1>3 DEF Counts, TopicAgg
<1>5. agg \in TopicAgg /\ agg # NoTopic
  BY <1>1, <1>3, AggregatedType, MonitorAssumption DEF MonitorAssumption
<1>6. Shown(t, kind) \in Nat
  BY <1>4 DEF Shown
<1>7. CASE TopicOf[e] = t
  <2>1. topic_agg'[t] = agg
    BY <1>1, <1>2, <1>7 DEF TypeOK
  <2>2. Shown(t, kind)' = agg.count[kind]
    BY <1>5, <2>1 DEF Shown, Counts
  <2>3. agg.count = [Counts(topic_agg[t]) EXCEPT ![KindOf[e]] = Max0(@ + Delta(added))]
    BY <1>7 DEF Aggregated
  <2>4. agg.count[kind] = IF KindOf[e] = kind
                          THEN Max0(Counts(topic_agg[t])[kind] + Delta(added))
                          ELSE Counts(topic_agg[t])[kind]
    BY <1>4, <2>3
  <2> QED
    BY <1>6, <1>7, <2>2, <2>4 DEF Is, Shown
<1>8. CASE TopicOf[e] # t
  <2>1. topic_agg'[t] = topic_agg[t]
    BY <1>2, <1>8 DEF TypeOK
  <2>2. Shown(t, kind)' = Shown(t, kind)
    BY <2>1 DEF Shown
  <2> QED
    BY <1>6, <1>8, <2>2 DEF Is
<1> QED
  BY <1>7, <1>8

(* Nothing is known, and no report of this scan waits.                     *)
Nothing ==
    /\ known = {} /\ ghosts = Len(events) /\ Len(events) \in Nat
    /\ topic_agg = Empty /\ misplaced = 0

(* With no report of this scan and no endpoint nothing is reported.        *)
LEMMA NothingReported ==
    ASSUME Nothing
    PROVE  Accounted
<1> USE DEF Nothing
<1> DEFINE h == [i \in ghosts..ghosts |-> {}]
<1>1. h[ghosts] = {} /\ ghosts \in Nat
  OBVIOUS
<1>2. Replay(h)
  <2>1. IsFiniteSet({})
    BY FS_EmptySet
  <2> QED
    BY <2>1 DEF Replay
<1>3. ASSUME NEW t \in Topics, NEW kind \in Kinds
      PROVE  /\ Shown(t, kind) = 0 /\ Reported(t, kind) = 0
             /\ Cardinality(Of({}, t, kind)) = 0
  <2>1. Cardinality({}) = 0
    BY FS_EmptySet
  <2>2. Of({}, t, kind) = {}
    BY DEF Of
  <2>3. {e \in known : TopicOf[e] = t /\ KindOf[e] = kind} = {}
    OBVIOUS
  <2>4. \A added : Waiting(t, kind, added) = 0
    <3> SUFFICES ASSUME NEW added PROVE Waiting(t, kind, added) = 0
      OBVIOUS
    <3>1. {i \in ghosts + 1 .. Len(events) :
             LET r == events[i] IN
             /\ TopicOf[r.endpoint] = t /\ KindOf[r.endpoint] = kind /\ r.added = added} = {}
      OBVIOUS
    <3> QED
      BY <2>1, <3>1 DEF Waiting
  <2>5. Shown(t, kind) = 0
    BY DEF Shown, Counts, Empty
  <2>6. Reported(t, kind) = 0 - 0 + 0
    <3>1. Cardinality({e \in known : TopicOf[e] = t /\ KindOf[e] = kind}) = 0
      BY <2>1, <2>3
    <3>2. Waiting(t, kind, TRUE) = 0 /\ Waiting(t, kind, FALSE) = 0
      BY <2>4
    <3> QED
      BY <3>1, <3>2 DEF Reported
  <2>7. Cardinality(Of({}, t, kind)) = 0
    BY <2>1, <2>2
  <2> QED
    BY <2>5, <2>6, <2>7
<1>4. CountsFit({})
  BY <1>3 DEF CountsFit
<1> HIDE DEF h
<1> QED
  BY <1>1, <1>2, <1>4 DEF Accounted

(* What is reported depends on the reports and on what is known.           *)
LEMMA ReportedSum ==
    ASSUME TypeOK, IsFiniteSet(known), NEW t, NEW kind
    PROVE  /\ Reported(t, kind) = Cardinality(Of(known, t, kind))
                - Waiting(t, kind, TRUE) + Waiting(t, kind, FALSE)
           /\ Cardinality(Of(known, t, kind)) \in Nat
           /\ Waiting(t, kind, TRUE) \in Nat /\ Waiting(t, kind, FALSE) \in Nat
<1>1. IsFiniteSet(Of(known, t, kind))
  BY FS_Subset DEF Of
<1>2. {e \in known : TopicOf[e] = t /\ KindOf[e] = kind} = Of(known, t, kind)
  BY DEF Of, Is
<1> QED
  BY <1>1, <1>2, FS_CardinalityType, PlacesFinite DEF Reported

(* Discovered and Removed: the count of what is known and the reports that *)
(* wait move together.                                                     *)
LEMMA PostedAccounted ==
    ASSUME TypeOK, TypeOK', Accounted, NEW r \in Report, News(known, r),
           known' = After(known, r), events' = Append(events, r),
           UNCHANGED <<ghosts, misplaced, topic_agg>>
    PROVE  Accounted'
<1>1. PICK h : Replay(h) /\ CountsFit(h[ghosts])
  BY DEF Accounted
<1> DEFINE n == Len(events)
<1>2. /\ n \in Nat /\ ghosts \in 0..n /\ Len(events') = n + 1 /\ events'[n + 1] = r
      /\ \A i \in 1..n : events'[i] = events[i]
  BY DEF TypeOK
<1>3. IsFiniteSet(known) /\ IsFiniteSet(known')
  <2>1. n \in ghosts..n
    BY <1>2
  <2>2. IsFiniteSet(known)
    BY <1>1, <2>1 DEF Replay
  <2> QED
    BY <2>2, OfAfter
<1>4. PICK k : k[n + 1] = known' /\ \A i \in ghosts..n : k[i] = h[i]
  <2> DEFINE f == [i \in ghosts..(n + 1) |-> IF i = n + 1 THEN known' ELSE h[i]]
  <2>1. f[n + 1] = known' /\ \A i \in ghosts..n : f[i] = h[i]
    BY <1>2
  <2> QED
    BY <2>1
<1>5. Replay(k)'
  <2>1. \A i \in ghosts..(n + 1) : i \in ghosts..n \/ i = n + 1
    BY <1>2
  <2>2. \A i \in ghosts..(n + 1) : IsFiniteSet(k[i])
    BY <1>1, <1>3, <1>4, <2>1 DEF Replay
  <2>3. ASSUME NEW i \in (ghosts + 1)..(n + 1)
        PROVE  News(k[i - 1], events'[i]) /\ k[i] = After(k[i - 1], events'[i])
    <3>1. CASE i = n + 1
      <4>1. i - 1 = n /\ n \in ghosts..n
        BY <1>2, <3>1
      <4>2. k[i - 1] = known
        BY <1>1, <1>4, <4>1 DEF Replay
      <4> QED
        BY <1>2, <1>4, <3>1, <4>2
    <3>2. CASE i # n + 1
      <4>1. i \in (ghosts + 1)..n /\ i \in ghosts..n /\ i - 1 \in ghosts..n /\ i \in 1..n
        BY <1>2, <3>2
      <4>2. News(h[i - 1], events[i]) /\ h[i] = After(h[i - 1], events[i])
        BY <1>1, <4>1 DEF Replay
      <4> QED
        BY <1>2, <1>4, <4>1, <4>2
    <3> QED
      BY <3>1, <3>2
  <2>4. (/\ \A i \in ghosts..Len(events) : IsFiniteSet(k[i])
         /\ k[Len(events)] = known
         /\ \A i \in (ghosts + 1)..Len(events) :
              News(k[i - 1], events[i]) /\ k[i] = After(k[i - 1], events[i]))'
    BY <1>2, <1>4, <2>2, <2>3
  <2> QED
    BY <2>4 DEF Replay
<1>6. ASSUME NEW t \in Topics, NEW kind \in Kinds
      PROVE  Reported(t, kind)' = Reported(t, kind) /\ Shown(t, kind)' = Shown(t, kind)
  <2> DEFINE c == Cardinality(Of(known, t, kind))
             m == Waiting(t, kind, TRUE)
             l == Waiting(t, kind, FALSE)
             x == One(Is(r.endpoint, t, kind))
  <2>1. /\ Reported(t, kind) = c - m + l
        /\ c \in Nat /\ m \in Nat /\ l \in Nat
    BY <1>3, ReportedSum
  <2>2. Reported(t, kind)' = c' - m' + l'
    <3>1. {e \in known' : TopicOf[e] = t /\ KindOf[e] = kind} = Of(known', t, kind)
      BY DEF Of, Is
    <3> QED
      BY <3>1 DEF Reported, Of
  <2>3. r.added \in BOOLEAN
    BY DEF Report
  <2>4. c' = c + (IF r.added THEN x ELSE -x)
    <3>1. Cardinality(Of(known', t, kind)) = c + (IF r.added THEN x ELSE -x)
      BY <1>3, OfAfter
    <3> QED
      BY <3>1 DEF Of
  <2>5. /\ m' = m + One(Match(r, t, kind, TRUE))
        /\ l' = l + One(Match(r, t, kind, FALSE))
    BY WaitingPosted
  <2>6. x \in Int
    BY DEF One
  <2>7. IF r.added THEN One(Match(r, t, kind, TRUE)) = x /\ One(Match(r, t, kind, FALSE)) = 0
                   ELSE One(Match(r, t, kind, TRUE)) = 0 /\ One(Match(r, t, kind, FALSE)) = x
    BY <2>3 DEF Match, One
  <2>8. Shown(t, kind)' = Shown(t, kind)
    BY DEF Shown
  <2> HIDE DEF c, m, l, x
  <2>9. c' - m' + l' = c - m + l
    <3>1. CASE r.added
      <4>1. c' = c + x /\ m' = m + x /\ l' = l + 0
        BY <2>4, <2>5, <2>7, <3>1
      <4> QED
        BY <2>1, <2>6, <4>1
    <3>2. CASE ~r.added
      <4>1. c' = c - x /\ m' = m + 0 /\ l' = l + x
        BY <2>1, <2>4, <2>5, <2>6, <2>7, <3>2
      <4> QED
        BY <2>1, <2>6, <4>1
    <3> QED
      BY <3>1, <3>2
  <2> QED
    BY <2>1, <2>2, <2>8, <2>9
<1>7. k[ghosts'] = h[ghosts]
  BY <1>2, <1>4
<1>8. ASSUME NEW t \in Topics, NEW kind \in Kinds
      PROVE  /\ Reported(t, kind)' = Cardinality(Of(k[ghosts'], t, kind))
             /\ Shown(t, kind)' - Reported(t, kind)' <= misplaced'
             /\ Reported(t, kind)' - Shown(t, kind)' <= misplaced'
  BY <1>1, <1>6, <1>7 DEF CountsFit
<1>9. CountsFit(k[ghosts])'
  BY <1>8 DEF CountsFit, Of, Is
<1> QED
  BY <1>5, <1>9 DEF Accounted

(* A report taken is counted when it is of this scan.                      *)
LEMMA ReportedTaken ==
    ASSUME TypeOK, IsFiniteSet(known), Deliver, NEW t, NEW kind
    PROVE  Reported(t, kind)'
             = Reported(t, kind)
                 + (IF ghosts = 0
                    THEN IF Head(events).added THEN One(Is(Head(events).endpoint, t, kind))
                                               ELSE -One(Is(Head(events).endpoint, t, kind))
                    ELSE 0)
<1> DEFINE r == Head(events)
           c == Cardinality(Of(known, t, kind))
           m == Waiting(t, kind, TRUE)
           l == Waiting(t, kind, FALSE)
           x == One(Is(r.endpoint, t, kind))
           mOne == One(ghosts = 0 /\ Match(r, t, kind, TRUE))
           lOne == One(ghosts = 0 /\ Match(r, t, kind, FALSE))
<1>1. /\ Reported(t, kind) = c - m + l
      /\ c \in Nat /\ m \in Nat /\ l \in Nat
  BY ReportedSum
<1>2. known' = known
  BY DEF Deliver, scanVars
<1>3. PICK m1, l1 : m1 = Waiting(t, kind, TRUE)' /\ l1 = Waiting(t, kind, FALSE)'
  OBVIOUS
<1>4. Reported(t, kind)' = c - m1 + l1
  <2>1. {e \in known' : TopicOf[e] = t /\ KindOf[e] = kind} = Of(known, t, kind)
    BY <1>2 DEF Of, Is
  <2> QED
    BY <1>3, <2>1 DEF Reported
<1>5. /\ m = m1 + mOne /\ l = l1 + lOne
      /\ m1 \in Nat /\ l1 \in Nat
  BY <1>3, WaitingTaken DEF Deliver
<1>6. r.added \in BOOLEAN
  <2>1. events \in Seq(Report) /\ events # << >>
    BY DEF Deliver, TypeOK
  <2>2. Head(events) \in Report
    BY <2>1
  <2> QED
    BY <2>2 DEF Report
<1>7. x \in Int
  BY DEF One
<1>8. IF ghosts # 0 THEN mOne = 0 /\ lOne = 0
      ELSE IF r.added THEN mOne = x /\ lOne = 0
                      ELSE mOne = 0 /\ lOne = x
  BY <1>6 DEF Match, One
<1> HIDE DEF c, m, l, x, r, mOne, lOne
<1>9. CASE ghosts # 0
  <2>1. mOne = 0 /\ lOne = 0
    BY <1>8, <1>9
  <2>2. c - m1 + l1 = (c - m + l) + 0
    BY <1>1, <1>5, <2>1
  <2> QED
    BY <1>1, <1>4, <1>9, <2>2
<1>10. CASE ghosts = 0 /\ r.added
  <2>1. mOne = x /\ lOne = 0
    BY <1>8, <1>10
  <2>2. c - m1 + l1 = (c - m + l) + x
    BY <1>1, <1>5, <1>7, <2>1
  <2> QED
    BY <1>1, <1>4, <1>10, <2>2 DEF x, r
<1>11. CASE ghosts = 0 /\ ~r.added
  <2>1. mOne = 0 /\ lOne = x
    BY <1>8, <1>11
  <2>2. c - m1 + l1 = (c - m + l) + (-x)
    BY <1>1, <1>5, <1>7, <2>1
  <2> QED
    BY <1>1, <1>4, <1>11, <2>2 DEF x, r
<1> QED
  BY <1>9, <1>10, <1>11

(* Deliver: a report of this scan makes one step of the replay, and one of *)
(* an earlier scan moves what is shown by one.                             *)
LEMMA TakenAccounted ==
    ASSUME TypeOK, Accounted, Deliver
    PROVE  Accounted'
<1>1. PICK h : Replay(h) /\ CountsFit(h[ghosts])
  BY DEF Accounted
<1> DEFINE n == Len(events)
           r == Head(events)
<1>2. /\ n \in Nat /\ n >= 1 /\ ghosts \in 0..n
      /\ Len(events') = n - 1 /\ r = events[1] /\ r \in Report
      /\ \A i \in 1..(n - 1) : events'[i] = events[i + 1]
  <2>1. events \in Seq(Report) /\ events # << >> /\ events' = Tail(events)
    BY DEF Deliver, TypeOK
  <2> QED
    BY <2>1 DEF TypeOK
<1>3. /\ ghosts' \in Nat /\ ghosts' = IF ghosts = 0 THEN 0 ELSE ghosts - 1
      /\ misplaced \in Nat
      /\ misplaced' = IF ghosts = 0 THEN misplaced ELSE misplaced + 1
      /\ known' = known
  BY <1>2 DEF Deliver, Max0, TypeOK, scanVars
<1>4. IsFiniteSet(known)
  <2>1. n \in ghosts..n
    BY <1>2
  <2> QED
    BY <1>1, <2>1 DEF Replay
<1>5. PICK k : \A i \in ghosts'..(n - 1) : k[i] = h[i + 1]
  <2> DEFINE f == [i \in ghosts'..(n - 1) |-> h[i + 1]]
  <2>1. \A i \in ghosts'..(n - 1) : f[i] = h[i + 1]
    OBVIOUS
  <2> QED
    BY <2>1
<1>6. ghosts' \in ghosts'..(n - 1)
  BY <1>2, <1>3
<1>7. Replay(k)'
  <2>1. \A i \in ghosts'..(n - 1) : i + 1 \in ghosts..n
    BY <1>2, <1>3
  <2>2. \A i \in ghosts'..(n - 1) : IsFiniteSet(k[i])
    BY <1>1, <1>5, <2>1 DEF Replay
  <2>3. k[n - 1] = known'
    <3>1. n - 1 \in ghosts'..(n - 1) /\ (n - 1) + 1 = n
      BY <1>2, <1>3
    <3> QED
      BY <1>1, <1>3, <1>5, <3>1 DEF Replay
  <2>4. ASSUME NEW i \in (ghosts' + 1)..(n - 1)
        PROVE  News(k[i - 1], events'[i]) /\ k[i] = After(k[i - 1], events'[i])
    <3>1. /\ i + 1 \in (ghosts + 1)..n /\ i \in ghosts'..(n - 1) /\ i - 1 \in ghosts'..(n - 1)
          /\ i \in 1..(n - 1) /\ (i - 1) + 1 = i /\ (i + 1) - 1 = i
      BY <1>2, <1>3
    <3>2. News(h[i], events[i + 1]) /\ h[i + 1] = After(h[i], events[i + 1])
      BY <1>1, <3>1 DEF Replay
    <3>3. k[i - 1] = h[i] /\ k[i] = h[i + 1] /\ events'[i] = events[i + 1]
      BY <1>2, <1>5, <3>1
    <3> QED
      BY <3>2, <3>3
  <2>5. (/\ \A i \in ghosts..Len(events) : IsFiniteSet(k[i])
         /\ k[Len(events)] = known
         /\ \A i \in (ghosts + 1)..Len(events) :
              News(k[i - 1], events[i]) /\ k[i] = After(k[i - 1], events[i]))'
    BY <1>2, <2>2, <2>3, <2>4
  <2> QED
    BY <2>5 DEF Replay
<1>8. ASSUME NEW t \in Topics, NEW kind \in Kinds
      PROVE  /\ Reported(t, kind)' = Cardinality(Of(k[ghosts'], t, kind))
             /\ Shown(t, kind)' - Reported(t, kind)' <= misplaced'
             /\ Reported(t, kind)' - Shown(t, kind)' <= misplaced'
  <2> DEFINE s == Shown(t, kind)
             q == Reported(t, kind)
             x == One(Is(r.endpoint, t, kind))
  <2>1. /\ s \in Nat
        /\ s' = IF Is(r.endpoint, t, kind) THEN Max0(s + Delta(r.added)) ELSE s
    BY ShownAfterReport
  <2>2. q' = q + (IF ghosts = 0 THEN IF r.added THEN x ELSE -x ELSE 0)
    BY <1>4, ReportedTaken
  <2>3. q = Cardinality(Of(h[ghosts], t, kind)) /\ s - q <= misplaced /\ q - s <= misplaced
    BY <1>1 DEF CountsFit
  <2>4. IsFiniteSet(h[ghosts])
    <3>1. ghosts \in ghosts..n
      BY <1>2
    <3> QED
      BY <1>1, <3>1 DEF Replay
  <2>5. q \in Nat
    <3>1. IsFiniteSet(Of(h[ghosts], t, kind))
      BY <2>4, FS_Subset DEF Of
    <3> QED
      BY <2>3, <3>1, FS_CardinalityType
  <2>6. r.added \in BOOLEAN
    BY <1>2 DEF Report
  <2>7. /\ x = IF Is(r.endpoint, t, kind) THEN 1 ELSE 0
        /\ Delta(r.added) = IF r.added THEN 1 ELSE -1
        /\ \A y \in Int : Max0(y) = IF y > 0 THEN y ELSE 0
    BY <2>6 DEF One, Delta, Max0
  <2>8. CASE ghosts # 0
    <3>1. Cardinality(Of(k[ghosts'], t, kind)) = q
      <4>1. k[ghosts'] = h[ghosts]
        BY <1>2, <1>3, <1>5, <1>6, <2>8
      <4> QED
        BY <2>3, <4>1
    <3> HIDE DEF s, q, x, r, n
    <3>2. q' = q
      BY <2>2, <2>5, <2>8
    <3>3. s' - s <= 1 /\ s - s' <= 1 /\ s' \in Nat
      BY <2>1, <2>6, <2>7
    <3>4. s' - q' <= misplaced' /\ q' - s' <= misplaced'
      BY <1>3, <2>1, <2>3, <2>5, <2>8, <3>2, <3>3
    <3> QED
      BY <3>1, <3>2, <3>4 DEF s, q
  <2>9. CASE ghosts = 0
    <3>1. News(h[0], r) /\ k[ghosts'] = After(h[0], r)
      <4>1. 1 \in (ghosts + 1)..Len(events) /\ 1 - 1 = 0 /\ 0 + 1 = 1
        BY <1>2, <2>9
      <4>2. News(h[1 - 1], events[1]) /\ h[1] = After(h[1 - 1], events[1])
        BY <1>1, <4>1 DEF Replay
      <4> QED
        BY <1>2, <1>3, <1>5, <1>6, <2>9, <4>1, <4>2
    <3>2. /\ Cardinality(Of(k[ghosts'], t, kind)) = q + (IF r.added THEN x ELSE -x)
          /\ Cardinality(Of(k[ghosts'], t, kind)) \in Nat
      <4>1. /\ IsFiniteSet(After(h[0], r))
            /\ Cardinality(Of(After(h[0], r), t, kind))
                 = Cardinality(Of(h[0], t, kind)) + (IF r.added THEN x ELSE -x)
        BY <1>2, <2>4, <2>9, <3>1, OfAfter
      <4>2. IsFiniteSet(Of(After(h[0], r), t, kind))
        BY <4>1, FS_Subset DEF Of
      <4> QED
        BY <2>3, <2>9, <3>1, <4>1, <4>2, FS_CardinalityType
    <3>3. q' = Cardinality(Of(k[ghosts'], t, kind)) /\ q' \in Nat
      BY <2>2, <2>9, <3>2
    <3> HIDE DEF s, q, x, r, n
    <3>4. misplaced' = misplaced
      BY <1>3, <2>9
    <3>5. CASE ~Is(r.endpoint, t, kind)
      <4>1. q' = q /\ s' = s
        BY <2>1, <2>2, <2>5, <2>6, <2>7, <2>9, <3>5
      <4> QED
        BY <2>3, <3>3, <3>4, <4>1 DEF s, q
    <3>6. CASE Is(r.endpoint, t, kind) /\ r.added
      <4>1. q' = q + 1 /\ s' = s + 1
        BY <2>1, <2>2, <2>5, <2>7, <2>9, <3>6
      <4>2. s' - q' <= misplaced' /\ q' - s' <= misplaced'
        BY <1>3, <2>1, <2>3, <2>5, <3>4, <4>1
      <4> QED
        BY <3>3, <4>2 DEF s, q
    <3>7. CASE Is(r.endpoint, t, kind) /\ ~r.added
      <4>1. q' = q - 1 /\ s' = IF s > 0 THEN s - 1 ELSE 0
        BY <2>1, <2>2, <2>5, <2>7, <2>9, <3>7
      <4>2. s' - q' <= misplaced' /\ q' - s' <= misplaced'
        BY <1>3, <2>1, <2>3, <2>5, <3>3, <3>4, <4>1
      <4> QED
        BY <3>3, <4>2 DEF s, q
    <3> QED
      BY <3>5, <3>6, <3>7
  <2> QED
    BY <2>8, <2>9
<1>9. CountsFit(k[ghosts])'
  BY <1>8 DEF CountsFit, Of, Is
<1> QED
  BY <1>7, <1>9 DEF Accounted

(* The counts are those of the replayed set, whatever happens.             *)
LEMMA AccountedAlways == Spec => []Accounted
<1>1. Init => Nothing
  BY DEF Init, Nothing
<1>2. Nothing => Accounted
  BY NothingReported
<1>3. Nothing' => Accounted'
  BY <1>2, PTL
<1>4. TypeOK /\ TypeOK' /\ Accounted /\ [Next]_vars => Accounted'
  <2> SUFFICES ASSUME TypeOK, TypeOK', Accounted, [Next]_vars PROVE Accounted'
    OBVIOUS
  <2>1. ASSUME UNCHANGED <<events, ghosts, misplaced, topic_agg, known>> PROVE Accounted'
    BY <2>1 DEF Accounted, Replay, CountsFit, Reported, Shown, Waiting
  <2>2. ASSUME NEW e \in Endpoints, Discovered(e) PROVE Accounted'
    <3> DEFINE r == [endpoint |-> e, added |-> TRUE]
    <3>1. r \in Report /\ News(known, r) /\ known' = After(known, r)
      BY <2>2 DEF Report, News, After, Discovered
    <3>2. events' = Append(events, r) /\ UNCHANGED <<ghosts, misplaced, topic_agg>>
      BY <2>2 DEF Discovered, Posted, shownVars
    <3> QED
      BY <3>1, <3>2, PostedAccounted
  <2>3. ASSUME NEW e \in Endpoints, Removed(e) PROVE Accounted'
    <3> DEFINE r == [endpoint |-> e, added |-> FALSE]
    <3>1. r \in Report /\ News(known, r) /\ known' = After(known, r)
      BY <2>3 DEF Report, News, After, Removed
    <3>2. events' = Append(events, r) /\ UNCHANGED <<ghosts, misplaced, topic_agg>>
      BY <2>3 DEF Removed, Posted, shownVars
    <3> QED
      BY <3>1, <3>2, PostedAccounted
  <2>4. CASE Deliver
    BY <2>4, TakenAccounted
  <2>5. ASSUME NEW d \in Domains, Scan(d) PROVE Accounted'
    <3>1. /\ known' = {} /\ ghosts' = Len(events') /\ Len(events') \in Nat
          /\ topic_agg' = Empty' /\ misplaced' = 0
      BY <2>5 DEF Scan, Empty, TypeOK
    <3> QED
      BY <1>3, <3>1 DEF Nothing
  <2> QED
    BY <2>1, <2>2, <2>3, <2>4, <2>5
       DEF Next, Dds, Operator, ClearTable, StartSampleStream, StopSampleStream, vars,
           scanVars, eventVars, shownVars
<1> QED
  BY <1>1, <1>2, <1>4, TypeCorrect, PTL DEF Spec

(***************************************************************************)
(* The counts on the screen are wrong by at most the number of reports of  *)
(* earlier scans that arrived in this one, whatever order discoveries,     *)
(* removals, scans and deliveries come in: the lower bound of the counter  *)
(* hides nothing else (GatewayController.cpp:256-276).                     *)
(***************************************************************************)
THEOREM ErrorBounded == Spec => []ErrorWithinMisplaced
<1>1. Accounted => ErrorWithinMisplaced
  BY DEF Accounted, CountsFit, ErrorWithinMisplaced
<1> QED
  BY <1>1, AccountedAlways, PTL
=============================================================================
