-------------------------- MODULE OutboxDrainProofs --------------------------
(***************************************************************************)
(* At-least-once delivery in the order of commits, for any number of       *)
(* events and drains, any batch size and any outages.                      *)
(***************************************************************************)
EXTENDS OutboxDrain, FiniteSetTheorems, WellFoundedInduction, TLAPS

\* The event that a loop is at, of what is left of its batch.
First(left) == CHOOSE e \in left : \A f \in left : e <= f

\* What drain x has behind it is in both sinks, and if it has emitted the
\* event it is at, the graph has that one.
Backed(x, g, l) ==
    \E b, done, emitted :
       /\ x = Busy(b, done, emitted)
       /\ done \subseteq g \cap l
       /\ emitted => First(b \ done) \in g

\* The inductive invariant.  That what is acknowledged was projected rests
\* on the progress of the drain that acknowledges it.
IInv ==
    /\ drain = [d \in Drains |-> drain[d]]
    /\ \A d \in Drains : drain[d] = Idle \/ Backed(drain[d], graph, lineage)
    /\ DeliveredWasProjected

LEMMA BackedIntro ==
    ASSUME NEW b, NEW done, NEW emitted, NEW g, NEW l,
           done \subseteq g \cap l, emitted => First(b \ done) \in g
    PROVE  Backed(Busy(b, done, emitted), g, l)
BY Zenon DEF Backed

\* The sinks only grow, so progress is never lost.
LEMMA BackedGrows ==
    ASSUME NEW x, NEW g, NEW l, NEW g2, NEW l2, g \subseteq g2, l \subseteq l2,
           Backed(x, g, l)
    PROVE  Backed(x, g2, l2)
<1>1. PICK b, done, emitted :
         /\ x = Busy(b, done, emitted)
         /\ done \subseteq g \cap l
         /\ emitted => First(b \ done) \in g
  BY Zenon DEF Backed
<1>2. done \subseteq g2 \cap l2 /\ (emitted => First(b \ done) \in g2)
  BY <1>1
<1> QED BY <1>1, <1>2, Zenon DEF Backed

\* A step of drain d that puts new in its place, lets the sinks grow and
\* acknowledges only what both have.
LEMMA OneDrainStep ==
    ASSUME IInv, NEW d \in Drains, NEW new, drain' = [drain EXCEPT ![d] = new],
           graph \subseteq graph', lineage \subseteq lineage',
           new = Idle \/ Backed(new, graph', lineage'),
           DeliveredWasProjected'
    PROVE  IInv'
<1>1. \A c \in Drains : drain'[c] = IF c = d THEN new ELSE drain[c]
  BY DEF IInv
<1>2. drain' = [c \in Drains |-> drain'[c]]
  BY DEF IInv
<1>3. ASSUME NEW c \in Drains
      PROVE  (drain[c] = Idle \/ Backed(drain[c], graph, lineage))'
  <2>1. CASE c = d
    BY <1>1, <2>1
  <2>2. CASE c # d
    BY <1>1, <2>2, BackedGrows DEF IInv
  <2> QED BY <2>1, <2>2
<1> QED BY <1>2, <1>3 DEF IInv, Idle

\* A step that neither drains nor projects.
LEMMA IdleStep ==
    ASSUME IInv, drain' = drain, graph' = graph, lineage' = lineage,
           delivered' = delivered
    PROVE  IInv'
BY DEF IInv, DeliveredWasProjected, Idle

LEMMA InitIInv == Init => IInv
BY DEF Init, IInv, DeliveredWasProjected

\* A drain that is working is where its record says.
LEMMA WorkingIsBacked ==
    ASSUME IInv, NEW d \in Drains, drain[d].phase = "working"
    PROVE  Backed(drain[d], graph, lineage)
BY DEF IInv, Idle

LEMMA FetchStep == ASSUME IInv, NEW d \in Drains, Fetch(d) PROVE IInv'
<1>1. Backed(Busy(Batch, {}, FALSE), graph, lineage)
  <2>1. {} \subseteq graph \cap lineage
    OBVIOUS
  <2> QED BY <2>1, BackedIntro, Zenon
<1>2. DeliveredWasProjected'
  BY DEF IInv, DeliveredWasProjected, Fetch
<1> QED BY <1>1, <1>2, OneDrainStep DEF Fetch

LEMMA EmitGraphStep == ASSUME IInv, NEW d \in Drains, EmitGraph(d) PROVE IInv'
<1>1. PICK b, done, emitted :
         /\ drain[d] = Busy(b, done, emitted)
         /\ done \subseteq graph \cap lineage
  BY WorkingIsBacked, Zenon DEF EmitGraph, Unfinished, Backed
<1>2. Current(d) = First(b \ done)
  BY <1>1 DEF Current, First, Busy
<1>3. drain' = [drain EXCEPT ![d] = Busy(b, done, TRUE)]
  BY <1>1 DEF EmitGraph, Busy
<1>4. /\ graph' = graph \cup {First(b \ done)}
      /\ lineage' = lineage /\ delivered' = delivered
  BY <1>2 DEF EmitGraph
<1>5. Backed(Busy(b, done, TRUE), graph', lineage')
  <2>1. done \subseteq graph' \cap lineage' /\ First(b \ done) \in graph'
    BY <1>1, <1>4
  <2> QED BY <2>1, Zenon DEF Backed
<1>6. DeliveredWasProjected'
  BY <1>4 DEF IInv, DeliveredWasProjected
<1> QED BY <1>3, <1>4, <1>5, <1>6, OneDrainStep

LEMMA EmitLineageStep == ASSUME IInv, NEW d \in Drains, EmitLineage(d) PROVE IInv'
<1>1. PICK b, done, emitted :
         /\ drain[d] = Busy(b, done, emitted)
         /\ done \subseteq graph \cap lineage
         /\ emitted => First(b \ done) \in graph
  BY WorkingIsBacked, Zenon DEF EmitLineage, Unfinished, Backed
<1> DEFINE e == First(b \ done)
<1>2. Current(d) = e
  BY <1>1 DEF Current, First, Busy
<1>3. e \in graph
  BY <1>1 DEF EmitLineage, Busy
<1>4. drain' = [drain EXCEPT ![d] = Busy(b, done \cup {e}, FALSE)]
  BY <1>1, <1>2 DEF EmitLineage, Busy
<1>5. graph' = graph /\ lineage' = lineage \cup {e} /\ delivered' = delivered
  BY <1>2 DEF EmitLineage
<1>6. Backed(Busy(b, done \cup {e}, FALSE), graph', lineage')
  <2>1. done \cup {e} \subseteq graph' \cap lineage'
    BY <1>1, <1>3, <1>5
  <2> HIDE DEF e
  <2> QED BY <2>1, Zenon DEF Backed
<1>7. DeliveredWasProjected'
  BY <1>5 DEF IInv, DeliveredWasProjected
<1> QED BY <1>4, <1>5, <1>6, <1>7, OneDrainStep

LEMMA AcknowledgeStep == ASSUME IInv, NEW d \in Drains, Acknowledge(d) PROVE IInv'
<1>1. drain[d].batch \subseteq graph \cap lineage
  <2>1. PICK b, done, emitted :
           /\ drain[d] = Busy(b, done, emitted)
           /\ done \subseteq graph \cap lineage
    BY WorkingIsBacked, Zenon DEF Acknowledge, Projected, Backed
  <2> QED BY <2>1 DEF Acknowledge, Projected, Busy
<1>2. DeliveredWasProjected'
  BY <1>1 DEF IInv, DeliveredWasProjected, Acknowledge
<1> QED BY <1>2, OneDrainStep DEF Acknowledge

LEMMA StepIInv == IInv /\ [Next]_vars => IInv'
<1> SUFFICES ASSUME IInv, [Next]_vars PROVE IInv'
  OBVIOUS
<1>1. ASSUME NEW e \in Events, Append(e) PROVE IInv'
  BY <1>1, IdleStep DEF Append
<1>2. ASSUME NEW d \in Drains, Abort(d) \/ Refuse(d) PROVE IInv'
  <2>1. DeliveredWasProjected'
    BY <1>2 DEF Abort, Refuse, IInv, DeliveredWasProjected
  <2> QED BY <1>2, <2>1, OneDrainStep DEF Abort, Refuse
<1>3. CASE UNCHANGED vars
  BY <1>3, IdleStep DEF vars
<1> QED
  BY <1>1, <1>2, <1>3, FetchStep, EmitGraphStep, EmitLineageStep, AcknowledgeStep
     DEF Next, Step

\* drain_outbox_once acknowledges an event only when the graph sink and the
\* lineage sink have both accepted it, however drains overlap, fail or die:
\* the outbox remains the recovery source for both projections.
THEOREM AcknowledgedWasProjected == Spec => []DeliveredWasProjected
<1>1. IInv => DeliveredWasProjected
  BY DEF IInv
<1> QED BY <1>1, InitIInv, StepIInv, PTL DEF Spec

\* An event that a response has reported is acknowledged, so that no later
\* batch which contains it is acknowledged in full.
ReportedIsDelivered ==
    /\ reported \in [Events -> {0, 1}]
    /\ \A e \in Events : reported[e] = 1 => e \in delivered

LEMMA ReportedStep == ReportedIsDelivered /\ [Next]_vars => ReportedIsDelivered'
<1> SUFFICES ASSUME ReportedIsDelivered, [Next]_vars PROVE ReportedIsDelivered'
  OBVIOUS
<1>1. ASSUME NEW d \in Drains, Acknowledge(d) PROVE ReportedIsDelivered'
  <2>1. CASE AllAcknowledged(d)
    <3>1. reported' = [e \in Events |->
                         IF e \in drain[d].batch THEN reported[e] + 1 ELSE reported[e]]
      BY <1>1, <2>1 DEF Acknowledge
    <3>2. \A e \in Events : e \in drain[d].batch => reported[e] = 0
      BY <2>1 DEF AllAcknowledged, ReportedIsDelivered
    <3>3. delivered' = delivered \cup drain[d].batch
      BY <1>1 DEF Acknowledge
    <3> QED BY <3>1, <3>2, <3>3 DEF ReportedIsDelivered
  <2>2. CASE ~AllAcknowledged(d)
    BY <1>1, <2>2 DEF Acknowledge, ReportedIsDelivered
  <2> QED BY <2>1, <2>2
<1>2. CASE UNCHANGED <<delivered, reported>>
  BY <1>2 DEF ReportedIsDelivered
<1> QED
  BY <1>1, <1>2
     DEF Next, Step, vars, Append, Fetch, Refuse, EmitGraph, EmitLineage, Abort

\* However many drains overlap, no two responses of the drain route report
\* the same event as delivered.
THEOREM ReportsAreUnique == Spec => []ReportedAtMostOnce
<1>1. Init => ReportedIsDelivered
  BY DEF Init, ReportedIsDelivered
<1>2. ReportedIsDelivered => ReportedAtMostOnce
  BY DEF ReportedIsDelivered, ReportedAtMostOnce
<1> QED BY <1>1, <1>2, ReportedStep, PTL DEF Spec
-----------------------------------------------------------------------------
(* The order in which the sinks first see the events of a row.              *)

\* f comes before e among the events of one catalog row.
Earlier(f, e) == f < e /\ RowOf[f] = RowOf[e]

\* The events of S are there with all the earlier ones of their rows, or
\* those are in T.
Complete(S, T) == \A e \in S : \A f \in Events : Earlier(f, e) => f \in S \cup T

\* A drain works on such a batch: what its query left out of a row's earlier
\* events had been acknowledged.
InOrder(x, acknowledged) ==
    \E b, done, emitted :
       /\ x = Busy(b, done, emitted)
       /\ b \subseteq Events /\ done \subseteq b
       /\ Complete(b, acknowledged)

\* The inductive invariant of the order.  It rests on IInv, because what was
\* acknowledged before a batch was read has reached both sinks.
OInv ==
    /\ appended \subseteq Events
    /\ Complete(appended, {})
    /\ \A d \in Drains : drain[d] = Idle \/ InOrder(drain[d], delivered)
    /\ FirstSeenInCommitOrder

\* The least-number principle: a loop that has events left is at one.
LEMMA LeastExists ==
    ASSUME NEW S, S \subseteq Nat, S # {}
    PROVE  \E e \in S : \A f \in S : e <= f
<1> DEFINE R == OpToRel(<, Nat)
<1>1. IsWellFoundedOn(R, Nat)
  BY NatLessThanWellFounded, Zenon
<1>2. \A x, y \in Nat : x < y => <<x, y>> \in R
  BY DEF OpToRel
<1> HIDE DEF R
<1>3. PICK x \in S : \A y \in S : ~(<<y, x>> \in R)
  BY <1>1, WFMin
<1>4. \A y \in S : x \in Nat /\ y \in Nat /\ ~(y < x)
  BY <1>2, <1>3
<1>5. \A y \in S : x <= y
  BY <1>4
<1> QED BY <1>3, <1>5, Zenon

LEMMA FirstIsLeast ==
    ASSUME NEW left, left \subseteq Events, left # {}
    PROVE  First(left) \in left /\ \A f \in left : First(left) <= f
<1>1. left \subseteq Nat
  BY DrainAssumption DEF Events
<1>2. \E e \in left : \A f \in left : e <= f
  BY <1>1, LeastExists
<1> QED BY <1>2, Zenon DEF First

LEMMA CompleteGrows ==
    ASSUME NEW S, NEW T, NEW T2, T \subseteq T2, Complete(S, T)
    PROVE  Complete(S, T2)
BY DEF Complete

LEMMA InOrderIntro ==
    ASSUME NEW b, NEW done, NEW emitted, NEW a, b \subseteq Events,
           done \subseteq b, Complete(b, a)
    PROVE  InOrder(Busy(b, done, emitted), a)
BY Zenon DEF InOrder

LEMMA FetchedInOrder ==
    ASSUME NEW b, NEW a, b \subseteq Events, Complete(b, a)
    PROVE  InOrder(Busy(b, {}, FALSE), a)
<1>1. \A none : none = {} => InOrder(Busy(b, none, FALSE), a)
  BY InOrderIntro
<1> QED BY <1>1, Zenon

LEMMA InOrderGrows ==
    ASSUME NEW x, NEW a, NEW a2, a \subseteq a2, InOrder(x, a)
    PROVE  InOrder(x, a2)
<1>1. PICK b, done, emitted :
         /\ x = Busy(b, done, emitted)
         /\ b \subseteq Events /\ done \subseteq b
         /\ Complete(b, a)
  BY Zenon DEF InOrder
<1> QED BY <1>1, CompleteGrows, InOrderIntro, Zenon

\* order by created_at, event_id limit n: with an event, the page holds the
\* pending ones before it.
LEMMA BatchIsComplete ==
    ASSUME OInv
    PROVE  Batch \subseteq Events /\ Complete(Batch, delivered)
<1>1. Pending \subseteq Events
  BY DEF OInv, Pending
<1>2. ASSUME NEW e \in Batch, NEW f \in Events, Earlier(f, e)
      PROVE  f \in Batch \cup delivered
  <2>1. e \in Pending /\ Cardinality({g \in Pending : g < e}) < Limit
    BY <1>2 DEF Batch
  <2>2. f \in appended
    BY <1>2, <2>1 DEF OInv, Complete, Pending
  <2>3. CASE f \in delivered
    BY <2>3
  <2>4. CASE f \notin delivered
    <3> DEFINE F == {g \in Pending : g < f}
               E == {g \in Pending : g < e}
    <3>1. Events \subseteq Nat /\ IsFiniteSet(Events)
      BY FS_Interval, DrainAssumption DEF Events
    <3>2. IsFiniteSet(E)
      BY <1>1, <3>1, FS_Subset
    <3>3. F \subseteq E
      <4>1. f \in Nat /\ e \in Nat /\ f < e /\ Pending \subseteq Nat
        BY <1>1, <1>2, <2>1, <3>1 DEF Earlier
      <4>2. \A g \in Pending : g < f => g < e
        BY <4>1
      <4> QED BY <4>2
    <3>4. F \in SUBSET E
      BY <3>3
    <3> HIDE DEF F, E
    <3>5. /\ Cardinality(F) <= Cardinality(E)
          /\ Cardinality(F) \in Nat /\ Cardinality(E) \in Nat
      BY <3>2, <3>4, FS_Subset, FS_CardinalityType
    <3>6. Cardinality(F) < Limit
      BY <2>1, <3>5, DrainAssumption DEF E
    <3>7. f \in Pending
      BY <2>2, <2>4 DEF Pending
    <3> QED BY <3>6, <3>7 DEF Batch, F
  <2> QED BY <2>3, <2>4
<1> QED BY <1>1, <1>2 DEF Batch, Complete

\* A step of drain d that puts new in its place and lets the acknowledged
\* events grow.
LEMMA OneDrainInOrder ==
    ASSUME IInv, OInv, NEW d \in Drains, NEW new, drain' = [drain EXCEPT ![d] = new],
           appended' = appended, delivered \subseteq delivered',
           new = Idle \/ InOrder(new, delivered'),
           FirstSeenInCommitOrder'
    PROVE  OInv'
<1>1. \A c \in Drains : drain'[c] = IF c = d THEN new ELSE drain[c]
  BY DEF IInv
<1>2. ASSUME NEW c \in Drains
      PROVE  (drain[c] = Idle \/ InOrder(drain[c], delivered))'
  <2>1. CASE c = d
    BY <1>1, <2>1
  <2>2. CASE c # d
    BY <1>1, <2>2, InOrderGrows DEF OInv
  <2> QED BY <2>1, <2>2
<1>3. (appended \subseteq Events /\ Complete(appended, {}))'
  BY DEF OInv
<1> QED BY <1>2, <1>3 DEF OInv, Idle

LEMMA WorkingInOrder ==
    ASSUME OInv, NEW d \in Drains, drain[d].phase = "working"
    PROVE  InOrder(drain[d], delivered)
BY DEF OInv, Idle

LEMMA BusyFields ==
    ASSUME NEW b, NEW done, NEW emitted
    PROVE  /\ Busy(b, done, emitted).phase = "working"
           /\ Busy(b, done, emitted).batch = b
           /\ Busy(b, done, emitted).done = done
           /\ Busy(b, done, emitted).emitted = emitted
BY DEF Busy

\* The batch of a working drain, and what has been projected of it.
LEMMA WorkingOn ==
    ASSUME IInv, OInv, NEW d \in Drains, drain[d].phase = "working"
    PROVE  /\ drain[d].batch \subseteq Events
           /\ drain[d].done \subseteq drain[d].batch
           /\ Complete(drain[d].batch, delivered)
           /\ drain[d].done \subseteq graph \cap lineage
<1>1. PICK b, done, emitted :
         /\ drain[d] = Busy(b, done, emitted)
         /\ b \subseteq Events /\ done \subseteq b
         /\ Complete(b, delivered)
  BY WorkingInOrder, Zenon DEF InOrder
<1>2. PICK b2, done2, emitted2 :
         /\ drain[d] = Busy(b2, done2, emitted2)
         /\ done2 \subseteq graph \cap lineage
  BY WorkingIsBacked, Zenon DEF Backed
<1>3. drain[d].batch = b /\ drain[d].done = done
  BY <1>1, BusyFields
<1>4. drain[d].done = done2
  BY <1>2, BusyFields
<1> QED BY <1>1, <1>2, <1>3, <1>4

\* The event that the loop is at comes after the earlier ones of its row:
\* they are behind it in the batch, or were acknowledged when it was read.
LEMMA EmitGraphInOrder ==
    ASSUME IInv, OInv, NEW d \in Drains, EmitGraph(d)
    PROVE  OInv'
<1> DEFINE b == drain[d].batch
           done == drain[d].done
           e == First(b \ done)
<1>1. /\ b \subseteq Events /\ done \subseteq b /\ Complete(b, delivered)
      /\ done \subseteq graph \cap lineage /\ b \ done # {}
  BY WorkingOn DEF EmitGraph, Unfinished
<1>2. Current(d) = e
  BY DEF Current, First
<1>3. graph' = graph \cup {e} /\ lineage' = lineage
  BY <1>2 DEF EmitGraph
<1>4. InOrder(Busy(b, done, TRUE), delivered)
  <2> HIDE DEF b, done
  <2> QED BY <1>1, InOrderIntro
<1>5. FirstSeenInCommitOrder'
  <2>1. e \in b \ done /\ \A f \in b \ done : e <= f
    <3> HIDE DEF b, done
    <3> QED BY <1>1, FirstIsLeast
  <2> HIDE DEF e
  <2>2. ASSUME NEW f \in Events, Earlier(f, e) PROVE f \in graph \cap lineage
    <3>1. f \in b \cup delivered
      BY <1>1, <2>1, <2>2 DEF Complete
    <3>2. CASE f \in delivered
      BY <3>2 DEF IInv, DeliveredWasProjected
    <3>3. CASE f \in b
      <4>1. e \in Nat /\ f \in Nat /\ ~(e <= f)
        BY <1>1, <2>1, <2>2, DrainAssumption DEF Events, Earlier
      <4> QED BY <1>1, <2>1, <3>3, <4>1
    <3> QED BY <3>1, <3>2, <3>3
  <2> QED BY <1>3, <2>2 DEF OInv, FirstSeenInCommitOrder, Earlier
<1> QED BY <1>4, <1>5, OneDrainInOrder DEF EmitGraph

LEMMA EmitLineageInOrder ==
    ASSUME IInv, OInv, NEW d \in Drains, EmitLineage(d)
    PROVE  OInv'
<1> DEFINE b == drain[d].batch
           done == drain[d].done \cup {Current(d)}
<1>1. InOrder(Busy(b, done, FALSE), delivered)
  <2>1. b \subseteq Events /\ Complete(b, delivered) /\ drain[d].done \subseteq b
    BY WorkingOn DEF EmitLineage, Unfinished
  <2>2. Current(d) = First(b \ drain[d].done)
    BY DEF Current, First
  <2>3. First(b \ drain[d].done) \in b
    BY <2>1, FirstIsLeast DEF EmitLineage, Unfinished
  <2>4. done \subseteq b
    BY <2>1, <2>2, <2>3
  <2> HIDE DEF b, done
  <2> QED BY <2>1, <2>4, InOrderIntro
<1>2. FirstSeenInCommitOrder'
  BY DEF EmitLineage, OInv, FirstSeenInCommitOrder
<1> QED BY <1>1, <1>2, OneDrainInOrder DEF EmitLineage

LEMMA OrderStep == IInv /\ OInv /\ [Next]_vars => OInv'
<1> SUFFICES ASSUME IInv, OInv, [Next]_vars PROVE OInv'
  OBVIOUS
<1>1. ASSUME NEW e \in Events, Append(e) PROVE OInv'
  <2>1. (appended \subseteq Events /\ Complete(appended, {}))'
    BY <1>1 DEF Append, OInv, Complete, Earlier
  <2>2. (\A d \in Drains : drain[d] = Idle \/ InOrder(drain[d], delivered))'
    BY <1>1 DEF Append, OInv, Idle
  <2>3. FirstSeenInCommitOrder'
    BY <1>1 DEF Append, OInv, FirstSeenInCommitOrder
  <2> QED BY <2>1, <2>2, <2>3 DEF OInv
<1>2. ASSUME NEW d \in Drains, Fetch(d) PROVE OInv'
  <2>1. InOrder(Busy(Batch, {}, FALSE), delivered)
    BY BatchIsComplete, FetchedInOrder
  <2>2. FirstSeenInCommitOrder'
    BY <1>2 DEF Fetch, OInv, FirstSeenInCommitOrder
  <2> QED BY <1>2, <2>1, <2>2, OneDrainInOrder DEF Fetch
<1>3. ASSUME NEW d \in Drains, Abort(d) \/ Refuse(d) \/ Acknowledge(d) PROVE OInv'
  <2>1. FirstSeenInCommitOrder'
    BY <1>3 DEF Abort, Refuse, Acknowledge, OInv, FirstSeenInCommitOrder
  <2> QED BY <1>3, <2>1, OneDrainInOrder DEF Abort, Refuse, Acknowledge
<1>4. CASE UNCHANGED vars
  <2>1. (\A d \in Drains : drain[d] = Idle \/ InOrder(drain[d], delivered))'
    BY <1>4 DEF vars, OInv, Idle
  <2> QED BY <1>4, <2>1 DEF vars, OInv, FirstSeenInCommitOrder
<1> QED
  BY <1>1, <1>2, <1>3, <1>4, EmitGraphInOrder, EmitLineageInOrder DEF Next, Step

\* The sinks first see the events of a catalog row in the order in which
\* their transactions committed: pages are read in the order of created_at,
\* a drain projects its page in that order, and what is missing from a page
\* has been acknowledged, hence projected, however drains overlap or fail.
THEOREM SinksSeeCommitOrder == Spec => []FirstSeenInCommitOrder
<1>1. Init => OInv
  BY DEF Init, OInv, Complete, FirstSeenInCommitOrder
<1>2. OInv => FirstSeenInCommitOrder
  BY DEF OInv
<1> QED BY <1>1, <1>2, InitIInv, StepIInv, OrderStep, PTL DEF Spec
=============================================================================
