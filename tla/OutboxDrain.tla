----------------------------- MODULE OutboxDrain -----------------------------
(***************************************************************************)
(* drain_outbox_once: reads a batch of pending outbox events in the order  *)
(* of their creation, projects each to the graph sink and then to the      *)
(* lineage sink, and acknowledges the batch when all of it is projected.   *)
(* Nothing keeps two drains from working on the same events: the route is  *)
(* open to every authorized caller, and a drain holds no lock.             *)
(***************************************************************************)
EXTENDS Naturals, FiniteSets

CONSTANTS
    N,              \* events are 1..N, in the order of created_at, event_id
    RowOf,          \* RowOf[e]: the catalog row that e's transaction wrote
    Drains,         \* concurrent drain requests
    Limit,          \* the batch size (100 in drain_lineage_outbox)
    Refused,        \* events that validate_outbox_event_evidence refuses
    MaxOutages      \* bound: failed sink calls

Events == 1..N

ASSUME DrainAssumption ==
    /\ N \in Nat
    /\ DOMAIN RowOf = Events
    /\ Limit \in Nat \ {0}
    /\ Refused \subseteq 1..N
    /\ MaxOutages \in Nat

VARIABLES
    appended,       \* events whose transaction has committed
    delivered,      \* events with a delivered_at
    graph,          \* events the graph sink has accepted
    lineage,        \* events the lineage sink has accepted
    drain,          \* Drains -> the state of the request
    reported,       \* reported[e]: responses that list event e as delivered
    outages         \* failed sink calls so far

vars == <<appended, delivered, graph, lineage, drain, reported, outages>>

Idle == [phase |-> "idle"]

\* A drain in progress: the batch, the events of it that are projected, and
\* whether the next one has been accepted by the graph.
Working == [phase : {"working"}, batch : SUBSET Events, done : SUBSET Events,
            emitted : BOOLEAN]

Busy(batch, done, emitted) ==
    [phase |-> "working", batch |-> batch, done |-> done, emitted |-> emitted]

TypeOK ==
    /\ {appended, delivered, graph, lineage} \subseteq SUBSET Events
    /\ drain \in [Drains -> Working \cup {Idle}]
    /\ reported \in [Events -> Nat]
    /\ outages \in 0..MaxOutages

Init ==
    /\ appended = {} /\ delivered = {} /\ graph = {} /\ lineage = {}
    /\ drain = [d \in Drains |-> Idle]
    /\ reported = [e \in Events |-> 0]
    /\ outages = 0

-----------------------------------------------------------------------------
\* A mutation commits its outbox row.  created_at is taken inside the
\* transaction, so rows may appear out of its order.  Those whose
\* transactions write one catalog row (the commits and renames of a table,
\* its deletions and restores) appear in order: the later one begins after
\* the earlier has committed.
Append(e) ==
    /\ e \notin appended
    /\ \A f \in Events : f < e /\ RowOf[f] = RowOf[e] => f \in appended
    /\ appended' = appended \cup {e}
    /\ UNCHANGED <<delivered, graph, lineage, drain, reported, outages>>

Pending == appended \ delivered

\* Mutant of Batch: order by created_at desc.
NewestBatch == {e \in Pending : Cardinality({f \in Pending : f > e}) < Limit}

\* Mutant of Batch: a page that is not full is left for a later call.
FullBatch ==
    {e \in Pending : /\ Cardinality(Pending) >= Limit
                     /\ Cardinality({f \in Pending : f < e}) < Limit}

\* pending_outbox_events: the first Limit pending events.
Batch == {e \in Pending : Cardinality({f \in Pending : f < e}) < Limit}

Fetch(d) ==
    /\ drain[d] = Idle
    /\ Batch # {}
    /\ drain' = [drain EXCEPT ![d] = Busy(Batch, {}, FALSE)]
    /\ UNCHANGED <<appended, delivered, graph, lineage, reported, outages>>

\* The event the loop of drain d is at.
Current(d) ==
    LET left == drain[d].batch \ drain[d].done
    IN  CHOOSE e \in left : \A f \in left : e <= f

Unfinished(d) == drain[d].phase = "working" /\ drain[d].done # drain[d].batch

\* validate_outbox_event_evidence depends on the event alone, so what it
\* refuses once it refuses in every batch: the drain ends with an error and
\* acknowledges nothing.
Refuse(d) ==
    /\ Unfinished(d)
    /\ ~drain[d].emitted
    /\ Current(d) \in Refused
    /\ drain' = [drain EXCEPT ![d] = Idle]
    /\ UNCHANGED <<appended, delivered, graph, lineage, reported, outages>>

\* The event is valid and graph.emit accepts it.
EmitGraph(d) ==
    /\ Unfinished(d)
    /\ ~drain[d].emitted
    /\ Current(d) \notin Refused
    /\ graph' = graph \cup {Current(d)}
    /\ drain' = [drain EXCEPT ![d] = Busy(drain[d].batch, drain[d].done, TRUE)]
    /\ UNCHANGED <<appended, delivered, lineage, reported, outages>>

\* lineage.emit accepts the event, and the loop goes on to the next one.
EmitLineage(d) ==
    /\ Unfinished(d)
    /\ drain[d].emitted
    /\ lineage' = lineage \cup {Current(d)}
    /\ drain' = [drain EXCEPT ![d] =
                   Busy(drain[d].batch, drain[d].done \cup {Current(d)}, FALSE)]
    /\ UNCHANGED <<appended, delivered, graph, reported, outages>>

\* A sink refuses, or the request dies: nothing is acknowledged.
Abort(d) ==
    /\ drain[d].phase = "working"
    /\ outages < MaxOutages
    /\ outages' = outages + 1
    /\ drain' = [drain EXCEPT ![d] = Idle]
    /\ UNCHANGED <<appended, delivered, graph, lineage, reported>>

\* Mutant of Projected: the whole batch is taken for projected.
ProjectedAnyway(d) == drain[d].phase = "working"

\* The loop over the batch has ended.
Projected(d) == drain[d].phase = "working" /\ drain[d].done = drain[d].batch

\* Mutant of AllAcknowledged: the number of updated rows is not compared.
AcknowledgedAnyway(d) == TRUE

\* mark_outbox_delivered updated as many rows as the batch has events.
AllAcknowledged(d) == drain[d].batch \cap delivered = {}

\* mark_outbox_delivered acknowledges the events of the batch that are still
\* pending.  The response reports the batch, unless another drain got to
\* some of it first: then the acknowledgement mismatch is an error.
Acknowledge(d) ==
    /\ Projected(d)
    /\ delivered' = delivered \cup drain[d].batch
    /\ reported' =
          IF AllAcknowledged(d)
          THEN [e \in Events |->
                  IF e \in drain[d].batch THEN reported[e] + 1 ELSE reported[e]]
          ELSE reported
    /\ drain' = [drain EXCEPT ![d] = Idle]
    /\ UNCHANGED <<appended, graph, lineage, outages>>

Step(d) == Refuse(d) \/ EmitGraph(d) \/ EmitLineage(d) \/ Acknowledge(d)

Next ==
    \/ \E e \in Events : Append(e)
    \/ \E d \in Drains : Fetch(d) \/ Step(d) \/ Abort(d)

Spec == Init /\ [][Next]_vars

\* Somebody keeps calling the drain route, and the runtime keeps polling a
\* request; sinks recover (outages are bounded).
FairSpec == Spec /\ \A d \in Drains : WF_vars(Fetch(d)) /\ WF_vars(Step(d))

-----------------------------------------------------------------------------
(* Properties.                                                              *)

\* The outbox stays the recovery source: an event is acknowledged only when
\* both sinks have accepted it, whichever drain does either.
DeliveredWasProjected == delivered \subseteq graph \cap lineage

\* The sinks first see the commits of a table in the order they happened,
\* however many drains overlap and however late a transaction commits.
FirstSeenInCommitOrder ==
    \A e \in graph : \A f \in Events :
       f < e /\ RowOf[f] = RowOf[e] => f \in graph \cap lineage

\* No two drain responses report the same event as delivered.
ReportedAtMostOnce == \A e \in Events : reported[e] <= 1

\* Every event of a committed transaction reaches both sinks and is
\* acknowledged, through any bounded number of outages, unless the queue gets
\* stuck for good behind an event that the validator refuses: from some point
\* on every batch of the oldest pending events holds one.  Where no event is
\* refused, every event is delivered.
EveryEventDelivered ==
    \A e \in Events :
       e \in appended ~> e \in delivered \/ [](Batch \cap Refused # {})
=============================================================================
