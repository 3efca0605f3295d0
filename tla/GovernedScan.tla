------------------------------ MODULE GovernedScan ------------------------------
(***************************************************************************)
(* Governed scans: planning a scan under a read restriction, the durable   *)
(* grant a plan leaves behind, fetching the tasks of a plan, and           *)
(* revalidating a grant later (lakecat-service scan.rs and                 *)
(* governed_scan.rs, the Sail catalog provider they call, and the grants   *)
(* of both stores).                                                        *)
(*                                                                         *)
(* A handler is a sequence of store and governance calls with an await     *)
(* between any two of them, so the table, the policies and the authority   *)
(* may all change in between.  Each await is a step here.  A digest stands *)
(* for what it is computed from, a projection is the set of its columns,   *)
(* and a conjunction of row predicates is the set of its conjuncts.        *)
(***************************************************************************)
EXTENDS Naturals, FiniteSets

CONSTANTS
    Callers,     \* the requests in flight
    Asks,        \* plan requests: [projection, snapshot, attested]
    Metas,       \* table metadata documents: [snap |-> current snapshot, doc |-> ...]
    PolicyIds,   \* policy bindings of the table
    Policies,    \* ODRL policies: [cols, pred, purpose], each possibly None
    MaxVersion, MaxLives, MaxTime, MaxCalls, MaxChanges,
    None         \* an absent value

ASSUME BoundsAssumption ==
    {MaxVersion, MaxLives, MaxTime, MaxCalls, MaxChanges} \subseteq Nat

VARIABLES
    table,       \* the table's row: [life, version, meta], or None
    lives,       \* how many times the table has been created
    bindings,    \* [PolicyIds -> Policies \cup {None}], None when not enforced
    permitted,   \* whether the governance engine allows the principal's scans
    grants,      \* durable grants, identified by their proof
    events,      \* table.scan-planned and table.scan-tasks-fetched evidence
    handed,      \* what callers have been given: [tasks, proofs, revalidated]
    now,         \* the clock receipts are stamped with
    call,        \* the progress of every request
    calls, changes

vars == <<table, lives, bindings, permitted, grants, events, handed, now,
          call, calls, changes>>
store == <<table, lives, bindings, permitted, changes>>

-----------------------------------------------------------------------------
(* Read restrictions *)

\* The enforced policies of the table, as policy_bindings_for_table lists them.
Bound == {bindings[i] : i \in {j \in PolicyIds : bindings[j] # None}}

\* from_odrl_policies fails when two policies name different purposes.
Consistent(B) == Cardinality({p.purpose : p \in B} \ {None}) <= 1

\* The columns every policy that names columns allows; None when none does.
AllowedColumns(B) ==
    LET named == {p \in B : p.cols # None} IN
    IF named = {} THEN None
    ELSE {c \in UNION {p.cols : p \in named} : \A p \in named : c \in p.cols}

\* The conjunction of the row predicates of all policies, as their set.
RowPredicate(B) == {p.pred : p \in B} \ {None}

Restriction(B) ==
    [cols    |-> AllowedColumns(B),
     pred    |-> RowPredicate(B),
     purpose |-> IF \E p \in B : p.purpose # None
                 THEN (CHOOSE p \in B : p.purpose # None).purpose ELSE None,
     hashes  |-> B]

\* effective_projection: {} asks for every column the restriction allows.
EffectiveProjection(r, asked) ==
    IF r.cols = None THEN asked
    ELSE IF asked = {} THEN r.cols ELSE asked \cap r.cols

\* It fails when a restriction leaves nothing to project.
ProjectionDefined(r, asked) ==
    r.cols # None => EffectiveProjection(r, asked) # {}

\* The one row predicate of the restriction, as a list of filters.
MandatoryFilters(r) == IF r.pred = {} THEN {} ELSE {r.pred}

-----------------------------------------------------------------------------
(* Grants *)

\* Snapshots a metadata document still lists: its current one and its ancestors.
Snapshots(m) == 1..m.snap

\* The snapshot plan_scan selects.
Planned(ask, m) == IF ask.snapshot = None THEN m.snap ELSE ask.snapshot

\* The provider narrows the request to the restriction before Sail plans it.
PlannedTask(k, m) ==
    [snap       |-> Planned(k.in, m),
     projection |-> EffectiveProjection(k.scope, k.in.projection),
     filters    |-> MandatoryFilters(k.scope)]

\* issue_governed_scan_grant answers None: no purpose, or an identity resting
\* on bare headers.
Ungoverned(k) == k.scope.purpose = None \/ ~k.in.attested

\* ... and fails: the plan is not of the current snapshot of the row that was
\* loaded first, or the proof would have no projection.
IssueFails(k) ==
    /\ k.scope.purpose # None
    /\ \/ k.plan.task.snap # k.row.meta.snap
       \/ k.in.attested /\ EffectiveProjection(k.scope, k.in.projection) = {}

\* The proof: everything its identifier is computed from.
Proof(k) ==
    [version    |-> k.row.version,
     snap       |-> k.plan.task.snap,
     plan       |-> k.plan,
     purpose    |-> k.scope.purpose,
     projection |-> EffectiveProjection(k.scope, k.in.projection),
     receipt    |-> [scope |-> k.scope, at |-> k.at]]

\* The grant adds evidence that the identifier does not cover; life is not in
\* the code, it only tells one incarnation of the table from another.
Grant(k) ==
    [proof |-> Proof(k), asked |-> k.in.projection, scope |-> k.scope,
     meta |-> k.row.meta, life |-> k.row.life]

\* A variant that takes an identifier in use for a retry.
NeverReused(g) == FALSE

\* save_governed_scan_grant finds the identifier in use with other evidence.
Reused(g) == \E h \in grants : h.proof = g.proof /\ [h EXCEPT !.life = g.life] # g

\* ... or with the same evidence, which it then keeps.
Saved(g) == IF \E h \in grants : h.proof = g.proof THEN grants ELSE grants \cup {g}

\* A variant that compares the snapshot only.
SameSnapshot(g, row) == row.meta.snap = g.proof.snap

\* validate_table_evidence.
SameTable(g, row) ==
    /\ row.meta.snap = g.proof.snap
    /\ row.version = g.proof.version
    /\ row.meta = g.meta

\* validate_fresh_restriction and validate_fresh_policy.
SameRestriction(g, r) ==
    /\ r.purpose = g.proof.purpose
    /\ ProjectionDefined(r, g.asked)
    /\ EffectiveProjection(r, g.asked) = g.proof.projection
    /\ r = g.scope

\* A variant that lets a task keep the filters it was planned with.
TaskUnfiltered(t, m, r) ==
    /\ t.snap \in Snapshots(m)
    /\ t.projection # {} /\ t.projection \subseteq EffectiveProjection(r, {})

\* validate_decoded_plan_task: the task is of a snapshot the metadata lists, and
\* neither widens the projection nor omits the filter required now.
TaskValid(t, m, r) ==
    /\ t.snap \in Snapshots(m)
    /\ LET required == EffectiveProjection(r, {}) IN
       required # {} => t.projection # {} /\ t.projection \subseteq required
    /\ MandatoryFilters(r) \subseteq t.filters

\* The provider repeats both checks against the table as it is now.
FetchAdmits(k, m) == ProjectionDefined(k.scope, {}) /\ TaskValid(k.in, m, k.scope)

-----------------------------------------------------------------------------
Blank == [pc |-> "idle", op |-> None, in |-> None, scope |-> None, at |-> 0,
          row |-> None, plan |-> None, grant |-> None, calm |-> TRUE]

Init ==
    /\ table \in {[life |-> 1, version |-> 0, meta |-> m] : m \in Metas}
    /\ lives = 1
    /\ bindings \in [PolicyIds -> Policies \cup {None}]
    /\ permitted = TRUE
    /\ grants = {} /\ events = {}
    /\ handed = [tasks |-> {}, proofs |-> {}, revalidated |-> {}]
    /\ now = 0
    /\ call = [c \in Callers |-> Blank]
    /\ calls = 0 /\ changes = 0

\* A request ends without an answer and without a further effect.
Refuse(c) ==
    /\ call' = [call EXCEPT ![c] = Blank]
    /\ UNCHANGED <<grants, events, handed>>

Idle(c) == call[c] = Blank

Begin(c, op, in, pc) ==
    /\ Idle(c) /\ calls < MaxCalls
    /\ calls' = calls + 1
    /\ call' = [call EXCEPT ![c] = [Blank EXCEPT !.op = op, !.in = in, !.pc = pc]]
    /\ UNCHANGED <<store, grants, events, handed, now>>

BeginPlan(c) == \E ask \in Asks : Begin(c, "plan", ask, "policies")
BeginFetch(c) == \E t \in handed.tasks : Begin(c, "fetch", t, "policies")
BeginRevalidate(c) == \E p \in handed.proofs : Begin(c, "revalidate", p, "grant")

\* authorize and revalidate_governed_scan_grant read the policies that apply.
ReadPolicies(c) ==
    /\ call[c].pc = "policies"
    /\ IF Consistent(Bound)
       THEN /\ call' = [call EXCEPT ![c].scope = Restriction(Bound), ![c].pc = "decide"]
            /\ UNCHANGED <<grants, events, handed>>
       ELSE Refuse(c)
    /\ UNCHANGED <<store, now, calls>>

\* The governance engine decides and stamps its receipt.
Decide(c) ==
    /\ call[c].pc = "decide" /\ call[c].op # "revalidate"
    /\ IF permitted
       THEN /\ call' = [call EXCEPT ![c].at = now, ![c].pc = "load"]
            /\ UNCHANGED <<grants, events, handed>>
       ELSE Refuse(c)
    /\ UNCHANGED <<store, now, calls>>

\* The handler loads the table ...
LoadTable(c) ==
    /\ call[c].pc = "load"
    /\ IF table # None
       THEN /\ call' = [call EXCEPT ![c].row = table, ![c].pc = "engine"]
            /\ UNCHANGED <<grants, events, handed>>
       ELSE Refuse(c)
    /\ UNCHANGED <<store, now, calls>>

\* ... and the catalog provider loads it again before Sail plans.
PlanTable(c) ==
    LET k == call[c] IN
    /\ k.pc = "engine" /\ k.op = "plan"
    /\ IF /\ table # None
          /\ ProjectionDefined(k.scope, k.in.projection)
          /\ Planned(k.in, table.meta) \in Snapshots(table.meta)
       THEN /\ call' = [call EXCEPT
                 ![c].plan = [meta |-> table.meta, task |-> PlannedTask(k, table.meta)],
                 ![c].pc = "save"]
            /\ UNCHANGED <<grants, events, handed>>
       ELSE Refuse(c)
    /\ UNCHANGED <<store, now, calls>>

SaveGrant(c) ==
    LET k == call[c] IN
    /\ k.pc = "save"
    /\ CASE IssueFails(k) -> Refuse(c)
         [] ~IssueFails(k) /\ Ungoverned(k) ->
              /\ call' = [call EXCEPT ![c].pc = "record"]
              /\ UNCHANGED <<grants, events, handed>>
         [] ~IssueFails(k) /\ ~Ungoverned(k) ->
              IF Reused(Grant(k)) THEN Refuse(c)
              ELSE /\ grants' = Saved(Grant(k))
                   /\ call' = [call EXCEPT ![c].grant = Grant(k), ![c].pc = "record"]
                   /\ UNCHANGED <<events, handed>>
    /\ UNCHANGED <<store, now, calls>>

FetchTasks(c) ==
    LET k == call[c] IN
    /\ k.pc = "engine" /\ k.op = "fetch"
    /\ IF table # None /\ FetchAdmits(k, table.meta)
       THEN /\ call' = [call EXCEPT ![c].pc = "record"]
            /\ UNCHANGED <<grants, events, handed>>
       ELSE Refuse(c)
    /\ UNCHANGED <<store, now, calls>>

\* record_audit_event, in a transaction of its own, and the response.
Record(c) ==
    LET k == call[c] IN
    /\ k.pc = "record"
    /\ call' = [call EXCEPT ![c] = Blank]
    /\ IF k.op = "plan"
       THEN LET proofs == IF k.grant = None THEN {} ELSE {k.grant.proof} IN
            /\ events' = events \cup {[op |-> "plan", task |-> k.plan.task, scope |-> k.scope,
                                       asked |-> k.in.projection, proofs |-> proofs]}
            /\ handed' = [handed EXCEPT !.tasks = @ \cup {k.plan.task},
                                        !.proofs = @ \cup proofs]
       ELSE /\ events' = events \cup {[op |-> "fetch", task |-> k.in, scope |-> k.scope,
                                       asked |-> {}, proofs |-> {}]}
            /\ UNCHANGED handed
    /\ UNCHANGED <<store, grants, now, calls>>

LoadGrant(c) ==
    /\ call[c].pc = "grant"
    /\ IF \E g \in grants : g.proof = call[c].in
       THEN /\ call' = [call EXCEPT ![c].grant = CHOOSE g \in grants : g.proof = call[c].in,
                                    ![c].pc = "table"]
            /\ UNCHANGED <<grants, events, handed>>
       ELSE Refuse(c)
    /\ UNCHANGED <<store, now, calls>>

CheckTable(c) ==
    /\ call[c].pc = "table"
    /\ IF table # None /\ SameTable(call[c].grant, table)
       THEN /\ call' = [call EXCEPT ![c].row = table, ![c].pc = "policies"]
            /\ UNCHANGED <<grants, events, handed>>
       ELSE Refuse(c)
    /\ UNCHANGED <<store, now, calls>>

\* The last step of a revalidation: the engine decides again, and the decision
\* and the restriction are compared with the grant's.
Revalidated(c) ==
    /\ call[c].pc = "decide" /\ call[c].op = "revalidate"
    /\ permitted /\ SameRestriction(call[c].grant, call[c].scope)
    /\ handed' = [handed EXCEPT !.revalidated = @ \cup {call[c].in}]
    /\ call' = [call EXCEPT ![c] = Blank]
    /\ UNCHANGED <<store, grants, events, now, calls>>

NotRevalidated(c) ==
    /\ call[c].pc = "decide" /\ call[c].op = "revalidate"
    /\ ~(permitted /\ SameRestriction(call[c].grant, call[c].scope))
    /\ Refuse(c)
    /\ UNCHANGED <<store, now, calls>>

\* The process crashes, or the client goes away, between two awaits.
Abandon(c) ==
    /\ ~Idle(c)
    /\ Refuse(c)
    /\ UNCHANGED <<store, now, calls>>

-----------------------------------------------------------------------------
(* What happens around the requests *)

Change ==
    /\ changes < MaxChanges
    /\ changes' = changes + 1
    /\ call' = [c \in Callers |-> [call[c] EXCEPT !.calm = @ /\ call[c].op # "revalidate"]]
    /\ UNCHANGED <<grants, events, handed, now, calls>>

CommitTable ==
    /\ Change
    /\ table # None /\ table.version < MaxVersion
    /\ \E m \in Metas :
          /\ m # table.meta /\ m.snap >= table.meta.snap
          /\ table' = [table EXCEPT !.version = @ + 1, !.meta = m]
    /\ UNCHANGED <<lives, bindings, permitted>>

DropTable ==
    /\ Change
    /\ table # None /\ table' = None
    /\ UNCHANGED <<lives, bindings, permitted>>

RegisterTable ==
    /\ Change
    /\ table = None /\ lives < MaxLives
    /\ lives' = lives + 1
    /\ \E m \in Metas : table' = [life |-> lives + 1, version |-> 0, meta |-> m]
    /\ UNCHANGED <<bindings, permitted>>

\* upsert_policy_binding, which also turns enforcement off.
UpsertPolicyBinding ==
    /\ Change
    /\ \E i \in PolicyIds, p \in Policies \cup {None} :
          bindings[i] # p /\ bindings' = [bindings EXCEPT ![i] = p]
    /\ UNCHANGED <<table, lives, permitted>>

\* The external engine changes its mind about the principal.
ChangeAuthority ==
    /\ Change
    /\ permitted' = ~permitted
    /\ UNCHANGED <<table, lives, bindings>>

Tick ==
    /\ now < MaxTime /\ now' = now + 1
    /\ UNCHANGED <<store, grants, events, handed, call, calls>>

Next ==
    \/ \E c \in Callers :
          \/ BeginPlan(c) \/ BeginFetch(c) \/ BeginRevalidate(c)
          \/ ReadPolicies(c) \/ Decide(c) \/ LoadTable(c) \/ PlanTable(c)
          \/ SaveGrant(c) \/ FetchTasks(c) \/ Record(c)
          \/ LoadGrant(c) \/ CheckTable(c) \/ Revalidated(c) \/ NotRevalidated(c) \/ Abandon(c)
    \/ CommitTable \/ DropTable \/ RegisterTable
    \/ UpsertPolicyBinding \/ ChangeAuthority \/ Tick

Spec == Init /\ [][Next]_vars

-----------------------------------------------------------------------------
(* Properties *)

\* What revalidate_governed_scan_grant promises although it reads the grant, the
\* table and the policies one after the other: when nothing changed while it
\* ran, the proof it returns describes the table, the restriction and the
\* authority of that moment, and the plan the proof names was made from the
\* table's present metadata, unless the table is not the one it was planned on.
RevalidatedIsCurrent ==
    [][\A c \in Callers : Revalidated(c) /\ call[c].calm =>
          LET g == call[c].grant IN
          /\ table # None /\ permitted
          /\ table.version = g.proof.version /\ table.meta = g.meta
          /\ Restriction(Bound) = g.proof.receipt.scope
          /\ g.life = table.life => g.proof.plan.meta = table.meta]_vars

\* Whatever the policies were when a task was planned, a fetch that is answered
\* reads only columns, and only rows, that the restriction it was itself
\* authorized under allows (an empty projection reads every column).
FetchesStayInRestriction ==
    \A e \in events :
        /\ e.scope.cols # None =>
              e.task.projection # {} /\ e.task.projection \subseteq e.scope.cols
        /\ e.scope.pred \subseteq UNION e.task.filters

\* Grant, audit event and response are three steps, and the process may stop
\* between any two; and the identifier of a grant is not computed from all of its
\* evidence (not from the requested projection), so two requests decided at the
\* same instant may arrive at one identifier.  Still, evidence never names a
\* proof without a durable grant that says the same, no caller holds a proof
\* that was not recorded, and an identifier has one grant.
ProofsAreDurable ==
    /\ \A e \in events : \A p \in e.proofs : \E g \in grants :
          g.proof = p /\ g.asked = e.asked /\ g.scope = e.scope
    /\ \A p \in handed.proofs : \E e \in events : p \in e.proofs
    /\ \A g, h \in grants : g.proof = h.proof => g = h
=============================================================================
