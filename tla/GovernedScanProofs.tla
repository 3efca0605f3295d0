-------------------------- MODULE GovernedScanProofs --------------------------
(***************************************************************************)
(* Governed scans for any number of callers, policies, documents and       *)
(* changes around them: what is fetched stays in the restriction the fetch *)
(* was authorized under, no evidence names a proof without its grant, and  *)
(* a proof that is revalidated is current.                                 *)
(***************************************************************************)
EXTENDS GovernedScan, TLAPS

-----------------------------------------------------------------------------
(* Restrictions *)

\* t reads only what r allows.
Within(t, r) ==
    /\ r.cols # None => t.projection # {} /\ t.projection \subseteq r.cols
    /\ r.pred \subseteq UNION t.filters

\* The request the provider narrows is within the restriction.
LEMMA NarrowedIsWithin ==
    ASSUME NEW r, NEW asked, NEW t, ProjectionDefined(r, asked),
           t.projection = EffectiveProjection(r, asked),
           t.filters = MandatoryFilters(r)
    PROVE  Within(t, r)
<1>1. r.cols # None => t.projection # {} /\ t.projection \subseteq r.cols
  BY DEF ProjectionDefined, EffectiveProjection
<1>2. r.pred \subseteq UNION t.filters
  <2>1. CASE r.pred = {}
    BY <2>1
  <2>2. CASE r.pred # {}
    BY <2>2 DEF MandatoryFilters
  <2> QED BY <2>1, <2>2
<1> QED BY <1>1, <1>2 DEF Within

\* So is a task that the fetch admits, wherever it comes from.
LEMMA AdmittedIsWithin ==
    ASSUME NEW t, NEW m, NEW r, ProjectionDefined(r, {}), TaskValid(t, m, r)
    PROVE  Within(t, r)
<1>1. r.cols # None => r.cols # {} /\ EffectiveProjection(r, {}) = r.cols
  BY DEF ProjectionDefined, EffectiveProjection
<1>2. r.cols # None => t.projection # {} /\ t.projection \subseteq r.cols
  BY <1>1 DEF TaskValid
<1>3. r.pred \subseteq UNION t.filters
  <2>1. CASE r.pred = {}
    BY <2>1
  <2>2. CASE r.pred # {}
    BY <2>2 DEF MandatoryFilters, TaskValid
  <2> QED BY <2>1, <2>2
<1> QED BY <1>2, <1>3 DEF Within

-----------------------------------------------------------------------------
(* The inductive invariant *)

\* A request has the fields of Blank.
Fields == {"pc", "op", "in", "scope", "at", "row", "plan", "grant", "calm"}

Shape(x) == x = [f \in Fields |-> x[f]]

GrantShape(g) == g = [f \in {"proof", "asked", "scope", "meta", "life"} |-> g[f]]

HandedShape(h) == h = [f \in {"tasks", "proofs", "revalidated"} |-> h[f]]

\* The store has a grant of this proof, issued for this request and restriction.
Backed(p, asked, scope, G) ==
    \E g \in G : g.proof = p /\ g.asked = asked /\ g.scope = scope

\* What a request has established by the await it is at.
PlanHolds(x) ==
    x.pc = "save" =>
        /\ x.op = "plan"
        /\ Within(x.plan.task, x.scope)

RecordHolds(x, G) ==
    x.pc = "record" =>
        IF x.op = "plan"
        THEN /\ Within(x.plan.task, x.scope)
             /\ x.grant # None => Backed(x.grant.proof, x.in.projection, x.scope, G)
        ELSE Within(x.in, x.scope)

Progress(x, G) == Shape(x) /\ PlanHolds(x) /\ RecordHolds(x, G)

\* A plan has no grant until it is saved, and loads none.
Ungranted(x) ==
    /\ x.op = "plan" /\ x.pc # "record" => x.grant = None
    /\ x.pc \in {"grant", "table"} => x.op # "plan"

OneGrantPerProof(G) == \A g, h \in G : g.proof = h.proof => g = h

IInv ==
    /\ call = [c \in Callers |-> call[c]]
    /\ \A c \in Callers : Progress(call[c], grants) /\ Ungranted(call[c])
    /\ \A g \in grants : GrantShape(g)
    /\ HandedShape(handed)
    /\ FetchesStayInRestriction
    /\ ProofsAreDurable

LEMMA BlankShape == Shape(Blank)
BY DEF Shape, Fields, Blank

LEMMA BlankProgress == \A G : Progress(Blank, G) /\ Ungranted(Blank)
<1>1. Blank.pc = "idle" /\ Blank.grant = None
  BY DEF Blank
<1> QED BY <1>1, BlankShape DEF Progress, Ungranted, PlanHolds, RecordHolds

LEMMA InitIInv == Init => IInv
<1> SUFFICES ASSUME Init PROVE IInv
  OBVIOUS
<1>1. \A c \in Callers : call[c] = Blank
  BY DEF Init
<1>2. HandedShape(handed)
  BY DEF Init, HandedShape
<1>3. call = [c \in Callers |-> call[c]]
  BY DEF Init
<1> QED BY <1>1, <1>2, <1>3, BlankProgress
        DEF Init, IInv, FetchesStayInRestriction, ProofsAreDurable

\* Only the request of c moves.
OnlyMoves(c) ==
    /\ call' = [d \in Callers |-> call'[d]]
    /\ \A d \in Callers \ {c} : call'[d] = call[d]

\* Nothing is saved, recorded or answered.
Quiet == grants' = grants /\ events' = events /\ handed' = handed

LEMMA OneCallStep ==
    ASSUME IInv, NEW c \in Callers, OnlyMoves(c), Quiet,
           Progress(call'[c], grants), Ungranted(call'[c])
    PROVE  IInv'
<1>1. \A d \in Callers : Progress(call'[d], grants') /\ Ungranted(call'[d])
  BY DEF IInv, OnlyMoves, Quiet
<1>2. (\A g \in grants' : GrantShape(g)) /\ HandedShape(handed')
  BY DEF IInv, Quiet
<1>3. FetchesStayInRestriction' /\ ProofsAreDurable'
  BY DEF IInv, Quiet, FetchesStayInRestriction, ProofsAreDurable
<1> QED BY <1>1, <1>2, <1>3 DEF IInv, OnlyMoves

\* A step to an await where nothing is claimed.
LEMMA MoveOn ==
    ASSUME IInv, NEW c \in Callers, OnlyMoves(c), Quiet, Shape(call'[c]),
           call'[c].pc \notin {"save", "record"},
           call'[c].pc \in {"grant", "table"} => call'[c].op # "plan",
           call'[c].op = "plan" => call'[c].grant = None
    PROVE  IInv'
BY OneCallStep DEF Progress, Ungranted, PlanHolds, RecordHolds

LEMMA RefuseStep == ASSUME IInv, NEW c \in Callers, Refuse(c) PROVE IInv'
<1>1. call'[c] = Blank /\ OnlyMoves(c)
  BY DEF Refuse, OnlyMoves, IInv
<1> QED BY <1>1, BlankProgress, OneCallStep DEF Refuse, Quiet

LEMMA BeginStep ==
    ASSUME IInv, NEW c \in Callers, NEW op, NEW in, NEW pc, pc \notin {"save", "record"},
           pc \in {"grant", "table"} => op # "plan", Begin(c, op, in, pc)
    PROVE  IInv'
<1> DEFINE new == [Blank EXCEPT !.op = op, !.in = in, !.pc = pc]
<1>1. Shape(new) /\ new.pc = pc /\ new.op = op /\ new.grant = Blank.grant
  BY BlankShape DEF Shape, Fields
<1>2. Blank.grant = None
  BY DEF Blank
<1>3. call' = [call EXCEPT ![c] = new]
  BY DEF Begin
<1> HIDE DEF new
<1>4. call'[c] = new /\ OnlyMoves(c)
  BY <1>3 DEF OnlyMoves, IInv
<1> QED BY <1>1, <1>2, <1>4, MoveOn DEF Begin, Quiet

\* Where a request is at an await before the plan is saved.
LEMMA AtAwait ==
    ASSUME IInv, NEW c \in Callers, call[c].pc # "record"
    PROVE  Shape(call[c]) /\ (call[c].op = "plan" => call[c].grant = None)
BY DEF IInv, Progress, Ungranted

LEMMA ReadPoliciesStep == ASSUME IInv, NEW c \in Callers, ReadPolicies(c) PROVE IInv'
<1>1. CASE Refuse(c)
  BY <1>1, RefuseStep
<1>2. CASE /\ call' = [call EXCEPT ![c].scope = Restriction(Bound), ![c].pc = "decide"]
           /\ UNCHANGED <<grants, events, handed>>
  <2>1. Shape(call[c]) /\ (call[c].op = "plan" => call[c].grant = None)
    BY AtAwait DEF ReadPolicies
  <2>2. /\ Shape(call'[c]) /\ call'[c].pc = "decide"
        /\ call'[c].op = call[c].op /\ call'[c].grant = call[c].grant
    BY <1>2, <2>1 DEF Shape, Fields, IInv
  <2>3. OnlyMoves(c)
    BY <1>2 DEF OnlyMoves, IInv
  <2> QED BY <1>2, <2>1, <2>2, <2>3, MoveOn DEF Quiet
<1> QED BY <1>1, <1>2 DEF ReadPolicies

LEMMA DecideStep == ASSUME IInv, NEW c \in Callers, Decide(c) PROVE IInv'
<1>1. CASE Refuse(c)
  BY <1>1, RefuseStep
<1>2. CASE /\ call' = [call EXCEPT ![c].at = now, ![c].pc = "load"]
           /\ UNCHANGED <<grants, events, handed>>
  <2>1. Shape(call[c]) /\ (call[c].op = "plan" => call[c].grant = None)
    BY AtAwait DEF Decide
  <2>2. /\ Shape(call'[c]) /\ call'[c].pc = "load"
        /\ call'[c].op = call[c].op /\ call'[c].grant = call[c].grant
    BY <1>2, <2>1 DEF Shape, Fields, IInv
  <2>3. OnlyMoves(c)
    BY <1>2 DEF OnlyMoves, IInv
  <2> QED BY <1>2, <2>1, <2>2, <2>3, MoveOn DEF Quiet
<1> QED BY <1>1, <1>2 DEF Decide

LEMMA LoadTableStep == ASSUME IInv, NEW c \in Callers, LoadTable(c) PROVE IInv'
<1>1. CASE Refuse(c)
  BY <1>1, RefuseStep
<1>2. CASE /\ call' = [call EXCEPT ![c].row = table, ![c].pc = "engine"]
           /\ UNCHANGED <<grants, events, handed>>
  <2>1. Shape(call[c]) /\ (call[c].op = "plan" => call[c].grant = None)
    BY AtAwait DEF LoadTable
  <2>2. /\ Shape(call'[c]) /\ call'[c].pc = "engine"
        /\ call'[c].op = call[c].op /\ call'[c].grant = call[c].grant
    BY <1>2, <2>1 DEF Shape, Fields, IInv
  <2>3. OnlyMoves(c)
    BY <1>2 DEF OnlyMoves, IInv
  <2> QED BY <1>2, <2>1, <2>2, <2>3, MoveOn DEF Quiet
<1> QED BY <1>1, <1>2 DEF LoadTable

LEMMA PlanTableStep == ASSUME IInv, NEW c \in Callers, PlanTable(c) PROVE IInv'
<1> DEFINE k == call[c]
           task == PlannedTask(k, table.meta)
           plan == [meta |-> table.meta, task |-> task]
<1>1. CASE Refuse(c)
  BY <1>1, RefuseStep
<1>2. CASE /\ ProjectionDefined(k.scope, k.in.projection)
           /\ call' = [call EXCEPT ![c].plan = plan, ![c].pc = "save"]
           /\ UNCHANGED <<grants, events, handed>>
  <2>1. Shape(k) /\ (k.op = "plan" => k.grant = None) /\ k.op = "plan"
    BY AtAwait DEF PlanTable
  <2>2. plan.task = task
    OBVIOUS
  <2>3. Within(task, k.scope)
    <3>1. /\ task.projection = EffectiveProjection(k.scope, k.in.projection)
          /\ task.filters = MandatoryFilters(k.scope)
      BY DEF PlannedTask
    <3> HIDE DEF task
    <3> QED BY <1>2, <3>1, NarrowedIsWithin
  <2> HIDE DEF plan, task
  <2>4. /\ Shape(call'[c]) /\ call'[c].pc = "save" /\ call'[c].plan = plan
        /\ call'[c].op = k.op /\ call'[c].grant = k.grant /\ call'[c].scope = k.scope
    BY <1>2, <2>1 DEF Shape, Fields, IInv
  <2>5. OnlyMoves(c)
    BY <1>2 DEF OnlyMoves, IInv
  <2>6. Progress(call'[c], grants) /\ Ungranted(call'[c])
    BY <2>1, <2>2, <2>3, <2>4 DEF Progress, Ungranted, PlanHolds, RecordHolds
  <2> QED BY <1>2, <2>5, <2>6, OneCallStep DEF Quiet
<1> QED BY <1>1, <1>2 DEF PlanTable

LEMMA FetchTasksStep == ASSUME IInv, NEW c \in Callers, FetchTasks(c) PROVE IInv'
<1> DEFINE k == call[c]
<1>1. CASE Refuse(c)
  BY <1>1, RefuseStep
<1>2. CASE /\ FetchAdmits(k, table.meta)
           /\ call' = [call EXCEPT ![c].pc = "record"]
           /\ UNCHANGED <<grants, events, handed>>
  <2>1. Shape(k) /\ k.op = "fetch"
    BY AtAwait DEF FetchTasks
  <2>2. Within(k.in, k.scope)
    BY <1>2, AdmittedIsWithin DEF FetchAdmits
  <2>3. /\ Shape(call'[c]) /\ call'[c].pc = "record" /\ call'[c].in = k.in
        /\ call'[c].op = k.op /\ call'[c].scope = k.scope
    BY <1>2, <2>1 DEF Shape, Fields, IInv
  <2>4. OnlyMoves(c)
    BY <1>2 DEF OnlyMoves, IInv
  <2>5. Progress(call'[c], grants) /\ Ungranted(call'[c])
    BY <2>1, <2>2, <2>3 DEF Progress, Ungranted, PlanHolds, RecordHolds
  <2> QED BY <1>2, <2>4, <2>5, OneCallStep DEF Quiet
<1> QED BY <1>1, <1>2 DEF FetchTasks

\* Grants are never removed, so what is backed stays backed.
LEMMA BackedStays ==
    ASSUME NEW p, NEW asked, NEW scope, NEW G, NEW H, G \subseteq H, Backed(p, asked, scope, G)
    PROVE  Backed(p, asked, scope, H)
BY DEF Backed

LEMMA ProgressStays ==
    ASSUME NEW x, NEW G, NEW H, G \subseteq H, Progress(x, G) PROVE Progress(x, H)
BY BackedStays DEF Progress, RecordHolds

\* save_governed_scan_grant keeps one grant per identifier, and one that says
\* what was asked for.
LEMMA SavedGrant ==
    ASSUME NEW k, \A h \in grants : GrantShape(h), OneGrantPerProof(grants), ~Reused(Grant(k))
    PROVE  /\ grants \subseteq Saved(Grant(k))
           /\ \A h \in Saved(Grant(k)) : GrantShape(h)
           /\ OneGrantPerProof(Saved(Grant(k)))
           /\ Backed(Grant(k).proof, k.in.projection, k.scope, Saved(Grant(k)))
<1> DEFINE g == Grant(k)
<1>1. g.asked = k.in.projection /\ g.scope = k.scope /\ GrantShape(g)
  BY DEF Grant, GrantShape
<1> HIDE DEF g
<1>2. CASE \E h \in grants : h.proof = g.proof
  <2>1. PICK h \in grants : h.proof = g.proof
    BY <1>2
  <2>2. [h EXCEPT !.life = g.life] = g
    BY <2>1 DEF Reused, g
  <2>3. [h EXCEPT !.life = g.life].asked = h.asked /\ [h EXCEPT !.life = g.life].scope = h.scope
    BY DEF GrantShape
  <2>4. h.asked = g.asked /\ h.scope = g.scope
    BY <2>2, <2>3
  <2>5. Saved(g) = grants
    BY <1>2 DEF Saved
  <2> QED BY <1>1, <2>1, <2>4, <2>5 DEF Backed, g
<1>3. CASE ~\E h \in grants : h.proof = g.proof
  <2>1. Saved(g) = grants \cup {g}
    BY <1>3 DEF Saved
  <2>2. OneGrantPerProof(grants \cup {g})
    BY <1>3 DEF OneGrantPerProof
  <2> QED BY <1>1, <2>1, <2>2 DEF Backed, g
<1> QED BY <1>2, <1>3

\* Evidence and responses that stay as they are stay durable when grants are added.
LEMMA DurableStays ==
    ASSUME ProofsAreDurable, grants \subseteq grants', OneGrantPerProof(grants'),
           events' = events, handed' = handed
    PROVE  ProofsAreDurable'
BY DEF ProofsAreDurable, OneGrantPerProof

LEMMA SaveGrantStep == ASSUME IInv, NEW c \in Callers, SaveGrant(c) PROVE IInv'
<1> DEFINE k == call[c]
<1>1. /\ Shape(k) /\ k.op = "plan" /\ k.grant = None
      /\ Within(k.plan.task, k.scope)
  BY DEF SaveGrant, IInv, Progress, PlanHolds, Ungranted
<1>2. CASE Refuse(c)
  BY <1>2, RefuseStep
<1>3. CASE /\ call' = [call EXCEPT ![c].pc = "record"]
           /\ UNCHANGED <<grants, events, handed>>
  <2>1. /\ Shape(call'[c]) /\ call'[c].pc = "record" /\ call'[c].plan = k.plan
        /\ call'[c].op = k.op /\ call'[c].grant = k.grant /\ call'[c].scope = k.scope
    BY <1>1, <1>3 DEF Shape, Fields, IInv
  <2>2. OnlyMoves(c)
    BY <1>3 DEF OnlyMoves, IInv
  <2>3. Progress(call'[c], grants) /\ Ungranted(call'[c])
    BY <1>1, <2>1 DEF Progress, Ungranted, PlanHolds, RecordHolds
  <2> QED BY <1>3, <2>2, <2>3, OneCallStep DEF Quiet
<1>4. CASE /\ ~Reused(Grant(k))
           /\ grants' = Saved(Grant(k))
           /\ call' = [call EXCEPT ![c].grant = Grant(k), ![c].pc = "record"]
           /\ UNCHANGED <<events, handed>>
  <2>1. OneGrantPerProof(grants) /\ \A h \in grants : GrantShape(h)
    BY DEF IInv, ProofsAreDurable, OneGrantPerProof
  <2>2. /\ grants \subseteq grants' /\ OneGrantPerProof(grants')
        /\ \A h \in grants' : GrantShape(h)
        /\ Backed(Grant(k).proof, k.in.projection, k.scope, grants')
    BY <1>4, <2>1, SavedGrant
  <2> DEFINE g == Grant(k)
  <2> HIDE DEF g
  <2>3. /\ Shape(call'[c]) /\ call'[c].pc = "record" /\ call'[c].plan = k.plan /\ call'[c].in = k.in
        /\ call'[c].op = k.op /\ call'[c].grant = g /\ call'[c].scope = k.scope
    BY <1>1, <1>4 DEF Shape, Fields, IInv, g
  <2>4. OnlyMoves(c)
    BY <1>4 DEF OnlyMoves, IInv
  <2>5. Progress(call'[c], grants') /\ Ungranted(call'[c])
    BY <1>1, <2>2, <2>3 DEF Progress, Ungranted, PlanHolds, RecordHolds, g
  <2>6. \A d \in Callers : Progress(call'[d], grants') /\ Ungranted(call'[d])
    BY <2>2, <2>4, <2>5, ProgressStays DEF IInv, OnlyMoves
  <2>7. ProofsAreDurable' /\ FetchesStayInRestriction' /\ HandedShape(handed')
    BY <1>4, <2>2, DurableStays DEF IInv, FetchesStayInRestriction
  <2> QED BY <2>2, <2>4, <2>6, <2>7 DEF IInv, OnlyMoves
<1>5. \/ Refuse(c)
      \/ /\ call' = [call EXCEPT ![c].pc = "record"]
         /\ UNCHANGED <<grants, events, handed>>
      \/ /\ ~Reused(Grant(k))
         /\ grants' = Saved(Grant(k))
         /\ call' = [call EXCEPT ![c].grant = Grant(k), ![c].pc = "record"]
         /\ UNCHANGED <<events, handed>>
  <2>1. CASE IssueFails(k)
    BY <2>1 DEF SaveGrant
  <2>2. CASE ~IssueFails(k) /\ Ungoverned(k)
    BY <2>2 DEF SaveGrant
  <2>3. CASE ~IssueFails(k) /\ ~Ungoverned(k)
    BY <2>3 DEF SaveGrant
  <2> QED BY <2>1, <2>2, <2>3
<1> QED BY <1>2, <1>3, <1>4, <1>5

\* An event is recorded whose task is within its restriction and whose proofs
\* are backed, and the proofs are handed out with it.
LEMMA RecordedStep ==
    ASSUME IInv, NEW c \in Callers, OnlyMoves(c), call'[c] = Blank, grants' = grants,
           NEW e, events' = events \cup {e}, Within(e.task, e.scope),
           \A p \in e.proofs : Backed(p, e.asked, e.scope, grants),
           HandedShape(handed'), handed'.proofs \subseteq handed.proofs \cup e.proofs
    PROVE  IInv'
<1>1. \A d \in Callers : Progress(call'[d], grants') /\ Ungranted(call'[d])
  BY BlankProgress DEF IInv, OnlyMoves
<1>2. FetchesStayInRestriction'
  <2>1. \A f \in events' : Within(f.task, f.scope)
    BY DEF IInv, FetchesStayInRestriction, Within
  <2> QED BY <2>1 DEF FetchesStayInRestriction, Within
<1>3. ProofsAreDurable'
  <2>1. \A f \in events' : \A p \in f.proofs : Backed(p, f.asked, f.scope, grants)
    BY DEF IInv, ProofsAreDurable, Backed
  <2>2. \A p \in handed'.proofs : \E f \in events' : p \in f.proofs
    BY DEF IInv, ProofsAreDurable
  <2>3. \A g, h \in grants : g.proof = h.proof => g = h
    BY DEF IInv, ProofsAreDurable
  <2> QED BY <2>1, <2>2, <2>3 DEF ProofsAreDurable, Backed
<1>4. \A g \in grants' : GrantShape(g)
  BY DEF IInv
<1> QED BY <1>1, <1>2, <1>3, <1>4 DEF IInv, OnlyMoves

LEMMA RecordStep == ASSUME IInv, NEW c \in Callers, Record(c) PROVE IInv'
<1> DEFINE k == call[c]
           proofs == IF k.grant = None THEN {} ELSE {k.grant.proof}
           planned == [op |-> "plan", task |-> k.plan.task, scope |-> k.scope,
                       asked |-> k.in.projection, proofs |-> proofs]
           fetched == [op |-> "fetch", task |-> k.in, scope |-> k.scope,
                       asked |-> {}, proofs |-> {}]
<1>1. RecordHolds(k, grants) /\ k.pc = "record" /\ HandedShape(handed)
  BY DEF IInv, Progress, Record
<1>2. OnlyMoves(c) /\ call'[c] = Blank /\ grants' = grants
  BY DEF Record, OnlyMoves, IInv
<1>3. CASE k.op = "plan"
  <2>1. events' = events \cup {planned}
    BY <1>3 DEF Record
  <2>2. handed' = [handed EXCEPT !.tasks = @ \cup {k.plan.task}, !.proofs = @ \cup proofs]
    BY <1>3 DEF Record
  <2>3. Within(k.plan.task, k.scope)
    BY <1>1, <1>3 DEF RecordHolds
  <2>4. \A p \in proofs : Backed(p, k.in.projection, k.scope, grants)
    BY <1>1, <1>3 DEF RecordHolds
  <2>5. /\ planned.task = k.plan.task /\ planned.scope = k.scope
        /\ planned.asked = k.in.projection /\ planned.proofs = proofs
    OBVIOUS
  <2> HIDE DEF planned, proofs
  <2>6. HandedShape(handed') /\ handed'.proofs = handed.proofs \cup proofs
    BY <1>1, <2>2 DEF HandedShape
  <2> QED BY <1>2, <2>1, <2>3, <2>4, <2>5, <2>6, RecordedStep
<1>4. CASE k.op # "plan"
  <2>1. events' = events \cup {fetched} /\ handed' = handed
    BY <1>4 DEF Record
  <2>2. Within(k.in, k.scope)
    BY <1>1, <1>4 DEF RecordHolds
  <2>3. fetched.task = k.in /\ fetched.scope = k.scope /\ fetched.proofs = {}
    OBVIOUS
  <2> HIDE DEF fetched
  <2> QED BY <1>1, <1>2, <2>1, <2>2, <2>3, RecordedStep
<1> QED BY <1>3, <1>4

LEMMA LoadGrantStep == ASSUME IInv, NEW c \in Callers, LoadGrant(c) PROVE IInv'
<1>1. CASE Refuse(c)
  BY <1>1, RefuseStep
<1> DEFINE g == CHOOSE h \in grants : h.proof = call[c].in
<1>2. CASE /\ call' = [call EXCEPT ![c].grant = g, ![c].pc = "table"]
           /\ UNCHANGED <<grants, events, handed>>
  <2> HIDE DEF g
  <2>1. Shape(call[c]) /\ call[c].op # "plan"
    BY DEF IInv, Progress, Ungranted, LoadGrant
  <2>2. Shape(call'[c]) /\ call'[c].pc = "table" /\ call'[c].op = call[c].op
    BY <1>2, <2>1 DEF Shape, Fields, IInv
  <2>3. OnlyMoves(c)
    BY <1>2 DEF OnlyMoves, IInv
  <2> QED BY <1>2, <2>1, <2>2, <2>3, MoveOn DEF Quiet
<1> QED BY <1>1, <1>2 DEF LoadGrant

LEMMA CheckTableStep == ASSUME IInv, NEW c \in Callers, CheckTable(c) PROVE IInv'
<1>1. CASE Refuse(c)
  BY <1>1, RefuseStep
<1>2. CASE /\ call' = [call EXCEPT ![c].row = table, ![c].pc = "policies"]
           /\ UNCHANGED <<grants, events, handed>>
  <2>1. Shape(call[c]) /\ call[c].op # "plan"
    BY DEF IInv, Progress, Ungranted, CheckTable
  <2>2. Shape(call'[c]) /\ call'[c].pc = "policies" /\ call'[c].op = call[c].op
    BY <1>2, <2>1 DEF Shape, Fields, IInv
  <2>3. OnlyMoves(c)
    BY <1>2 DEF OnlyMoves, IInv
  <2> QED BY <1>2, <2>1, <2>2, <2>3, MoveOn DEF Quiet
<1> QED BY <1>1, <1>2 DEF CheckTable

\* A revalidation answers and leaves grants, evidence and proofs alone.
LEMMA RevalidatedStep == ASSUME IInv, NEW c \in Callers, Revalidated(c) PROVE IInv'
<1>1. OnlyMoves(c) /\ call'[c] = Blank /\ grants' = grants /\ events' = events
  BY DEF Revalidated, OnlyMoves, IInv
<1>2. HandedShape(handed') /\ handed'.proofs = handed.proofs
  BY DEF Revalidated, HandedShape, IInv
<1>3. \A d \in Callers : Progress(call'[d], grants') /\ Ungranted(call'[d])
  BY <1>1, BlankProgress DEF IInv, OnlyMoves
<1>4. FetchesStayInRestriction' /\ ProofsAreDurable'
  BY <1>1, <1>2 DEF IInv, FetchesStayInRestriction, ProofsAreDurable
<1> QED BY <1>1, <1>2, <1>3, <1>4 DEF IInv, OnlyMoves

\* A change around the requests reaches none of what they have established.
LEMMA ChangeStep == ASSUME IInv, Change PROVE IInv'
<1>1. grants' = grants /\ events' = events /\ handed' = handed
  BY DEF Change
<1>2. call' = [c \in Callers |-> [call[c] EXCEPT !.calm = @ /\ call[c].op # "revalidate"]]
  BY DEF Change
<1>3. ASSUME NEW c \in Callers
      PROVE  Progress(call'[c], grants') /\ Ungranted(call'[c])
  <2> DEFINE calm == call[c].calm /\ call[c].op # "revalidate"
  <2>1. call'[c] = [call[c] EXCEPT !.calm = calm]
    BY <1>2
  <2> HIDE DEF calm
  <2>2. Shape(call[c])
    BY DEF IInv, Progress
  <2>3. /\ Shape(call'[c])
        /\ call'[c].pc = call[c].pc /\ call'[c].op = call[c].op /\ call'[c].in = call[c].in
        /\ call'[c].scope = call[c].scope /\ call'[c].plan = call[c].plan
        /\ call'[c].grant = call[c].grant
    BY <2>1, <2>2 DEF Shape, Fields
  <2> QED BY <1>1, <2>3 DEF IInv, Progress, Ungranted, PlanHolds, RecordHolds
<1>4. call' = [c \in Callers |-> call'[c]]
  BY <1>2
<1>5. FetchesStayInRestriction' /\ ProofsAreDurable'
  BY <1>1 DEF IInv, FetchesStayInRestriction, ProofsAreDurable
<1> QED BY <1>1, <1>3, <1>4, <1>5 DEF IInv

\* Nothing that the invariant speaks of changes.
LEMMA StillStep ==
    ASSUME IInv, UNCHANGED <<grants, events, handed, call>>
    PROVE  IInv'
BY DEF IInv, FetchesStayInRestriction, ProofsAreDurable

LEMMA NextIInv == IInv /\ [Next]_vars => IInv'
<1> SUFFICES ASSUME IInv, [Next]_vars PROVE IInv'
  OBVIOUS
<1>1. ASSUME NEW c \in Callers, BeginPlan(c) PROVE IInv'
  BY <1>1, BeginStep DEF BeginPlan
<1>2. ASSUME NEW c \in Callers, BeginFetch(c) PROVE IInv'
  BY <1>2, BeginStep DEF BeginFetch
<1>3. ASSUME NEW c \in Callers, BeginRevalidate(c) PROVE IInv'
  BY <1>3, BeginStep DEF BeginRevalidate
<1>4. ASSUME NEW c \in Callers, NotRevalidated(c) \/ Abandon(c) PROVE IInv'
  BY <1>4, RefuseStep DEF NotRevalidated, Abandon
<1>5. CASE CommitTable \/ DropTable \/ RegisterTable \/ UpsertPolicyBinding \/ ChangeAuthority
  BY <1>5, ChangeStep
     DEF CommitTable, DropTable, RegisterTable, UpsertPolicyBinding, ChangeAuthority
<1>6. CASE Tick
  BY <1>6, StillStep DEF Tick
<1>7. CASE UNCHANGED vars
  BY <1>7, StillStep DEF vars
<1> QED
  BY <1>1, <1>2, <1>3, <1>4, <1>5, <1>6, <1>7, ReadPoliciesStep, DecideStep, LoadTableStep,
     PlanTableStep, SaveGrantStep, FetchTasksStep, RecordStep, LoadGrantStep,
     CheckTableStep, RevalidatedStep DEF Next

LEMMA InvariantHolds == Spec => []IInv
BY InitIInv, NextIInv, PTL DEF Spec

-----------------------------------------------------------------------------
(* Theorems *)

\* Every answered plan and every answered fetch (plan_table_scan and
\* fetch_scan_tasks, with the provider's validate_decoded_plan_task) reads only
\* columns and rows of the restriction the request was itself authorized under,
\* however the policies changed since the task was planned, and for any number
\* of requests, policies and documents.
THEOREM FetchesAreRestricted == Spec => []FetchesStayInRestriction
<1>1. IInv => FetchesStayInRestriction
  BY DEF IInv
<1> QED BY <1>1, InvariantHolds, PTL

\* Whenever save_governed_scan_grant, record_audit_event and the response are
\* interrupted or interleaved, evidence names only proofs with a durable grant
\* that says the same, callers hold only recorded proofs, and an identifier has
\* one grant.
THEOREM GrantsBackProofs == Spec => []ProofsAreDurable
<1>1. IInv => ProofsAreDurable
  BY DEF IInv
<1> QED BY <1>1, InvariantHolds, PTL

-----------------------------------------------------------------------------
(* Revalidation: what a request and a grant still know of the table *)

RowFields == {"life", "version", "meta"}

TableOk(t, n) ==
    /\ n \in Nat
    /\ t # None =>
          /\ t = [f \in RowFields |-> t[f]]
          /\ t.life \in Nat /\ t.version \in Nat /\ t.life <= n

\* The table was, or is, in this life at this version, and if it still is, m is
\* its metadata.
Known(life, version, m, t, n) ==
    /\ life \in Nat /\ version \in Nat /\ life <= n
    /\ t # None /\ t.life = life =>
          version <= t.version /\ (version = t.version => m = t.meta)

GrantKnown(g, t, n) ==
    /\ Known(g.life, g.proof.version, g.proof.plan.meta, t, n)
    /\ g.proof.receipt.scope = g.scope

\* What a request relies on at each await; r is the restriction of the moment.
Relies(x, G, t, n, r) ==
    /\ x.op = "plan" /\ x.pc = "engine" => Known(x.row.life, x.row.version, x.row.meta, t, n)
    /\ x.op = "plan" /\ x.pc = "save" => Known(x.row.life, x.row.version, x.plan.meta, t, n)
    /\ x.op = "revalidate" /\ x.pc \in {"table", "policies", "decide"} => x.grant \in G
    /\ x.op = "revalidate" /\ x.calm /\ x.pc \in {"policies", "decide"} =>
          t # None /\ SameTable(x.grant, t)
    /\ x.op = "revalidate" /\ x.calm /\ x.pc = "decide" => x.scope = r

RInv ==
    /\ TableOk(table, lives)
    /\ \A c \in Callers : Relies(call[c], grants, table, lives, Restriction(Bound))
    /\ \A g \in grants : GrantKnown(g, table, lives)

LEMMA BlankRelies == \A G, t, n, r : Relies(Blank, G, t, n, r)
<1>1. Blank.pc = "idle"
  BY DEF Blank
<1> QED BY <1>1 DEF Relies

LEMMA InitRInv == Init => RInv
<1> SUFFICES ASSUME Init PROVE RInv
  OBVIOUS
<1>1. PICK m \in Metas : table = [life |-> 1, version |-> 0, meta |-> m]
  BY DEF Init
<1>2. /\ table = [f \in RowFields |-> table[f]]
      /\ table.life = 1 /\ table.version = 0
  BY <1>1 DEF RowFields
<1>3. TableOk(table, lives)
  BY <1>2 DEF Init, TableOk
<1>4. \A c \in Callers : call[c] = Blank
  BY DEF Init
<1> QED BY <1>3, <1>4, BlankRelies DEF Init, RInv

\* The request of c moves and everything around it stays.
LEMMA OneCallRelies ==
    ASSUME RInv, NEW c \in Callers, OnlyMoves(c), UNCHANGED store, grants \subseteq grants',
           \A g \in grants' \ grants : GrantKnown(g, table, lives),
           Relies(call'[c], grants', table, lives, Restriction(Bound))
    PROVE  RInv'
<1>1. table' = table /\ lives' = lives /\ Bound' = Bound
  BY DEF store, Bound
<1>2. ASSUME NEW x, Relies(x, grants, table, lives, Restriction(Bound))
      PROVE  Relies(x, grants', table, lives, Restriction(Bound))
  BY <1>2 DEF Relies
<1>3. \A d \in Callers : Relies(call'[d], grants', table, lives, Restriction(Bound))
  BY <1>2 DEF RInv, OnlyMoves
<1>4. \A g \in grants' : GrantKnown(g, table, lives)
  BY DEF RInv
<1>5. Restriction(Bound)' = Restriction(Bound')
  OBVIOUS
<1> HIDE DEF Restriction
<1> QED BY <1>1, <1>3, <1>4, <1>5 DEF RInv

\* A request moves to an await where it relies on nothing.
LEMMA FreeRelies ==
    ASSUME RInv, NEW c \in Callers, OnlyMoves(c), UNCHANGED store, grants' = grants,
           \/ call'[c].op \notin {"plan", "revalidate"}
           \/ call'[c].op = "plan" /\ call'[c].pc \notin {"engine", "save"}
           \/ call'[c].op = "revalidate" /\ call'[c].pc \notin {"table", "policies", "decide"}
           \/ call'[c] = Blank
    PROVE  RInv'
<1>1. Relies(call'[c], grants, table, lives, Restriction(Bound))
  BY BlankRelies DEF Relies
<1> QED BY <1>1, OneCallRelies

LEMMA RefuseRelies == ASSUME IInv, RInv, NEW c \in Callers, Refuse(c), UNCHANGED store PROVE RInv'
<1>1. call'[c] = Blank /\ OnlyMoves(c)
  BY DEF Refuse, OnlyMoves, IInv
<1> QED BY <1>1, FreeRelies DEF Refuse

LEMMA BeginRelies ==
    ASSUME IInv, RInv, NEW c \in Callers, NEW op, NEW in, NEW pc, Begin(c, op, in, pc),
           pc \in {"policies", "grant"}, op = "revalidate" => pc = "grant"
    PROVE  RInv'
<1> DEFINE new == [Blank EXCEPT !.op = op, !.in = in, !.pc = pc]
<1>1. new.pc = pc /\ new.op = op
  BY BlankShape DEF Shape, Fields
<1>2. call' = [call EXCEPT ![c] = new] /\ UNCHANGED <<store, grants>>
  BY DEF Begin
<1> HIDE DEF new
<1>3. call'[c] = new /\ OnlyMoves(c)
  BY <1>2 DEF OnlyMoves, IInv
<1> QED BY <1>1, <1>2, <1>3, FreeRelies

LEMMA ReadPoliciesRelies == ASSUME IInv, RInv, NEW c \in Callers, ReadPolicies(c) PROVE RInv'
<1>1. UNCHANGED store /\ call[c].pc = "policies"
  BY DEF ReadPolicies
<1>2. CASE Refuse(c)
  BY <1>1, <1>2, RefuseRelies
<1> DEFINE r == Restriction(Bound)
<1>3. CASE /\ call' = [call EXCEPT ![c].scope = r, ![c].pc = "decide"]
           /\ UNCHANGED <<grants, events, handed>>
  <2>1. Relies(call[c], grants, table, lives, r) /\ Shape(call[c])
    BY DEF RInv, IInv, Progress
  <2> HIDE DEF r
  <2>2. /\ call'[c].pc = "decide" /\ call'[c].scope = r /\ call'[c].op = call[c].op
        /\ call'[c].grant = call[c].grant /\ call'[c].calm = call[c].calm
    BY <1>3, <2>1 DEF Shape, Fields, IInv
  <2>3. Relies(call'[c], grants, table, lives, r)
    BY <1>1, <2>1, <2>2 DEF Relies
  <2>4. OnlyMoves(c)
    BY <1>3 DEF OnlyMoves, IInv
  <2> QED BY <1>1, <1>3, <2>3, <2>4, OneCallRelies DEF r
<1> QED BY <1>2, <1>3 DEF ReadPolicies

LEMMA DecideRelies == ASSUME IInv, RInv, NEW c \in Callers, Decide(c) PROVE RInv'
<1>1. UNCHANGED store /\ call[c].op # "revalidate"
  BY DEF Decide
<1>2. CASE Refuse(c)
  BY <1>1, <1>2, RefuseRelies
<1>3. CASE /\ call' = [call EXCEPT ![c].at = now, ![c].pc = "load"]
           /\ UNCHANGED <<grants, events, handed>>
  <2>1. Shape(call[c])
    BY DEF IInv, Progress
  <2>2. call'[c].pc = "load" /\ call'[c].op = call[c].op
    BY <1>3, <2>1 DEF Shape, Fields, IInv
  <2>3. OnlyMoves(c)
    BY <1>3 DEF OnlyMoves, IInv
  <2> QED BY <1>1, <1>3, <2>2, <2>3, FreeRelies
<1> QED BY <1>2, <1>3 DEF Decide

LEMMA LoadTableRelies == ASSUME IInv, RInv, NEW c \in Callers, LoadTable(c) PROVE RInv'
<1>1. UNCHANGED store
  BY DEF LoadTable
<1>2. CASE Refuse(c)
  BY <1>1, <1>2, RefuseRelies
<1>3. CASE /\ table # None
           /\ call' = [call EXCEPT ![c].row = table, ![c].pc = "engine"]
           /\ UNCHANGED <<grants, events, handed>>
  <2>1. Shape(call[c]) /\ TableOk(table, lives)
    BY DEF RInv, IInv, Progress
  <2>2. call'[c].pc = "engine" /\ call'[c].row = table
    BY <1>3, <2>1 DEF Shape, Fields, IInv
  <2>3. Known(table.life, table.version, table.meta, table, lives)
    BY <1>3, <2>1 DEF Known, TableOk
  <2>4. Relies(call'[c], grants, table, lives, Restriction(Bound))
    BY <2>2, <2>3 DEF Relies
  <2>5. OnlyMoves(c)
    BY <1>3 DEF OnlyMoves, IInv
  <2> QED BY <1>1, <1>3, <2>4, <2>5, OneCallRelies
<1> QED BY <1>2, <1>3 DEF LoadTable

LEMMA PlanTableRelies == ASSUME IInv, RInv, NEW c \in Callers, PlanTable(c) PROVE RInv'
<1> DEFINE k == call[c]
           plan == [meta |-> table.meta, task |-> PlannedTask(k, table.meta)]
<1>1. UNCHANGED store /\ k.op = "plan" /\ k.pc = "engine"
  BY DEF PlanTable
<1>2. CASE Refuse(c)
  BY <1>1, <1>2, RefuseRelies
<1>3. CASE /\ call' = [call EXCEPT ![c].plan = plan, ![c].pc = "save"]
           /\ UNCHANGED <<grants, events, handed>>
  <2>1. Shape(k) /\ Known(k.row.life, k.row.version, k.row.meta, table, lives)
    BY <1>1 DEF RInv, Relies, IInv, Progress
  <2>2. plan.meta = table.meta
    OBVIOUS
  <2> HIDE DEF plan
  <2>3. /\ call'[c].pc = "save" /\ call'[c].plan = plan
        /\ call'[c].op = k.op /\ call'[c].row = k.row
    BY <1>3, <2>1 DEF Shape, Fields, IInv
  <2>4. Known(k.row.life, k.row.version, plan.meta, table, lives)
    BY <2>1, <2>2 DEF Known
  <2>5. Relies(call'[c], grants, table, lives, Restriction(Bound))
    BY <1>1, <2>3, <2>4 DEF Relies
  <2>6. OnlyMoves(c)
    BY <1>3 DEF OnlyMoves, IInv
  <2> QED BY <1>1, <1>3, <2>5, <2>6, OneCallRelies
<1> QED BY <1>2, <1>3 DEF PlanTable

LEMMA SaveGrantRelies == ASSUME IInv, RInv, NEW c \in Callers, SaveGrant(c) PROVE RInv'
<1> DEFINE k == call[c]
           g == Grant(k)
<1>1. UNCHANGED store /\ k.pc = "save" /\ k.op = "plan" /\ Shape(k)
  BY DEF SaveGrant, IInv, Progress, PlanHolds
<1>2. CASE Refuse(c)
  BY <1>1, <1>2, RefuseRelies
<1>3. CASE /\ call' = [call EXCEPT ![c].pc = "record"]
           /\ UNCHANGED <<grants, events, handed>>
  <2>1. call'[c].pc = "record" /\ call'[c].op = k.op
    BY <1>1, <1>3 DEF Shape, Fields, IInv
  <2>2. OnlyMoves(c)
    BY <1>3 DEF OnlyMoves, IInv
  <2> QED BY <1>1, <1>3, <2>1, <2>2, FreeRelies
<1>4. CASE /\ grants' = Saved(g)
           /\ call' = [call EXCEPT ![c].grant = g, ![c].pc = "record"]
           /\ UNCHANGED <<events, handed>>
  <2>1. Known(k.row.life, k.row.version, k.plan.meta, table, lives)
    BY <1>1 DEF RInv, Relies
  <2>2. /\ g.life = k.row.life /\ g.proof.version = k.row.version
        /\ g.proof.plan = k.plan /\ g.proof.receipt.scope = g.scope
    BY DEF Grant, Proof
  <2> HIDE DEF g
  <2>3. grants \subseteq grants' /\ grants' \subseteq grants \cup {g}
    BY <1>4 DEF Saved
  <2>4. GrantKnown(g, table, lives)
    BY <2>1, <2>2 DEF GrantKnown
  <2>5. call'[c].pc = "record" /\ call'[c].op = k.op
    BY <1>1, <1>4 DEF Shape, Fields, IInv
  <2>6. Relies(call'[c], grants', table, lives, Restriction(Bound))
    BY <1>1, <2>5 DEF Relies
  <2>7. OnlyMoves(c)
    BY <1>4 DEF OnlyMoves, IInv
  <2> QED BY <1>1, <2>3, <2>4, <2>6, <2>7, OneCallRelies
<1>5. \/ Refuse(c)
      \/ /\ call' = [call EXCEPT ![c].pc = "record"]
         /\ UNCHANGED <<grants, events, handed>>
      \/ /\ grants' = Saved(g)
         /\ call' = [call EXCEPT ![c].grant = g, ![c].pc = "record"]
         /\ UNCHANGED <<events, handed>>
  <2>1. CASE IssueFails(k)
    BY <2>1 DEF SaveGrant
  <2>2. CASE ~IssueFails(k) /\ Ungoverned(k)
    BY <2>2 DEF SaveGrant
  <2>3. CASE ~IssueFails(k) /\ ~Ungoverned(k)
    BY <2>3 DEF SaveGrant
  <2> QED BY <2>1, <2>2, <2>3
<1> QED BY <1>2, <1>3, <1>4, <1>5

LEMMA FetchTasksRelies == ASSUME IInv, RInv, NEW c \in Callers, FetchTasks(c) PROVE RInv'
<1>1. UNCHANGED store /\ call[c].op = "fetch"
  BY DEF FetchTasks
<1>2. CASE Refuse(c)
  BY <1>1, <1>2, RefuseRelies
<1>3. CASE call' = [call EXCEPT ![c].pc = "record"] /\ UNCHANGED <<grants, events, handed>>
  <2>1. Shape(call[c])
    BY DEF IInv, Progress
  <2>2. call'[c].op = call[c].op
    BY <1>3, <2>1 DEF Shape, Fields, IInv
  <2>3. OnlyMoves(c)
    BY <1>3 DEF OnlyMoves, IInv
  <2> QED BY <1>1, <1>3, <2>2, <2>3, FreeRelies
<1> QED BY <1>2, <1>3 DEF FetchTasks

\* A request that ends relies on nothing.
LEMMA EndRelies ==
    ASSUME IInv, RInv, NEW c \in Callers, Record(c) \/ Revalidated(c)
    PROVE  RInv'
<1>1. UNCHANGED store /\ grants' = grants /\ call' = [call EXCEPT ![c] = Blank]
  BY DEF Record, Revalidated
<1>2. call'[c] = Blank /\ OnlyMoves(c)
  BY <1>1 DEF OnlyMoves, IInv
<1> QED BY <1>1, <1>2, FreeRelies

LEMMA LoadGrantRelies == ASSUME IInv, RInv, NEW c \in Callers, LoadGrant(c) PROVE RInv'
<1>1. UNCHANGED store
  BY DEF LoadGrant
<1>2. CASE Refuse(c)
  BY <1>1, <1>2, RefuseRelies
<1> DEFINE g == CHOOSE h \in grants : h.proof = call[c].in
<1>3. CASE /\ \E h \in grants : h.proof = call[c].in
           /\ call' = [call EXCEPT ![c].grant = g, ![c].pc = "table"]
           /\ UNCHANGED <<grants, events, handed>>
  <2>1. g \in grants
    BY <1>3
  <2> HIDE DEF g
  <2>2. Shape(call[c])
    BY DEF IInv, Progress
  <2>3. call'[c].pc = "table" /\ call'[c].grant = g
    BY <1>3, <2>2 DEF Shape, Fields, IInv
  <2>4. Relies(call'[c], grants, table, lives, Restriction(Bound))
    BY <2>1, <2>3 DEF Relies
  <2>5. OnlyMoves(c)
    BY <1>3 DEF OnlyMoves, IInv
  <2> QED BY <1>1, <1>3, <2>4, <2>5, OneCallRelies
<1> QED BY <1>2, <1>3 DEF LoadGrant

LEMMA CheckTableRelies == ASSUME IInv, RInv, NEW c \in Callers, CheckTable(c) PROVE RInv'
<1>1. UNCHANGED store /\ call[c].pc = "table"
  BY DEF CheckTable
<1>2. CASE Refuse(c)
  BY <1>1, <1>2, RefuseRelies
<1>3. CASE /\ table # None /\ SameTable(call[c].grant, table)
           /\ call' = [call EXCEPT ![c].row = table, ![c].pc = "policies"]
           /\ UNCHANGED <<grants, events, handed>>
  <2>1. Shape(call[c]) /\ Relies(call[c], grants, table, lives, Restriction(Bound))
    BY DEF IInv, Progress, RInv
  <2>2. /\ call'[c].pc = "policies" /\ call'[c].op = call[c].op
        /\ call'[c].grant = call[c].grant
    BY <1>3, <2>1 DEF Shape, Fields, IInv
  <2>3. Relies(call'[c], grants, table, lives, Restriction(Bound))
    BY <1>1, <1>3, <2>1, <2>2 DEF Relies
  <2>4. OnlyMoves(c)
    BY <1>3 DEF OnlyMoves, IInv
  <2> QED BY <1>1, <1>3, <2>3, <2>4, OneCallRelies
<1> QED BY <1>2, <1>3 DEF CheckTable

\* A commit makes a new version and a registration a new life, so what was
\* known of the table stays known.
LEMMA KnownStays ==
    ASSUME TableOk(table, lives),
           CommitTable \/ DropTable \/ RegisterTable \/ UNCHANGED <<table, lives>>
    PROVE  /\ TableOk(table', lives')
           /\ \A l, v, m : Known(l, v, m, table, lives) => Known(l, v, m, table', lives')
<1>1. CASE UNCHANGED <<table, lives>>
  BY <1>1
<1>2. CASE DropTable
  BY <1>2 DEF DropTable, TableOk, Known
<1>3. CASE CommitTable
  <2>1. PICK m \in Metas : table' = [table EXCEPT !.version = @ + 1, !.meta = m]
    BY <1>3 DEF CommitTable
  <2>2. table # None /\ lives' = lives
    BY <1>3 DEF CommitTable
  <2>3. /\ table' = [f \in RowFields |-> table'[f]]
        /\ table'.life = table.life /\ table'.version = table.version + 1
    BY <2>1, <2>2 DEF TableOk, RowFields
  <2> QED BY <2>2, <2>3 DEF TableOk, Known
<1>4. CASE RegisterTable
  <2>1. PICK m \in Metas : table' = [life |-> lives + 1, version |-> 0, meta |-> m]
    BY <1>4 DEF RegisterTable
  <2>2. lives' = lives + 1
    BY <1>4 DEF RegisterTable
  <2>3. /\ table' = [f \in RowFields |-> table'[f]]
        /\ table'.life = lives + 1 /\ table'.version = 0
    BY <2>1 DEF RowFields
  <2> QED BY <2>2, <2>3 DEF TableOk, Known
<1> QED BY <1>1, <1>2, <1>3, <1>4

\* A change around the requests ends the calm of every revalidation.
LEMMA ChangeRelies ==
    ASSUME IInv, RInv, Change,
           CommitTable \/ DropTable \/ RegisterTable \/ UNCHANGED <<table, lives>>
    PROVE  RInv'
<1>1. /\ TableOk(table', lives')
      /\ \A l, v, m : Known(l, v, m, table, lives) => Known(l, v, m, table', lives')
  BY KnownStays DEF RInv
<1>2. call' = [c \in Callers |-> [call[c] EXCEPT !.calm = @ /\ call[c].op # "revalidate"]]
  BY DEF Change
<1>3. grants' = grants
  BY DEF Change
<1>4. ASSUME NEW c \in Callers, NEW r
      PROVE  Relies(call'[c], grants, table', lives', r)
  <2> DEFINE calm == call[c].calm /\ call[c].op # "revalidate"
  <2>1. call'[c] = [call[c] EXCEPT !.calm = calm]
    BY <1>2
  <2>2. call[c].op = "revalidate" => ~calm
    OBVIOUS
  <2> HIDE DEF calm
  <2>3. Shape(call[c]) /\ Relies(call[c], grants, table, lives, Restriction(Bound))
    BY DEF IInv, Progress, RInv
  <2>4. /\ call'[c].pc = call[c].pc /\ call'[c].op = call[c].op /\ call'[c].row = call[c].row
        /\ call'[c].plan = call[c].plan /\ call'[c].grant = call[c].grant
        /\ call'[c].calm = calm
    BY <2>1, <2>3 DEF Shape, Fields
  <2> QED BY <1>1, <2>2, <2>3, <2>4 DEF Relies
<1>5. \A g \in grants : GrantKnown(g, table', lives')
  BY <1>1 DEF RInv, GrantKnown
<1>6. Restriction(Bound)' = Restriction(Bound')
  OBVIOUS
<1> HIDE DEF Restriction
<1> QED BY <1>1, <1>3, <1>4, <1>5, <1>6 DEF RInv

LEMMA StillRelies == ASSUME RInv, UNCHANGED <<store, grants, call>> PROVE RInv'
<1>1. table' = table /\ lives' = lives /\ Bound' = Bound
  BY DEF store, Bound
<1>2. Restriction(Bound)' = Restriction(Bound')
  OBVIOUS
<1> HIDE DEF Restriction
<1> QED BY <1>1, <1>2 DEF RInv

LEMMA NextRInv == IInv /\ RInv /\ [Next]_vars => RInv'
<1> SUFFICES ASSUME IInv, RInv, [Next]_vars PROVE RInv'
  OBVIOUS
<1>1. ASSUME NEW c \in Callers, BeginPlan(c) PROVE RInv'
  BY <1>1, BeginRelies DEF BeginPlan
<1>2. ASSUME NEW c \in Callers, BeginFetch(c) PROVE RInv'
  BY <1>2, BeginRelies DEF BeginFetch
<1>3. ASSUME NEW c \in Callers, BeginRevalidate(c) PROVE RInv'
  BY <1>3, BeginRelies DEF BeginRevalidate
<1>4. ASSUME NEW c \in Callers, NotRevalidated(c) \/ Abandon(c) PROVE RInv'
  BY <1>4, RefuseRelies DEF NotRevalidated, Abandon
<1>5. CASE CommitTable \/ DropTable \/ RegisterTable
  <2>1. Change
    BY <1>5 DEF CommitTable, DropTable, RegisterTable
  <2> QED BY <1>5, <2>1, ChangeRelies
<1>6. CASE UpsertPolicyBinding \/ ChangeAuthority
  BY <1>6, ChangeRelies DEF UpsertPolicyBinding, ChangeAuthority
<1>7. CASE Tick
  BY <1>7, StillRelies DEF Tick
<1>8. CASE UNCHANGED vars
  BY <1>8, StillRelies DEF vars, store
<1> QED
  BY <1>1, <1>2, <1>3, <1>4, <1>5, <1>6, <1>7, <1>8, ReadPoliciesRelies, DecideRelies,
     LoadTableRelies, PlanTableRelies, SaveGrantRelies, FetchTasksRelies, EndRelies,
     LoadGrantRelies, CheckTableRelies DEF Next

\* A proof that revalidate_governed_scan_grant confirms, having read the grant,
\* the table and the policies one after the other without a change in between,
\* describes the table, the restriction and the authority of that moment, and
\* its plan was made from the table's present metadata if the table is still the
\* one it was planned on: for any number of requests, lives and versions.
THEOREM RevalidationIsCurrent == Spec => RevalidatedIsCurrent
<1>1. ASSUME IInv, RInv, NEW c \in Callers, Revalidated(c), call[c].calm
      PROVE  LET g == call[c].grant IN
             /\ table # None /\ permitted
             /\ table.version = g.proof.version /\ table.meta = g.meta
             /\ Restriction(Bound) = g.proof.receipt.scope
             /\ g.life = table.life => g.proof.plan.meta = table.meta
  <2> DEFINE g == call[c].grant
  <2>1. Relies(call[c], grants, table, lives, Restriction(Bound))
    BY <1>1 DEF RInv
  <2>2. /\ call[c].op = "revalidate" /\ call[c].pc = "decide" /\ permitted
        /\ SameRestriction(g, call[c].scope)
    BY <1>1 DEF Revalidated
  <2>3. /\ g \in grants /\ table # None /\ SameTable(g, table)
        /\ call[c].scope = Restriction(Bound)
    BY <1>1, <2>1, <2>2 DEF Relies
  <2>4. Restriction(Bound) = g.scope
    BY <2>2, <2>3 DEF SameRestriction
  <2>5. GrantKnown(g, table, lives)
    BY <1>1, <2>3 DEF RInv
  <2> HIDE DEF g
  <2>6. table.version = g.proof.version /\ table.meta = g.meta
    BY <2>3 DEF SameTable
  <2>7. Restriction(Bound) = g.proof.receipt.scope
    BY <2>4, <2>5 DEF GrantKnown
  <2>8. g.life = table.life => g.proof.plan.meta = table.meta
    BY <2>3, <2>5, <2>6 DEF GrantKnown, Known
  <2> QED BY <2>2, <2>3, <2>6, <2>7, <2>8 DEF g
<1>2. IInv /\ RInv => [\A c \in Callers : Revalidated(c) /\ call[c].calm =>
          LET g == call[c].grant IN
          /\ table # None /\ permitted
          /\ table.version = g.proof.version /\ table.meta = g.meta
          /\ Restriction(Bound) = g.proof.receipt.scope
          /\ g.life = table.life => g.proof.plan.meta = table.meta]_vars
  BY <1>1
<1>3. Spec => []RInv
  <2>1. Init /\ [][Next]_vars /\ []IInv => []RInv
    BY InitRInv, NextRInv, PTL
  <2> QED BY <2>1, InvariantHolds, PTL DEF Spec
<1> QED BY <1>2, <1>3, InvariantHolds, PTL DEF RevalidatedIsCurrent
=============================================================================
