------------------------- MODULE CommitServiceProofs -------------------------
(***************************************************************************)
(* Documents, pointers and answers of interleaved handlers, for any number *)
(* of requests, tables, locations, keys and deployments.                   *)
(***************************************************************************)
EXTENDS CommitService, TLAPS

-----------------------------------------------------------------------------
(* The inductive invariant.                                                 *)

\* What a handler knows of the row that it loaded: the table is still there,
\* and as long as its version is the same it is that very row.
LoadedOK(r, T) ==
    r.loaded # Absent =>
       /\ T[r.table] # Absent
       /\ r.loaded.version <= T[r.table].version
       /\ r.loaded.version = T[r.table].version => T[r.table] = r.loaded

\* Where a handler can be, and what it holds there.
PhaseOK(r, P, B) ==
    /\ r.op \in B.operations
    /\ r.op = "commit" => r.content \in B.contents
    /\ r.phase \in {"replay", "load", "read"} => ~r.wrote /\ r.loaded = Absent
    /\ r.phase \in {"replay", "load", "cas"} => r.op = "commit"
    /\ r.phase = "replay" => r.key # NoKey
    /\ r.phase = "read" => r.op = "register"
    /\ r.phase = "write" => ~r.wrote /\ r.op \in {"commit", "create"}
    /\ r.phase = "admit" => r.op # "commit" /\ (r.op = "create" => r.wrote)
    /\ r.phase = "cleanup" => r.wrote
    /\ r.phase = "audit" => r.location \in P \cup {NoLocation}
    /\ r.phase \in {"write", "cas"} /\ r.op = "commit" => r.loaded # Absent
    /\ r.phase = "write" \/ r.wrote =>
          /\ r.location # NoLocation
          /\ r.loaded # Absent => r.loaded.location # r.location

\* A commit that asserts the creation of its table was planned from a staged
\* row, if the engine is Sail.
StagedOK(r, B) ==
    B.engine = "sail" /\ r.loaded # Absent /\ r.content.create => r.loaded.staged

RequestOK(r, T, P, B) ==
    /\ r \in Request
    /\ LoadedOK(r, T)
    /\ PhaseOK(r, P, B)
    /\ StagedOK(r, B)

RequestsOK ==
    /\ req = [c \in Handlers |-> req[c]]
    /\ \A c \in Handlers : req[c] = Idle \/ RequestOK(req[c], tables, pointed, build)

\* An answer is what its key's record says.
AnswersOK ==
    \A a \in answers :
       idempotency[<<a.table, a.key>>] = [content |-> a.content, response |-> a.response]

\* The variables but the requests.
StoresOK ==
    /\ build \in Deployments
    /\ tables \in [Tables -> Row \cup {Absent}]
    /\ idempotency \in [Tables \X Keys -> ReplayRow \cup {Absent}]
    /\ {pointed, objects, minted, stray, misreported} \subseteq SUBSET Locations
    /\ audit \subseteq Tables
    /\ answers \subseteq
          [table : Tables, key : Keys, content : Contents, response : Row]
    /\ \A t \in Tables :
          tables[t] # Absent => tables[t].location \in pointed \cup {NoLocation}

IInv == StoresOK /\ RequestsOK

-----------------------------------------------------------------------------
(* Single requests.                                                         *)

\* Rows appear, and move on by one version.
TablesGrow(T, T2) ==
    \A t \in Tables :
       \/ T2[t] = T[t]
       \/ T[t] = Absent
       \/ /\ T[t] \in Row /\ T2[t] \in Row
          /\ T2[t].version = T[t].version + 1

LEMMA IdleIsNoRequest == Idle \notin Request
BY DEF Idle, Request, Phases

LEMMA RequestStays ==
    ASSUME NEW r, NEW T, NEW T2, NEW P, NEW P2, NEW B, P \subseteq P2,
           TablesGrow(T, T2), RequestOK(r, T, P, B)
    PROVE  RequestOK(r, T2, P2, B)
<1>1. r.table \in Tables /\ r.loaded \in Row \cup {Absent}
  BY DEF RequestOK, Request
<1>2. LoadedOK(r, T2)
  <2> SUFFICES ASSUME r.loaded # Absent PROVE LoadedOK(r, T2)
    BY DEF LoadedOK
  <2>1. /\ T[r.table] # Absent
        /\ r.loaded.version <= T[r.table].version
        /\ r.loaded.version = T[r.table].version => T[r.table] = r.loaded
    BY DEF RequestOK, LoadedOK
  <2>2. CASE T2[r.table] = T[r.table]
    BY <2>1, <2>2 DEF LoadedOK
  <2>3. CASE /\ T[r.table] \in Row /\ T2[r.table] \in Row
             /\ T2[r.table].version = T[r.table].version + 1
    <3>1. r.loaded.version \in Nat /\ T[r.table].version \in Nat
      BY <1>1, <2>3, ServiceAssumption DEF Row
    <3>2. /\ r.loaded.version <= T2[r.table].version
          /\ r.loaded.version # T2[r.table].version
      BY <2>1, <2>3, <3>1
    <3> QED BY <2>3, <3>2, AbsentAssumption DEF LoadedOK
  <2> QED BY <1>1, <2>1, <2>2, <2>3 DEF TablesGrow
<1>3. PhaseOK(r, P2, B)
  BY DEF RequestOK, PhaseOK
<1> QED BY <1>2, <1>3 DEF RequestOK

\* A step of handler c that puts new in its place.
LEMMA OneRequest ==
    ASSUME RequestsOK, NEW c \in Handlers, NEW new, req' = [req EXCEPT ![c] = new],
           build' = build, pointed \subseteq pointed', TablesGrow(tables, tables'),
           new = Idle \/ RequestOK(new, tables', pointed', build)
    PROVE  RequestsOK'
<1>1. \A d \in Handlers : req'[d] = IF d = c THEN new ELSE req[d]
  BY DEF RequestsOK
<1>2. req' = [d \in Handlers |-> req'[d]]
  BY DEF RequestsOK
<1>3. ASSUME NEW d \in Handlers
      PROVE  req'[d] = Idle \/ RequestOK(req'[d], tables', pointed', build')
  <2>1. CASE d = c
    BY <1>1, <2>1
  <2>2. CASE d # c
    BY <1>1, <2>2, RequestStays DEF RequestsOK
  <2> QED BY <2>1, <2>2
<1> QED BY <1>2, <1>3 DEF RequestsOK, Idle

LEMMA TablesStay == ASSUME tables' = tables PROVE TablesGrow(tables, tables')
BY DEF TablesGrow

\* A handler that is anywhere is where PhaseOK says.
LEMMA Running ==
    ASSUME RequestsOK, NEW c \in Handlers, req[c] # Idle
    PROVE  RequestOK(req[c], tables, pointed, build)
BY DEF RequestsOK

LEMMA InPhase ==
    ASSUME RequestsOK, NEW c \in Handlers, req[c].phase \in Phases
    PROVE  req[c] # Idle /\ RequestOK(req[c], tables, pointed, build)
BY DEF RequestsOK, Idle, Phases
LEMMA RequestFields ==
    ASSUME NEW r \in Request
    PROVE  /\ r.phase \in Phases /\ r.table \in Tables
           /\ r.op \in {"commit", "create", "adopt", "register"}
           /\ r.key \in Keys \cup {NoKey} /\ r.content \in Contents \cup {Absent}
           /\ r.loaded \in Row \cup {Absent}
           /\ r.location \in Locations \cup {NoLocation}
           /\ r.stage \in BOOLEAN /\ r.wrote \in BOOLEAN
           /\ r.failed \in 0..DeleteAttempts - 1
BY DEF Request

LEMMA NoAttemptFailed == 0 \in 0..DeleteAttempts - 1
BY ServiceAssumption

\* The records that Goto and WriteObject put in a request's place.
Moved(r, phase, wrote) == [r EXCEPT !.phase = phase, !.wrote = wrote]

LEMMA MovedFields ==
    ASSUME NEW r \in Request, NEW phase \in Phases, NEW wrote \in BOOLEAN
    PROVE  /\ Moved(r, phase, wrote) \in Request
           /\ Moved(r, phase, wrote).phase = phase
           /\ Moved(r, phase, wrote).wrote = wrote
           /\ Moved(r, phase, wrote).op = r.op
           /\ Moved(r, phase, wrote).table = r.table
           /\ Moved(r, phase, wrote).key = r.key
           /\ Moved(r, phase, wrote).content = r.content
           /\ Moved(r, phase, wrote).loaded = r.loaded
           /\ Moved(r, phase, wrote).location = r.location
BY DEF Moved, Request

LEMMA MovedPhase ==
    ASSUME NEW r \in Request, NEW phase \in Phases
    PROVE  /\ Moved(r, phase, r.wrote).phase = phase
           /\ Moved(r, phase, r.wrote).wrote = r.wrote
           /\ Moved(r, phase, r.wrote).op = r.op
           /\ Moved(r, phase, r.wrote).key = r.key
           /\ Moved(r, phase, r.wrote).content = r.content
           /\ Moved(r, phase, r.wrote).loaded = r.loaded
           /\ Moved(r, phase, r.wrote).location = r.location
BY DEF Moved, Request

LEMMA GotoMoves ==
    ASSUME NEW c \in Handlers, NEW phase \in Phases, req[c] \in Request,
           RequestsOK, Goto(c, phase)
    PROVE  req' = [req EXCEPT ![c] = Moved(req[c], phase, req[c].wrote)]
<1>1. [req[c] EXCEPT !.phase = phase] = Moved(req[c], phase, req[c].wrote)
  BY DEF Moved, Request
<1> QED BY <1>1 DEF Goto, RequestsOK

\* A request that moves on to a phase with what it has.
LEMMA MovedOK ==
    ASSUME NEW r, NEW T, NEW T2, NEW P, NEW P2, NEW B, NEW phase \in Phases,
           NEW wrote \in BOOLEAN, RequestOK(r, T, P, B), P \subseteq P2,
           TablesGrow(T, T2), PhaseOK(Moved(r, phase, wrote), P2, B)
    PROVE  RequestOK(Moved(r, phase, wrote), T2, P2, B)
<1> DEFINE m == Moved(r, phase, wrote)
<1>1. RequestOK(r, T2, P2, B)
  BY RequestStays
<1>2. m \in Request /\ m.table = r.table /\ m.loaded = r.loaded /\ m.content = r.content
  BY MovedFields DEF RequestOK
<1> HIDE DEF m
<1>3. LoadedOK(m, T2) /\ StagedOK(m, B)
  BY <1>1, <1>2 DEF RequestOK, LoadedOK, StagedOK
<1> QED BY <1>2, <1>3 DEF RequestOK, m

-----------------------------------------------------------------------------
(* The steps of a commit.                                                   *)

LEMMA BeginCommitStep ==
    ASSUME IInv, NEW c \in Handlers, NEW t \in Tables, NEW key \in Keys \cup {NoKey},
           NEW content \in build.contents, BeginCommit(c, t, key, content), build' = build
    PROVE  IInv'
<1> DEFINE p == IF key = NoKey THEN "load" ELSE "replay"
           r == [New("commit", t, p, NoLocation) EXCEPT !.key = key, !.content = content]
<1>1. content \in Contents
  BY ServiceAssumption DEF IInv, StoresOK
<1>2. p \in Phases
  BY DEF Phases
<1>3. /\ r \in Request /\ r.op = "commit" /\ r.phase = p /\ r.content = content
      /\ r.key = key /\ r.loaded = Absent /\ r.wrote = FALSE
  <2> HIDE DEF p
  <2> QED BY <1>1, <1>2, NoAttemptFailed DEF New, Request
<1>4. req' = [req EXCEPT ![c] = r] /\ "commit" \in build.operations
  BY DEF BeginCommit
<1>5. p = "load" \/ (p = "replay" /\ key # NoKey)
  OBVIOUS
<1> HIDE DEF p, r
<1>6. RequestOK(r, tables, pointed, build)
  BY <1>3, <1>4, <1>5 DEF RequestOK, LoadedOK, StagedOK, PhaseOK
<1>7. RequestsOK'
  BY <1>4, <1>6, OneRequest, TablesStay DEF IInv, BeginCommit
<1> QED BY <1>7 DEF IInv, StoresOK, BeginCommit

\* Requests end anywhere.
LEMMA ReturnStep ==
    ASSUME RequestsOK, NEW c \in Handlers, Return(c), build' = build,
           pointed \subseteq pointed', TablesGrow(tables, tables')
    PROVE  RequestsOK'
BY OneRequest DEF Return

\* A move to another phase.
LEMMA GotoStep ==
    ASSUME RequestsOK, NEW c \in Handlers, req[c].phase \in Phases,
           NEW phase \in Phases, Goto(c, phase), build' = build,
           pointed \subseteq pointed', TablesGrow(tables, tables'),
           PhaseOK(Moved(req[c], phase, req[c].wrote), pointed', build)
    PROVE  RequestsOK'
<1>1. RequestOK(req[c], tables, pointed, build) /\ req[c] \in Request
  BY InPhase DEF RequestOK
<1>2. req' = [req EXCEPT ![c] = Moved(req[c], phase, req[c].wrote)]
  BY <1>1, GotoMoves
<1>3. req[c].wrote \in BOOLEAN
  BY <1>1, RequestFields
<1>4. RequestOK(Moved(req[c], phase, req[c].wrote), tables', pointed', build)
  BY <1>1, <1>3, MovedOK
<1> QED BY <1>2, <1>4, OneRequest

LEMMA CheckReplayStep ==
    ASSUME IInv, NEW c \in Handlers, CheckReplay(c), build' = build
    PROVE  IInv'
<1> DEFINE r == req[c]
<1>1. r # Idle /\ RequestOK(r, tables, pointed, build) /\ r \in Request
  BY InPhase DEF CheckReplay, Phases, IInv, RequestOK
<1>2. RequestsOK'
  <2>1. CASE Goto(c, "load")
    <3>1. PhaseOK(Moved(r, "load", r.wrote), pointed, build)
      BY <1>1, MovedPhase DEF CheckReplay, RequestOK, PhaseOK, Phases
    <3> QED BY <2>1, <3>1, GotoStep, TablesStay DEF CheckReplay, Phases, IInv
  <2>2. CASE Return(c)
    BY <2>2, ReturnStep, TablesStay DEF CheckReplay, IInv
  <2> QED BY <2>1, <2>2 DEF CheckReplay
<1>3. answers' \subseteq [table : Tables, key : Keys, content : Contents, response : Row]
  <2>1. CASE idempotency[<<r.table, r.key>>] = Absent
    BY <2>1 DEF CheckReplay, IInv, StoresOK
  <2>2. CASE idempotency[<<r.table, r.key>>] # Absent
    <3>1. r.table \in Tables /\ r.key \in Keys /\ r.content \in Contents
      BY <1>1, RequestFields, ServiceAssumption
         DEF RequestOK, PhaseOK, CheckReplay, IInv, StoresOK
    <3>2. idempotency[<<r.table, r.key>>] \in ReplayRow
      BY <2>2, <3>1 DEF IInv, StoresOK
    <3>3. Replayed(r) \subseteq
             [table : Tables, key : Keys, content : Contents, response : Row]
      BY <3>1, <3>2 DEF Replayed, ReplayRow
    <3> QED BY <2>2, <3>3 DEF CheckReplay, IInv, StoresOK
  <2> QED BY <2>1, <2>2
<1> QED BY <1>2, <1>3 DEF IInv, StoresOK, CheckReplay
LEMMA PlanLocation ==
    ASSUME NEW content \in Contents, NEW current \in Locations \cup {NoLocation},
           NEW plan \in Plans(content, current)
    PROVE  plan.location \in Locations \cup {NoLocation}
<1>1. content.location \in Locations \cup {NoLocation}
  BY ServiceAssumption
<1>2. OrElse(content.location, current) \in Locations \cup {NoLocation}
  BY <1>1 DEF OrElse
<1>3. ASSUME plan \in SailPlans(content, current)
      PROVE  plan.location \in Locations \cup {NoLocation}
  <2>1. \/ \E l \in Fresh : plan.location = l
        \/ plan.location = OrElse(content.location, current)
    BY <1>3 DEF SailPlans
  <2> QED BY <1>2, <2>1 DEF Fresh
<1>4. ASSUME plan \in DeferredPlans(content, current)
      PROVE  plan.location \in Locations \cup {NoLocation}
  <2>1. plan.location = OrElse(content.location, current)
    BY <1>4 DEF DeferredPlans
  <2> QED BY <1>2, <2>1
<1> QED BY <1>3, <1>4 DEF Plans

Planned(r, row, plan) ==
    [r EXCEPT !.phase = IF plan.write THEN "write" ELSE "cas",
              !.loaded = row, !.location = plan.location]

LEMMA LoadAndPlanStep ==
    ASSUME IInv, NEW c \in Handlers, LoadAndPlan(c), build' = build
    PROVE  IInv'
<1> DEFINE r == req[c]
           row == tables[r.table]
<1>1. /\ RequestOK(r, tables, pointed, build) /\ r \in Request
      /\ r.phase = "load"
  BY InPhase DEF LoadAndPlan, Phases, IInv, RequestOK
<1>2. r.op = "commit" /\ ~r.wrote /\ r.content \in Contents
  BY <1>1, ServiceAssumption DEF RequestOK, PhaseOK, IInv, StoresOK
<1>3. r.table \in Tables /\ row \in Row /\ row # Absent
  BY <1>1, RequestFields DEF LoadAndPlan, IInv, StoresOK
<1>4. PICK plan \in Plans(r.content, row.location) :
         /\ RequirementsHold(r.content, row)
         /\ ValidPlan(plan, row.location)
         /\ req' = [req EXCEPT ![c].phase = IF plan.write THEN "write" ELSE "cas",
                               ![c].loaded = row,
                               ![c].location = plan.location]
         /\ minted' = IF plan.location \in Fresh
                      THEN minted \cup {plan.location} ELSE minted
  BY DEF LoadAndPlan
<1>5. plan.location \in Locations \cup {NoLocation}
  BY <1>2, <1>3, PlanLocation DEF Row
<1> DEFINE new == Planned(r, row, plan)
<1>6. /\ new \in Request
      /\ new.phase = IF plan.write THEN "write" ELSE "cas"
      /\ new.loaded = row /\ new.location = plan.location
      /\ new.op = r.op /\ new.table = r.table /\ new.key = r.key
      /\ new.content = r.content /\ new.wrote = r.wrote
  <2> HIDE DEF r, row
  <2> QED BY <1>1, <1>3, <1>5 DEF Planned, Request, Phases
<1>7. req' = [req EXCEPT ![c] = new]
  BY <1>4 DEF Planned
<1>8. LoadedOK(new, tables)
  <2>1. row.version \in Nat
    BY <1>3, ServiceAssumption DEF Row
  <2> HIDE DEF new
  <2> QED BY <1>3, <1>6, <2>1 DEF LoadedOK
<1>9. PhaseOK(new, pointed, build)
  <2>1. plan.write => plan.location # NoLocation /\ plan.location # row.location
    BY <1>4 DEF ValidPlan
  <2>2. r.op \in build.operations /\ r.content \in build.contents
    BY <1>1, <1>2 DEF RequestOK, PhaseOK
  <2> HIDE DEF new, r, row
  <2> QED BY <1>2, <1>3, <1>5, <1>6, <2>1, <2>2 DEF PhaseOK
<1>10. StagedOK(new, build)
  <2> HIDE DEF new, r, row
  <2> QED BY <1>4, <1>6 DEF StagedOK, RequirementsHold
<1>11. RequestOK(new, tables, pointed, build)
  BY <1>6, <1>8, <1>9, <1>10 DEF RequestOK
<1>12. RequestsOK'
  <2> HIDE DEF new
  <2> QED BY <1>7, <1>11, OneRequest, TablesStay DEF LoadAndPlan, IInv
<1>13. minted' \subseteq Locations
  BY <1>4 DEF Fresh, IInv, StoresOK
<1> QED BY <1>12, <1>13 DEF IInv, StoresOK, LoadAndPlan

LEMMA WriteObjectStep ==
    ASSUME IInv, NEW c \in Handlers, WriteObject(c), build' = build
    PROVE  IInv'
<1> DEFINE r == req[c]
           p == IF r.op = "commit" THEN "cas" ELSE "admit"
           new == Moved(r, p, TRUE)
<1>1. /\ RequestOK(r, tables, pointed, build) /\ r \in Request
      /\ r.phase = "write"
  BY InPhase DEF WriteObject, Phases, IInv, RequestOK
<1>2. p \in Phases /\ (r.op = "commit" => p = "cas") /\ (r.op # "commit" => p = "admit")
  BY DEF Phases
<1>3. req' = [req EXCEPT ![c] = new]
  BY DEF WriteObject, Moved
<1>4. PhaseOK(new, pointed, build)
  <2>1. /\ new.phase = p /\ new.wrote = TRUE /\ new.op = r.op
        /\ new.content = r.content /\ new.loaded = r.loaded /\ new.location = r.location
    <3> HIDE DEF p, r
    <3> QED BY <1>1, <1>2, MovedFields
  <2> HIDE DEF new, p, r
  <2> QED BY <1>1, <1>2, <2>1 DEF RequestOK, PhaseOK
<1>5. RequestOK(new, tables, pointed, build)
  <2> HIDE DEF p, r
  <2> QED BY <1>1, <1>2, <1>4, MovedOK, TablesStay DEF TablesGrow
<1>6. RequestsOK'
  <2> HIDE DEF new
  <2> QED BY <1>3, <1>5, OneRequest, TablesStay DEF WriteObject, IInv
<1>7. objects' \subseteq Locations
  <2>1. r.location \in Locations
    BY <1>1, RequestFields DEF RequestOK, PhaseOK
  <2> QED BY <2>1 DEF WriteObject, IInv, StoresOK
<1> QED BY <1>6, <1>7 DEF IInv, StoresOK, WriteObject
LEMMA WriteFailsStep ==
    ASSUME IInv, NEW c \in Handlers, WriteFails(c), build' = build
    PROVE  IInv'
<1>1. RequestOK(req[c], tables, pointed, build) /\ req[c].phase = "write"
  BY InPhase DEF WriteFails, Phases, IInv
<1>2. req[c].location \in Locations
  BY <1>1, RequestFields DEF RequestOK, PhaseOK
<1>3. RequestsOK'
  BY ReturnStep, TablesStay DEF WriteFails, IInv
<1>4. objects' \subseteq Locations /\ stray' \subseteq Locations
  BY <1>2 DEF WriteFails, IInv, StoresOK
<1> QED BY <1>3, <1>4 DEF IInv, StoresOK, WriteFails

\* What a request at the compare-and-swap has.
LEMMA AtCas ==
    ASSUME IInv, NEW c \in Handlers, req[c].phase = "cas"
    PROVE  /\ RequestOK(req[c], tables, pointed, build)
           /\ req[c] \in Request /\ req[c].op = "commit"
           /\ req[c].table \in Tables /\ req[c].content \in Contents
           /\ req[c].content \in build.contents
           /\ req[c].key \in Keys \cup {NoKey}
           /\ req[c].location \in Locations \cup {NoLocation}
           /\ req[c].loaded \in Row /\ req[c].loaded # Absent
<1>1. RequestOK(req[c], tables, pointed, build)
  BY InPhase DEF Phases, IInv
<1>2. /\ req[c] \in Request /\ req[c].op = "commit" /\ req[c].loaded # Absent
      /\ req[c].content \in build.contents
  BY <1>1 DEF RequestOK, PhaseOK
<1>3. build.contents \subseteq Contents
  BY ServiceAssumption DEF IInv, StoresOK
<1> QED BY <1>1, <1>2, <1>3, RequestFields

LEMMA CasEffect ==
    ASSUME IInv, NEW c \in Handlers, Swap(req[c])
    PROVE  /\ req[c].phase = "cas"
           /\ tables[req[c].table] \in Row
           /\ tables[req[c].table] # Absent
           /\ Swapped(req[c]) \in Row
           /\ Swapped(req[c]) # tables[req[c].table]
           /\ tables' = [tables EXCEPT ![req[c].table] = Swapped(req[c])]
           /\ pointed' = pointed \cup ({req[c].location} \ {NoLocation})
           /\ pointed' \subseteq Locations
           /\ TablesGrow(tables, tables')
           /\ Swapped(req[c]).location = req[c].location
<1> DEFINE r == req[c]
           row == Swapped(r)
           old == tables[r.table]
<1>1. r.phase = "cas" /\ old # Absent /\ old.version < MaxVersion
  BY DEF Swap, StillLoaded
<1>2. r.table \in Tables /\ r.location \in Locations \cup {NoLocation}
  BY <1>1, AtCas
<1>3. old \in Row
  BY <1>1, <1>2 DEF IInv, StoresOK
<1>4. row = [version |-> old.version + 1, location |-> r.location, staged |-> FALSE]
  BY DEF Swapped
<1>5. old.version \in Nat /\ old.version + 1 \in 0..MaxVersion
  BY <1>1, <1>3, ServiceAssumption DEF Row
<1>6. row \in Row /\ row.version = old.version + 1 /\ row.location = r.location
  <2> HIDE DEF row, old
  <2> QED BY <1>2, <1>4, <1>5 DEF Row
<1>7. row # old
  BY <1>5, <1>6
<1>8. /\ tables' = [tables EXCEPT ![r.table] = row]
      /\ pointed' = pointed \cup ({r.location} \ {NoLocation})
  BY DEF Swap, Swapped
<1>9. TablesGrow(tables, tables')
  <2> HIDE DEF row
  <2> QED BY <1>2, <1>3, <1>6, <1>8 DEF TablesGrow, IInv, StoresOK
<1>10. pointed' \subseteq Locations
  BY <1>2, <1>8 DEF IInv, StoresOK
<1> QED BY <1>1, <1>3, <1>6, <1>7, <1>8, <1>9, <1>10

\* The tables after a row was put there whose location is now on record.
LEMMA TablesOKAfter ==
    ASSUME StoresOK, NEW t \in Tables, NEW row \in Row, tables' = [tables EXCEPT ![t] = row],
           pointed' = pointed \cup ({row.location} \ {NoLocation})
    PROVE  /\ tables' \in [Tables -> Row \cup {Absent}]
           /\ \A u \in Tables :
                 tables'[u] # Absent => tables'[u].location \in pointed' \cup {NoLocation}
BY DEF StoresOK

\* The store after a compare-and-swap.
LEMMA SwapStores ==
    ASSUME IInv, NEW c \in Handlers, Swap(req[c])
    PROVE  /\ tables' \in [Tables -> Row \cup {Absent}]
           /\ \A t \in Tables :
                 tables'[t] # Absent => tables'[t].location \in pointed' \cup {NoLocation}
           /\ idempotency' \in [Tables \X Keys -> ReplayRow \cup {Absent}]
           /\ Swapped(req[c]) \in Row
           /\ pointed' \subseteq Locations /\ pointed \subseteq pointed'
           /\ TablesGrow(tables, tables')
<1> DEFINE r == req[c]
           row == Swapped(r)
<1>1. /\ row \in Row /\ row.location = r.location
      /\ tables' = [tables EXCEPT ![r.table] = row]
      /\ pointed' = pointed \cup ({r.location} \ {NoLocation})
      /\ pointed' \subseteq Locations
      /\ TablesGrow(tables, tables')
  BY CasEffect
<1>2. /\ r.table \in Tables /\ r.content \in Contents /\ r.key \in Keys \cup {NoKey}
  BY AtCas DEF Swap
<1>3. /\ tables' \in [Tables -> Row \cup {Absent}]
      /\ \A t \in Tables :
            tables'[t] # Absent => tables'[t].location \in pointed' \cup {NoLocation}
  <2> HIDE DEF row, r
  <2> QED BY <1>1, <1>2, TablesOKAfter DEF IInv
<1>4. idempotency' \in [Tables \X Keys -> ReplayRow \cup {Absent}]
  <2>1. CASE r.key = NoKey
    BY <2>1 DEF Swap, IInv, StoresOK
  <2>2. CASE r.key # NoKey
    <3>1. idempotency' = [idempotency EXCEPT ![<<r.table, r.key>>] =
                            [content |-> r.content, response |-> row]]
      BY <2>2 DEF Swap
    <3>2. [content |-> r.content, response |-> row] \in ReplayRow
      BY <1>1, <1>2 DEF ReplayRow
    <3> HIDE DEF row, r
    <3> QED BY <1>2, <2>2, <3>1, <3>2 DEF IInv, StoresOK
  <2> QED BY <2>1, <2>2
<1> QED BY <1>1, <1>3, <1>4

LEMMA CasSucceedsStep ==
    ASSUME IInv, NEW c \in Handlers, CasSucceeds(c), build' = build
    PROVE  IInv'
<1> DEFINE r == req[c]
           row == Swapped(r)
<1>1. Swap(r)
  BY DEF CasSucceeds
<1>2. /\ tables' \in [Tables -> Row \cup {Absent}]
      /\ \A t \in Tables :
            tables'[t] # Absent => tables'[t].location \in pointed' \cup {NoLocation}
      /\ idempotency' \in [Tables \X Keys -> ReplayRow \cup {Absent}]
      /\ row \in Row
      /\ pointed' \subseteq Locations /\ pointed \subseteq pointed'
      /\ TablesGrow(tables, tables')
  BY <1>1, SwapStores
<1>3. /\ r.table \in Tables /\ r.content \in Contents /\ r.key \in Keys \cup {NoKey}
  BY <1>1, AtCas DEF Swap
<1>4. RequestsOK'
  BY <1>2, ReturnStep DEF CasSucceeds, IInv
<1>5. answers' \subseteq [table : Tables, key : Keys, content : Contents, response : Row]
  <2>1. CASE r.key = NoKey
    BY <2>1 DEF CasSucceeds, IInv, StoresOK
  <2>2. CASE r.key # NoKey
    <3>1. answers' = answers \cup
                {[table |-> r.table, key |-> r.key, content |-> r.content,
                  response |-> row]}
      BY <2>2 DEF CasSucceeds
    <3> HIDE DEF row, r
    <3> QED BY <1>2, <1>3, <2>2, <3>1 DEF IInv, StoresOK
  <2> QED BY <2>1, <2>2
<1> QED BY <1>2, <1>4, <1>5 DEF IInv, StoresOK, CasSucceeds

\* A request whose call of the store was refused, or took effect and was
\* answered with an error, goes on to clean up or returns.
LEMMA RefusedRequest ==
    ASSUME RequestsOK, NEW c \in Handlers, req[c].phase \in {"cas", "admit"},
           build' = build, pointed \subseteq pointed', TablesGrow(tables, tables'),
           IF req[c].wrote THEN Goto(c, "cleanup") ELSE Return(c)
    PROVE  RequestsOK'
<1>1. /\ RequestOK(req[c], tables, pointed, build) /\ req[c] \in Request
      /\ req[c].phase \in Phases
  BY InPhase DEF Phases, RequestOK
<1>2. CASE req[c].wrote
  <2>1. PhaseOK(Moved(req[c], "cleanup", req[c].wrote), pointed', build)
    BY <1>1, <1>2, MovedPhase DEF RequestOK, PhaseOK, Phases
  <2> QED BY <1>1, <1>2, <2>1, GotoStep DEF Phases
<1>3. CASE ~req[c].wrote
  BY <1>3, ReturnStep
<1> QED BY <1>2, <1>3

LEMMA MisreportStep ==
    ASSUME IInv, NEW c \in Handlers, req[c].phase \in {"cas", "admit"}, Misreport(c),
           build' = build, pointed \subseteq pointed', TablesGrow(tables, tables')
    PROVE  RequestsOK' /\ misreported' \subseteq Locations
<1>1. RequestsOK'
  BY RefusedRequest DEF Misreport, IInv
<1>2. RequestOK(req[c], tables, pointed, build)
  BY InPhase DEF Phases, IInv
<1>3. req[c].wrote => req[c].location \in Locations
  BY <1>2, RequestFields DEF RequestOK, PhaseOK
<1>4. misreported' \subseteq Locations
  BY <1>3 DEF Misreport, IInv, StoresOK
<1> QED BY <1>1, <1>4

LEMMA CasUnansweredStep ==
    ASSUME IInv, NEW c \in Handlers, CasUnanswered(c), build' = build
    PROVE  IInv'
<1>1. Swap(req[c]) /\ req[c].phase = "cas"
  BY DEF CasUnanswered, Swap
<1>2. /\ tables' \in [Tables -> Row \cup {Absent}]
      /\ \A t \in Tables :
            tables'[t] # Absent => tables'[t].location \in pointed' \cup {NoLocation}
      /\ idempotency' \in [Tables \X Keys -> ReplayRow \cup {Absent}]
      /\ pointed' \subseteq Locations /\ pointed \subseteq pointed'
      /\ TablesGrow(tables, tables')
  BY <1>1, SwapStores
<1>3. RequestsOK' /\ misreported' \subseteq Locations
  BY <1>1, <1>2, MisreportStep DEF CasUnanswered
<1> QED BY <1>2, <1>3 DEF IInv, StoresOK, CasUnanswered

\* The stored response to a keyed request.
LEMMA ReplayedType ==
    ASSUME StoresOK, NEW r, r.table \in Tables, r.key \in Keys, r.content \in Contents,
           idempotency[<<r.table, r.key>>] # Absent
    PROVE  Replayed(r) \subseteq
              [table : Tables, key : Keys, content : Contents, response : Row]
<1>1. idempotency[<<r.table, r.key>>] \in ReplayRow
  BY DEF StoresOK
<1> QED BY <1>1 DEF Replayed, ReplayRow

LEMMA CasReplaysStep ==
    ASSUME IInv, NEW c \in Handlers, CasReplays(c), build' = build
    PROVE  IInv'
<1>1. /\ req[c].table \in Tables /\ req[c].content \in Contents
      /\ req[c].key \in Keys \cup {NoKey}
      /\ req[c].location \in Locations \cup {NoLocation}
      /\ RequestOK(req[c], tables, pointed, build)
  BY AtCas DEF CasReplays
<1>2. req[c].key \in Keys /\ idempotency[<<req[c].table, req[c].key>>] # Absent
  BY <1>1 DEF CasReplays, KeyUnused
<1>3. answers' \subseteq [table : Tables, key : Keys, content : Contents, response : Row]
  BY <1>1, <1>2, ReplayedType DEF CasReplays, IInv, StoresOK
<1>4. stray' \subseteq Locations
  BY <1>1 DEF CasReplays, RequestOK, PhaseOK, IInv, StoresOK
<1>5. RequestsOK'
  BY ReturnStep, TablesStay DEF CasReplays, IInv
<1> QED BY <1>3, <1>4, <1>5 DEF IInv, StoresOK, CasReplays

LEMMA RefusedStep ==
    ASSUME IInv, NEW c \in Handlers, CasFails(c) \/ AdmitFails(c), build' = build
    PROVE  IInv'
<1>1. RequestsOK'
  BY RefusedRequest, TablesStay DEF CasFails, AdmitFails, IInv
<1> QED BY <1>1 DEF IInv, StoresOK, CasFails, AdmitFails

LEMMA CleanupStep ==
    ASSUME IInv, NEW c \in Handlers, Cleanup(c) \/ CleanupFails(c), build' = build
    PROVE  IInv'
<1>1. RequestOK(req[c], tables, pointed, build) /\ req[c].phase = "cleanup"
  BY InPhase DEF Cleanup, CleanupFails, Phases, IInv
<1>2. req[c].location \in Locations
  BY <1>1, RequestFields DEF RequestOK, PhaseOK
<1>3. RequestsOK'
  BY ReturnStep, TablesStay DEF Cleanup, CleanupFails, IInv
<1>4. objects' \subseteq Locations /\ stray' \subseteq Locations
  BY <1>2 DEF Cleanup, CleanupFails, IInv, StoresOK
<1> QED BY <1>3, <1>4 DEF IInv, StoresOK, Cleanup, CleanupFails

\* A request that tries its delete again.
Retried(r) == [r EXCEPT !.failed = r.failed + 1]

LEMMA RetriedFields ==
    ASSUME NEW r \in Request, r.failed + 1 < DeleteAttempts
    PROVE  /\ Retried(r) \in Request
           /\ Retried(r).phase = r.phase /\ Retried(r).wrote = r.wrote
           /\ Retried(r).op = r.op /\ Retried(r).table = r.table
           /\ Retried(r).key = r.key /\ Retried(r).content = r.content
           /\ Retried(r).loaded = r.loaded /\ Retried(r).location = r.location
<1>1. r.failed + 1 \in 0..DeleteAttempts - 1
  BY RequestFields, ServiceAssumption
<1> QED BY <1>1 DEF Retried, Request

LEMMA RetriedRequest ==
    ASSUME IInv, NEW c \in Handlers, DeleteRetried(c)
    PROVE  /\ RequestOK(req[c], tables, pointed, build)
           /\ req[c] \in Request /\ req[c] # Idle
           /\ req[c].phase = "cleanup" /\ req[c].failed + 1 < DeleteAttempts
           /\ req' = [req EXCEPT ![c] = Retried(req[c])]
<1>1. req[c] # Idle /\ RequestOK(req[c], tables, pointed, build)
  BY InPhase DEF DeleteRetried, Phases, IInv
<1>2. req' = [req EXCEPT ![c] = Retried(req[c])]
  BY DEF DeleteRetried, Retried
<1> QED BY <1>1, <1>2 DEF DeleteRetried, RequestOK

LEMMA DeleteRetriedStep ==
    ASSUME IInv, NEW c \in Handlers, DeleteRetried(c), build' = build
    PROVE  IInv'
<1> DEFINE r == req[c]
           new == Retried(r)
<1>1. /\ RequestOK(r, tables, pointed, build) /\ r \in Request
      /\ r.phase = "cleanup" /\ r.failed + 1 < DeleteAttempts
      /\ req' = [req EXCEPT ![c] = new]
  BY RetriedRequest
<1>2. /\ new \in Request
      /\ new.phase = r.phase /\ new.wrote = r.wrote /\ new.op = r.op
      /\ new.table = r.table /\ new.key = r.key /\ new.content = r.content
      /\ new.loaded = r.loaded /\ new.location = r.location
  <2> HIDE DEF r
  <2> QED BY <1>1, RetriedFields
<1> HIDE DEF new
<1>3. RequestOK(new, tables, pointed, build)
  BY <1>1, <1>2 DEF RequestOK, LoadedOK, PhaseOK, StagedOK
<1>4. RequestsOK'
  BY <1>1, <1>3, OneRequest, TablesStay DEF DeleteRetried, IInv
<1>5. objects' \subseteq Locations /\ misreported' \subseteq Locations
  BY ServiceAssumption DEF DeleteRetried, IInv, StoresOK
<1> QED BY <1>4, <1>5 DEF IInv, StoresOK, DeleteRetried

-----------------------------------------------------------------------------
(* The steps of a creation or registration.                                 *)

\* A new request of another kind than a commit.
LEMMA BeginStep ==
    ASSUME IInv, NEW c \in Handlers, NEW op \in {"create", "adopt", "register"},
           NEW t \in Tables, NEW phase \in Phases, NEW l \in Locations \cup {NoLocation},
           NEW stage \in BOOLEAN,
           NEW new, req' = [req EXCEPT ![c] = new],
           \/ new = New(op, t, phase, l)
           \/ new = [New(op, t, phase, l) EXCEPT !.stage = stage],
           op \in build.operations, build' = build, tables' = tables, pointed' = pointed,
           \/ op = "create" /\ phase = "write" /\ l # NoLocation
           \/ op = "adopt" /\ phase = "admit"
           \/ op = "register" /\ phase = "read"
    PROVE  RequestsOK'
<1>1. /\ new \in Request /\ new.op = op /\ new.phase = phase /\ new.location = l
      /\ new.loaded = Absent /\ new.wrote = FALSE
  <2>1. CASE new = New(op, t, phase, l)
    BY <2>1, NoAttemptFailed DEF New, Request
  <2>2. CASE new = [New(op, t, phase, l) EXCEPT !.stage = stage]
    BY <2>2, NoAttemptFailed DEF New, Request
  <2> QED BY <2>1, <2>2
<1>2. RequestOK(new, tables, pointed, build)
  BY <1>1 DEF RequestOK, LoadedOK, StagedOK, PhaseOK
<1> QED BY <1>2, OneRequest, TablesStay DEF IInv

LEMMA BeginCreateStep ==
    ASSUME IInv, NEW c \in Handlers, NEW t \in Tables, NEW stage \in BOOLEAN,
           BeginCreate(c, t, stage), build' = build
    PROVE  IInv'
<1>1. PICK l \in Fresh :
         /\ req' = [req EXCEPT ![c] = [New("create", t, "write", l) EXCEPT !.stage = stage]]
         /\ minted' = minted \cup {l}
  BY DEF BeginCreate
<1>2. l \in Locations /\ l # NoLocation
  BY ServiceAssumption DEF Fresh
<1> DEFINE new == [New("create", t, "write", l) EXCEPT !.stage = stage]
<1>3. RequestsOK'
  <2>1. "write" \in Phases /\ req' = [req EXCEPT ![c] = new]
    BY <1>1 DEF Phases
  <2>2. new = [New("create", t, "write", l) EXCEPT !.stage = stage]
    OBVIOUS
  <2> HIDE DEF new
  <2> QED BY <1>2, <2>1, <2>2, BeginStep DEF BeginCreate
<1> QED BY <1>1, <1>2, <1>3 DEF IInv, StoresOK, BeginCreate

LEMMA BeginAdoptStep ==
    ASSUME IInv, NEW c \in Handlers, NEW t \in Tables,
           NEW l \in Locations \cup {NoLocation}, NEW stage \in BOOLEAN,
           BeginAdopt(c, t, l, stage), build' = build
    PROVE  IInv'
<1>1. RequestsOK'
  BY BeginStep DEF BeginAdopt, Phases
<1> QED BY <1>1 DEF IInv, StoresOK, BeginAdopt

LEMMA BeginRegisterStep ==
    ASSUME IInv, NEW c \in Handlers, NEW t \in Tables, NEW l \in Locations,
           BeginRegister(c, t, l), build' = build
    PROVE  IInv'
<1>1. RequestsOK'
  BY BeginStep DEF BeginRegister, Phases
<1> QED BY <1>1 DEF IInv, StoresOK, BeginRegister

LEMMA ReadObjectStep ==
    ASSUME IInv, NEW c \in Handlers, ReadObject(c), build' = build
    PROVE  IInv'
<1>1. /\ RequestOK(req[c], tables, pointed, build) /\ req[c] \in Request
      /\ req[c].phase = "read"
  BY InPhase DEF ReadObject, Phases, IInv, RequestOK
<1>2. RequestsOK'
  <2>1. CASE Goto(c, "admit")
    <3>1. PhaseOK(Moved(req[c], "admit", req[c].wrote), pointed, build)
      BY <1>1, MovedPhase DEF RequestOK, PhaseOK, Phases
    <3> QED BY <1>1, <2>1, <3>1, GotoStep, TablesStay DEF ReadObject, Phases, IInv
  <2>2. CASE Return(c)
    BY <2>2, ReturnStep, TablesStay DEF ReadObject, IInv
  <2> QED BY <2>1, <2>2 DEF ReadObject
<1> QED BY <1>2 DEF IInv, StoresOK, ReadObject

\* The row that an admission writes.
FirstRow(r) == [version |-> 0, location |-> r.location, staged |-> r.stage]

LEMMA AdmitEffect ==
    ASSUME IInv, NEW c \in Handlers, CreateRow(req[c])
    PROVE  /\ RequestOK(req[c], tables, pointed, build) /\ req[c] \in Request
           /\ req[c].table \in Tables /\ tables[req[c].table] = Absent
           /\ FirstRow(req[c]) \in Row
           /\ FirstRow(req[c]).location = req[c].location
           /\ tables' = [tables EXCEPT ![req[c].table] = FirstRow(req[c])]
           /\ pointed' = pointed \cup ({req[c].location} \ {NoLocation})
           /\ pointed' \subseteq Locations
           /\ TablesGrow(tables, tables')
           /\ tables' \in [Tables -> Row \cup {Absent}]
           /\ \A t \in Tables :
                 tables'[t] # Absent => tables'[t].location \in pointed' \cup {NoLocation}
<1> DEFINE r == req[c]
           row == FirstRow(r)
<1>1. RequestOK(r, tables, pointed, build) /\ r \in Request /\ r.phase = "admit"
  BY InPhase DEF CreateRow, Phases, IInv, RequestOK
<1>2. /\ r.table \in Tables /\ r.location \in Locations \cup {NoLocation}
      /\ r.stage \in BOOLEAN
  BY <1>1, RequestFields
<1>3. row \in Row /\ row.location = r.location
  <2>1. 0 \in 0..MaxVersion
    BY ServiceAssumption
  <2> HIDE DEF r
  <2> QED BY <1>2, <2>1 DEF FirstRow, Row
<1>4. /\ tables' = [tables EXCEPT ![r.table] = row]
      /\ tables[r.table] = Absent
      /\ pointed' = pointed \cup ({r.location} \ {NoLocation})
  BY DEF CreateRow, FirstRow
<1>5. TablesGrow(tables, tables')
  <2> HIDE DEF row, r
  <2> QED BY <1>2, <1>4 DEF TablesGrow, IInv, StoresOK
<1>6. /\ tables' \in [Tables -> Row \cup {Absent}]
      /\ \A t \in Tables :
            tables'[t] # Absent => tables'[t].location \in pointed' \cup {NoLocation}
  <2> HIDE DEF row, r
  <2> QED BY <1>2, <1>3, <1>4, TablesOKAfter DEF IInv
<1>7. pointed' \subseteq Locations
  BY <1>2, <1>4 DEF IInv, StoresOK
<1> QED BY <1>1, <1>2, <1>3, <1>4, <1>5, <1>6, <1>7

LEMMA AdmitStep ==
    ASSUME IInv, NEW c \in Handlers, Admit(c) \/ AdmitUnanswered(c), build' = build
    PROVE  IInv'
<1>1. CreateRow(req[c]) /\ req[c].phase = "admit"
  BY DEF Admit, AdmitUnanswered, CreateRow
<1>2. /\ RequestOK(req[c], tables, pointed, build) /\ req[c] \in Request
      /\ pointed' = pointed \cup ({req[c].location} \ {NoLocation})
      /\ pointed' \subseteq Locations
      /\ TablesGrow(tables, tables')
      /\ tables' \in [Tables -> Row \cup {Absent}]
      /\ \A t \in Tables :
            tables'[t] # Absent => tables'[t].location \in pointed' \cup {NoLocation}
  BY <1>1, AdmitEffect
<1>3. CASE Admit(c)
  <2>1. PhaseOK(Moved(req[c], "audit", req[c].wrote), pointed', build)
    BY <1>1, <1>2, MovedPhase DEF RequestOK, PhaseOK, Phases
  <2>2. RequestsOK'
    BY <1>1, <1>2, <1>3, <2>1, GotoStep DEF Admit, Phases, IInv
  <2> QED BY <1>2, <1>3, <2>2 DEF IInv, StoresOK, Admit
<1>4. CASE AdmitUnanswered(c)
  <2>1. RequestsOK' /\ misreported' \subseteq Locations
    BY <1>1, <1>2, <1>4, MisreportStep DEF AdmitUnanswered
  <2> QED BY <1>2, <1>4, <2>1 DEF IInv, StoresOK, AdmitUnanswered
<1> QED BY <1>3, <1>4

LEMMA RecordAuditStep ==
    ASSUME IInv, NEW c \in Handlers, RecordAudit(c), build' = build
    PROVE  IInv'
<1>1. req[c].table \in Tables
  BY InPhase, RequestFields DEF RecordAudit, Phases, IInv, RequestOK
<1>2. RequestsOK'
  BY ReturnStep, TablesStay DEF RecordAudit, IInv
<1> QED BY <1>1, <1>2 DEF IInv, StoresOK, RecordAudit

LEMMA CrashStep ==
    ASSUME IInv, NEW c \in Handlers, Crash(c), build' = build
    PROVE  IInv'
<1>1. RequestOK(req[c], tables, pointed, build)
  BY Running DEF Crash, IInv
<1>2. req[c].wrote => req[c].location \in Locations
  BY <1>1, RequestFields DEF RequestOK, PhaseOK
<1>3. RequestsOK'
  BY ReturnStep, TablesStay DEF Crash, IInv
<1>4. stray' \subseteq Locations
  BY <1>2 DEF Crash, IInv, StoresOK
<1> QED BY <1>3, <1>4 DEF IInv, StoresOK, Crash

-----------------------------------------------------------------------------
LEMMA InitIInv == Init => IInv
BY DEF Init, IInv, StoresOK, RequestsOK

LEMMA StepIInv == IInv /\ [Next]_vars => IInv'
<1> SUFFICES ASSUME IInv, [Next]_vars PROVE IInv'
  OBVIOUS
<1>1. CASE UNCHANGED vars
  BY <1>1 DEF vars, IInv, StoresOK, RequestsOK
<1>2. CASE Next
  <2>1. build' = build
    BY <1>2 DEF Next
  <2>2. PICK c \in Handlers :
          \/ \E t \in Tables, key \in Keys \cup {NoKey}, content \in build.contents :
                BeginCommit(c, t, key, content)
          \/ CheckReplay(c) \/ LoadAndPlan(c) \/ LoadRefused(c)
          \/ WriteObject(c) \/ WriteFails(c)
          \/ CasSucceeds(c) \/ CasUnanswered(c) \/ CasReplays(c) \/ CasFails(c)
          \/ Cleanup(c) \/ DeleteRetried(c) \/ CleanupFails(c)
          \/ \E t \in Tables, stage \in BOOLEAN : BeginCreate(c, t, stage)
          \/ \E t \in Tables, l \in Locations \cup {NoLocation}, stage \in BOOLEAN :
                BeginAdopt(c, t, l, stage)
          \/ \E t \in Tables, l \in Locations : BeginRegister(c, t, l)
          \/ ReadObject(c) \/ RecordAudit(c)
          \/ Admit(c) \/ AdmitUnanswered(c) \/ AdmitFails(c)
          \/ Crash(c)
    BY <1>2 DEF Next
  <2>3. ASSUME LoadRefused(c) PROVE IInv'
    <3>1. RequestsOK'
      BY <2>1, <2>3, ReturnStep, TablesStay DEF LoadRefused, IInv
    <3> QED BY <2>1, <2>3, <3>1 DEF IInv, StoresOK, LoadRefused
  <2> QED
    BY <2>1, <2>2, <2>3, BeginCommitStep, CheckReplayStep, LoadAndPlanStep,
       WriteObjectStep, WriteFailsStep, CasSucceedsStep, CasUnansweredStep,
       CasReplaysStep, RefusedStep, CleanupStep, DeleteRetriedStep, BeginCreateStep, BeginAdoptStep, BeginRegisterStep, ReadObjectStep, AdmitStep,
       RecordAuditStep, CrashStep
<1> QED BY <1>1, <1>2

LEMMA Invariant == Spec => []IInv
BY InitIInv, StepIInv, PTL DEF Spec

\* The catalog store, the object store and every handler keep their types.
THEOREM TypeCorrect == Spec => []TypeOK
<1>1. IInv => TypeOK
  BY DEF IInv, StoresOK, RequestsOK, RequestOK, TypeOK
<1> QED BY <1>1, Invariant, PTL
-----------------------------------------------------------------------------
(* Lost updates.                                                            *)

\* The pointer of a table that is there moves only in a compare-and-swap.
LEMMA OnlyCasMoves ==
    ASSUME IInv, [Next]_vars, NEW t \in Tables, tables[t] # Absent,
           tables'[t] # tables[t]
    PROVE  \E c \in Handlers : Swap(req[c]) /\ req[c].table = t
<1>1. PICK c \in Handlers : Swap(req[c]) \/ CreateRow(req[c])
  BY DEF Next, vars, BeginCommit, CheckReplay, LoadAndPlan, LoadRefused, WriteObject,
         WriteFails, CasSucceeds, CasUnanswered, CasReplays, CasFails, Cleanup,
         DeleteRetried, CleanupFails, BeginCreate, BeginAdopt, BeginRegister, ReadObject,
         Admit, AdmitUnanswered, AdmitFails, RecordAudit, Crash
<1>2. ~CreateRow(req[c])
  BY DEF CreateRow, IInv, StoresOK
<1>3. req[c].table = t
  BY <1>1, <1>2, CasEffect DEF IInv, StoresOK
<1> QED BY <1>1, <1>2, <1>3

\* Over a store that compares versions, what it accepts was planned from
\* the row as it is.
LEMMA CasFromLoaded ==
    ASSUME IInv, NEW c \in Handlers, Swap(req[c]), build.checksVersion
    PROVE  req[c].loaded = tables[req[c].table]
<1>1. req[c].phase = "cas"
  BY DEF Swap
<1>2. LoadedOK(req[c], tables) /\ req[c].loaded # Absent
  BY <1>1, AtCas DEF RequestOK
<1>3. tables[req[c].table].version = req[c].loaded.version
  BY DEF Swap, StillLoaded
<1> QED BY <1>2, <1>3 DEF LoadedOK

\* commit_table_in_warehouse over a store that compares the version: a
\* pointer moves only by a commit planned from the very row it replaces, for
\* any number of requests, although row and document are read and written in
\* separate calls.
THEOREM NoUpdateIsLost == Spec => NoLostUpdate
<1> DEFINE A == \A t \in Tables :
          build.checksVersion /\ tables[t] # Absent /\ tables'[t] # tables[t] =>
             \E c \in Handlers : /\ req[c].phase = "cas" /\ req[c].table = t
                                 /\ req[c].loaded = tables[t]
<1>1. IInv /\ [Next]_vars => A
  <2> SUFFICES ASSUME IInv, [Next]_vars, NEW t \in Tables, build.checksVersion,
                      tables[t] # Absent, tables'[t] # tables[t]
               PROVE  \E c \in Handlers : /\ req[c].phase = "cas" /\ req[c].table = t
                                          /\ req[c].loaded = tables[t]
    OBVIOUS
  <2>1. PICK c \in Handlers : Swap(req[c]) /\ req[c].table = t
    BY OnlyCasMoves
  <2>2. req[c].loaded = tables[t]
    BY <2>1, CasFromLoaded
  <2> QED BY <2>1, <2>2 DEF Swap
<1>2. IInv /\ [Next]_vars => [A]_vars
  BY <1>1
<1> QED BY <1>2, Invariant, PTL DEF Spec, NoLostUpdate

\* Sail, over a store that compares versions.
SailOverVersions == build.engine = "sail" /\ build.checksVersion

\* Sail refuses assert-create for a table that is not staged, and the store
\* refuses a commit whose row has changed since: of all the commits that
\* assert a table's creation one is accepted.
THEOREM StagedTablesAreCreatedOnce == Spec /\ SailOverVersions => CreatedOnce
<1> DEFINE A == \A c \in Handlers :
          req[c] # Idle /\ req'[c] # req[c] /\ req[c].op = "commit" =>
             LET t == req[c].table
             IN  tables'[t] # tables[t] /\ req[c].content.create => tables[t].staged
<1>1. IInv /\ SailOverVersions /\ [Next]_vars => A
  <2> SUFFICES ASSUME IInv, SailOverVersions, [Next]_vars, NEW c \in Handlers,
                      req[c] # Idle, req'[c] # req[c], req[c].op = "commit",
                      tables'[req[c].table] # tables[req[c].table],
                      req[c].content.create
               PROVE  tables[req[c].table].staged
    OBVIOUS
  <2>1. PICK d \in Handlers : /\ Swap(req[d]) \/ CreateRow(req[d])
                              /\ \/ CasSucceeds(d) \/ CasUnanswered(d)
                                 \/ Admit(d) \/ AdmitUnanswered(d)
    BY DEF Next, vars, BeginCommit, CheckReplay, LoadAndPlan, LoadRefused, WriteObject,
           WriteFails, CasSucceeds, CasUnanswered, CasReplays, CasFails, Cleanup,
           DeleteRetried, CleanupFails, BeginCreate, BeginAdopt, BeginRegister,
           ReadObject, Admit, AdmitUnanswered, AdmitFails, RecordAudit, Crash
  <2>2. c = d
    BY <2>1 DEF CasSucceeds, CasUnanswered, Misreport, Admit, AdmitUnanswered, Return,
                Goto, IInv, RequestsOK
  <2>3. RequestOK(req[c], tables, pointed, build)
    BY Running DEF IInv
  <2>4. ~CreateRow(req[c])
    BY <2>3 DEF CreateRow, RequestOK, PhaseOK
  <2>5. req[c].loaded = tables[req[c].table]
    BY <2>1, <2>2, <2>4, CasFromLoaded DEF SailOverVersions
  <2>6. req[c].loaded # Absent
    BY <2>1, <2>2, <2>4, AtCas DEF Swap
  <2> QED BY <2>3, <2>5, <2>6 DEF RequestOK, StagedOK, SailOverVersions
<1>2. IInv /\ SailOverVersions /\ [Next]_vars => [A]_vars
  BY <1>1
<1>3. SailOverVersions /\ [Next]_vars => SailOverVersions'
  BY DEF SailOverVersions, Next, vars
<1> QED BY <1>2, <1>3, Invariant, PTL DEF Spec, CreatedOnce

-----------------------------------------------------------------------------
(* Answers.                                                                 *)

\* replay_table_commit and the store answer with the record of the key, and
\* a record is written once: whoever repeats a keyed request gets one answer.
LEMMA AnswersStep == IInv /\ AnswersOK /\ [Next]_vars => AnswersOK'
<1> SUFFICES ASSUME IInv, AnswersOK, [Next]_vars PROVE AnswersOK'
  OBVIOUS
<1>1. CASE UNCHANGED <<answers, idempotency>>
  BY <1>1 DEF AnswersOK
<1>2. ASSUME NEW r, r.key \in Keys, r.table \in Tables,
             idempotency[<<r.table, r.key>>] # Absent,
             answers' = answers \cup Replayed(r), idempotency' = idempotency
      PROVE  AnswersOK'
  <2>1. idempotency[<<r.table, r.key>>] \in ReplayRow
    BY <1>2 DEF IInv, StoresOK
  <2>2. ASSUME NEW a \in Replayed(r)
        PROVE  idempotency[<<a.table, a.key>>] =
                  [content |-> a.content, response |-> a.response]
    BY <2>1, <2>2 DEF Replayed, ReplayRow
  <2> QED BY <1>2, <2>2 DEF AnswersOK
<1>3. ASSUME NEW c \in Handlers, CheckReplay(c) PROVE AnswersOK'
  <2>1. RequestOK(req[c], tables, pointed, build)
    BY <1>3, InPhase DEF CheckReplay, Phases, IInv
  <2>2. req[c].key \in Keys /\ req[c].table \in Tables
    BY <1>3, <2>1, RequestFields DEF CheckReplay, RequestOK, PhaseOK
  <2> QED BY <1>1, <1>2, <1>3, <2>2 DEF CheckReplay
<1>4. ASSUME NEW c \in Handlers, CasReplays(c) PROVE AnswersOK'
  <2>1. req[c].key \in Keys /\ req[c].table \in Tables
    BY <1>4, AtCas DEF CasReplays, KeyUnused
  <2> QED BY <1>2, <1>4, <2>1 DEF CasReplays, KeyUnused
<1>5. ASSUME NEW c \in Handlers, CasSucceeds(c) \/ CasUnanswered(c) PROVE AnswersOK'
  <2> DEFINE r == req[c]
             row == Swapped(r)
  <2>1. CASE r.key = NoKey
    BY <1>1, <1>5, <2>1 DEF CasSucceeds, CasUnanswered, Swap
  <2>2. CASE r.key # NoKey
    <3>1. r.key \in Keys /\ r.table \in Tables
      BY <1>5, <2>2, AtCas DEF CasSucceeds, CasUnanswered, Swap
    <3>2. idempotency[<<r.table, r.key>>] = Absent
      BY <1>5, <2>2 DEF CasSucceeds, CasUnanswered, Swap, KeyUnused
    <3>3. /\ idempotency' = [idempotency EXCEPT ![<<r.table, r.key>>] =
                               [content |-> r.content, response |-> row]]
          /\ answers' \subseteq answers \cup
                {[table |-> r.table, key |-> r.key, content |-> r.content,
                  response |-> row]}
      BY <1>5, <2>2 DEF CasSucceeds, CasUnanswered, Swap
    <3> HIDE DEF r, row
    <3>4. ASSUME NEW a \in answers
          PROVE  idempotency'[<<a.table, a.key>>] =
                    [content |-> a.content, response |-> a.response]
      <4>1. a.table \in Tables /\ a.key \in Keys /\ a.content \in Contents
            /\ a.response \in Row
        BY DEF IInv, StoresOK
      <4>2. idempotency[<<a.table, a.key>>] =
               [content |-> a.content, response |-> a.response]
        BY DEF AnswersOK
      <4>3. [content |-> a.content, response |-> a.response] # Absent
        BY <4>1, AbsentAssumption DEF ReplayRow
      <4>4. <<a.table, a.key>> # <<r.table, r.key>>
        BY <3>2, <4>2, <4>3
      <4> QED BY <3>3, <4>1, <4>2, <4>4 DEF IInv, StoresOK
    <3>5. idempotency'[<<r.table, r.key>>] = [content |-> r.content, response |-> row]
      BY <3>1, <3>3 DEF IInv, StoresOK
    <3>6. ASSUME NEW a, a = [table |-> r.table, key |-> r.key, content |-> r.content,
                             response |-> row]
          PROVE  idempotency'[<<a.table, a.key>>] =
                    [content |-> a.content, response |-> a.response]
      BY <3>5, <3>6
    <3>7. \A a \in answers' : idempotency'[<<a.table, a.key>>] =
                                [content |-> a.content, response |-> a.response]
      BY <3>3, <3>4, <3>6
    <3> QED BY <3>7 DEF AnswersOK
  <2> QED BY <2>1, <2>2
<1> QED
  BY <1>1, <1>3, <1>4, <1>5
     DEF Next, vars, BeginCommit, LoadAndPlan, LoadRefused, WriteObject, WriteFails,
         CasFails, Cleanup, DeleteRetried, CleanupFails, BeginCreate, BeginAdopt,
         BeginRegister, ReadObject, Admit, AdmitUnanswered, CreateRow, AdmitFails,
         RecordAudit, Crash

\* However often and however concurrently a keyed request is repeated, it
\* has one answer.
THEOREM KeysHaveOneAnswer == Spec => []OneAnswerPerKey
<1>1. Init => AnswersOK
  BY DEF Init, AnswersOK
<1>2. IInv /\ AnswersOK => OneAnswerPerKey
  <2> SUFFICES ASSUME IInv, AnswersOK, NEW a \in answers, NEW b \in answers,
                      a.table = b.table, a.key = b.key
               PROVE  a = b
    BY DEF OneAnswerPerKey
  <2>1. [content |-> a.content, response |-> a.response] =
        [content |-> b.content, response |-> b.response]
    BY DEF AnswersOK
  <2>2. a.content = b.content /\ a.response = b.response
    BY <2>1
  <2>3. {a, b} \subseteq [table : Tables, key : Keys, content : Contents, response : Row]
    BY DEF IInv, StoresOK
  <2> QED BY <2>2, <2>3
<1> QED BY <1>1, <1>2, Invariant, AnswersStep, PTL DEF Spec
-----------------------------------------------------------------------------
(* Documents.                                                               *)

\* The request will put the document where it belongs, or delete it.
Keeps(r, l) == r # Idle /\ r.wrote /\ r.location = l

\* A step of handler c that puts new in its place, where the documents it
\* adds are accounted for and those of c still are.
LEMMA ExplainedStep ==
    ASSUME RequestsOK, NoUnexplainedObjects, NEW c \in Handlers, NEW new,
           req' = [req EXCEPT ![c] = new], pointed \subseteq pointed', stray \subseteq stray',
           \A l \in objects' : l \in objects \cup stray' \/ Keeps(new, l),
           \A l \in objects' :
              Keeps(req[c], l) => l \in pointed' \cup stray' \/ Keeps(new, l)
    PROVE  NoUnexplainedObjects'
<1>1. \A d \in Handlers : req'[d] = IF d = c THEN new ELSE req[d]
  BY DEF RequestsOK
<1> SUFFICES ASSUME NEW l \in objects', l \notin pointed' \cup stray'
             PROVE  \E d \in Handlers : Keeps(req'[d], l)
  BY DEF NoUnexplainedObjects, Keeps, Idle
<1>2. CASE Keeps(new, l)
  BY <1>1, <1>2
<1>3. CASE ~Keeps(new, l)
  <2>1. PICK d \in Handlers : Keeps(req[d], l)
    BY <1>3 DEF NoUnexplainedObjects, Keeps
  <2>2. d # c
    BY <1>3, <2>1
  <2> QED BY <1>1, <2>1, <2>2
<1> QED BY <1>2, <1>3

LEMMA MovedKeeps ==
    ASSUME NEW r \in Request, NEW phase \in Phases, NEW wrote \in BOOLEAN, NEW l
    PROVE  Keeps(Moved(r, phase, wrote), l) <=> wrote /\ r.location = l
BY MovedFields, IdleIsNoRequest DEF Keeps

\* The steps of one handler that leave the documents alone and keep its own.
LEMMA GotoExplained ==
    ASSUME IInv, NoUnexplainedObjects, NEW c \in Handlers, req[c].phase \in Phases,
           NEW phase \in Phases, Goto(c, phase),
           pointed \subseteq pointed', UNCHANGED <<objects, stray>>
    PROVE  NoUnexplainedObjects'
<1> DEFINE new == Moved(req[c], phase, req[c].wrote)
<1>1. req[c] \in Request /\ req[c].wrote \in BOOLEAN
  BY InPhase, RequestFields DEF IInv, RequestOK
<1>2. req' = [req EXCEPT ![c] = new]
  BY <1>1, GotoMoves DEF IInv
<1>3. \A l : Keeps(req[c], l) => Keeps(new, l)
  BY <1>1, MovedKeeps DEF Keeps
<1> HIDE DEF new
<1> QED BY <1>2, <1>3, ExplainedStep DEF IInv

\* Requests that return without a document of their own, or leave it where
\* it is known.
LEMMA ReturnExplained ==
    ASSUME IInv, NoUnexplainedObjects, NEW c \in Handlers, Return(c),
           pointed \subseteq pointed', stray \subseteq stray',
           objects' \subseteq objects \cup stray',
           \A l \in objects' : Keeps(req[c], l) => l \in pointed' \cup stray'
    PROVE  NoUnexplainedObjects'
BY ExplainedStep DEF IInv, Return

LEMMA NotKept ==
    ASSUME NEW r, ~r.wrote, NEW l
    PROVE  ~Keeps(r, l)
BY DEF Keeps

LEMMA BeginExplained ==
    ASSUME IInv, NoUnexplainedObjects, NEW c \in Handlers, NEW new, req[c] = Idle,
           req' = [req EXCEPT ![c] = new], UNCHANGED <<objects, pointed, stray>>
    PROVE  NoUnexplainedObjects'
<1>1. \A l : ~Keeps(req[c], l)
  BY DEF Keeps
<1> QED BY <1>1, ExplainedStep DEF IInv

LEMMA LoadExplained ==
    ASSUME IInv, NoUnexplainedObjects, NEW c \in Handlers, NEW new,
           req[c].phase = "load",
           req' = [req EXCEPT ![c] = new], UNCHANGED <<objects, pointed, stray>>
    PROVE  NoUnexplainedObjects'
<1>1. RequestOK(req[c], tables, pointed, build)
  BY InPhase DEF Phases, IInv
<1>2. ~req[c].wrote
  BY <1>1 DEF RequestOK, PhaseOK
<1> QED BY <1>2, NotKept, ExplainedStep DEF IInv

LEMMA WriteObjectExplained ==
    ASSUME IInv, NoUnexplainedObjects, NEW c \in Handlers, WriteObject(c)
    PROVE  NoUnexplainedObjects'
<1> DEFINE r == req[c]
           p == IF r.op = "commit" THEN "cas" ELSE "admit"
           new == Moved(r, p, TRUE)
<1>1. r \in Request /\ RequestOK(r, tables, pointed, build) /\ r.phase = "write"
  BY InPhase DEF WriteObject, Phases, IInv, RequestOK
<1>2. p \in Phases /\ ~r.wrote
  BY <1>1 DEF Phases, RequestOK, PhaseOK
<1>3. req' = [req EXCEPT ![c] = new]
  BY DEF WriteObject, Moved
<1>4. objects' = objects \cup {r.location} /\ UNCHANGED <<pointed, stray>>
  BY DEF WriteObject
<1>5. Keeps(new, r.location)
  <2> HIDE DEF p, r
  <2> QED BY <1>1, <1>2, MovedKeeps
<1>6. \A l : ~Keeps(r, l)
  BY <1>2, NotKept
<1> HIDE DEF new
<1> QED BY <1>3, <1>4, <1>5, <1>6, ExplainedStep DEF IInv

\* The steps in which a handler returns.
LEMMA EndExplained ==
    ASSUME IInv, NoUnexplainedObjects, NEW c \in Handlers,
           \/ LoadRefused(c) \/ WriteFails(c) \/ CasSucceeds(c) \/ CasReplays(c)
           \/ Cleanup(c) \/ CleanupFails(c) \/ RecordAudit(c) \/ Crash(c)
    PROVE  NoUnexplainedObjects'
<1> DEFINE r == req[c]
<1>1. r # Idle /\ RequestOK(r, tables, pointed, build)
  BY InPhase, Running
     DEF LoadRefused, WriteFails, CasSucceeds, Swap, CasReplays, Cleanup, CleanupFails,
         RecordAudit, Crash, Phases, IInv
<1>2. r \in Request /\ PhaseOK(r, pointed, build)
  BY <1>1 DEF RequestOK
<1>3. r.wrote => r.location \in Locations /\ r.location # NoLocation
  BY <1>2, RequestFields DEF PhaseOK
<1>4. CASE LoadRefused(c)
  <2>1. ~r.wrote
    BY <1>2, <1>4 DEF LoadRefused, PhaseOK
  <2> QED BY <1>4, <2>1, NotKept, ReturnExplained DEF LoadRefused
<1>5. CASE WriteFails(c)
  <2>1. ~r.wrote
    BY <1>2, <1>5 DEF WriteFails, PhaseOK
  <2> QED BY <1>5, <2>1, NotKept, ReturnExplained DEF WriteFails
<1>6. CASE CasSucceeds(c)
  <2>1. pointed' = pointed \cup ({r.location} \ {NoLocation})
    BY <1>6 DEF CasSucceeds, Swap
  <2>2. \A l : Keeps(r, l) => l \in pointed'
    BY <1>3, <2>1 DEF Keeps
  <2> QED BY <1>6, <2>1, <2>2, ReturnExplained DEF CasSucceeds
<1>7. CASE CasReplays(c)
  <2>1. \A l : Keeps(r, l) => l \in stray'
    BY <1>7 DEF CasReplays, Keeps
  <2> QED BY <1>7, <2>1, ReturnExplained DEF CasReplays
<1>8. CASE Cleanup(c)
  <2>1. r.wrote /\ (r.loaded # Absent => r.loaded.location # r.location)
    BY <1>2, <1>8 DEF Cleanup, PhaseOK
  <2>2. objects' = objects \ {r.location}
    BY <1>8, <2>1 DEF Cleanup, SkipsCleanup
  <2>3. \A l \in objects' : ~Keeps(r, l)
    BY <2>2 DEF Keeps
  <2> QED BY <1>8, <2>2, <2>3, ReturnExplained DEF Cleanup
<1>9. CASE CleanupFails(c)
  <2>1. \A l \in objects' : Keeps(r, l) => l \in stray'
    BY <1>9 DEF CleanupFails, Keeps
  <2> QED BY <1>9, <2>1, ReturnExplained DEF CleanupFails
<1>10. CASE RecordAudit(c)
  <2>1. \A l : Keeps(r, l) => l \in pointed
    BY <1>2, <1>3, <1>10 DEF RecordAudit, PhaseOK, Keeps
  <2> QED BY <1>10, <2>1, ReturnExplained DEF RecordAudit
<1>11. CASE Crash(c)
  <2>1. \A l : Keeps(r, l) => l \in pointed \cup stray'
    BY <1>2, <1>3, <1>11 DEF Crash, PhaseOK, Keeps
  <2> QED BY <1>11, <2>1, ReturnExplained DEF Crash
<1> QED BY <1>4, <1>5, <1>6, <1>7, <1>8, <1>9, <1>10, <1>11

LEMMA ExplainedNext == IInv /\ NoUnexplainedObjects /\ [Next]_vars => NoUnexplainedObjects'
<1> SUFFICES ASSUME IInv, NoUnexplainedObjects, [Next]_vars PROVE NoUnexplainedObjects'
  OBVIOUS
<1>1. CASE UNCHANGED vars
  BY <1>1 DEF vars, NoUnexplainedObjects, Idle
<1>2. ASSUME NEW c \in Handlers, NEW t \in Tables, NEW key \in Keys \cup {NoKey},
             NEW content \in build.contents, BeginCommit(c, t, key, content)
      PROVE  NoUnexplainedObjects'
  BY <1>2, BeginExplained DEF BeginCommit
<1>3. ASSUME NEW c \in Handlers, NEW t \in Tables, NEW stage \in BOOLEAN,
             BeginCreate(c, t, stage)
      PROVE  NoUnexplainedObjects'
  BY <1>3, BeginExplained DEF BeginCreate
<1>4. ASSUME NEW c \in Handlers, NEW t \in Tables, NEW l, NEW stage \in BOOLEAN,
             BeginAdopt(c, t, l, stage) \/ BeginRegister(c, t, l)
      PROVE  NoUnexplainedObjects'
  BY <1>4, BeginExplained DEF BeginAdopt, BeginRegister
<1>5. ASSUME NEW c \in Handlers, CheckReplay(c) PROVE NoUnexplainedObjects'
  <2>1. ~req[c].wrote
    BY <1>5, InPhase DEF CheckReplay, Phases, IInv, RequestOK, PhaseOK
  <2>2. CASE Return(c)
    BY <1>5, <2>1, <2>2, NotKept, ReturnExplained DEF CheckReplay
  <2>3. CASE Goto(c, "load")
    BY <1>5, <2>3, GotoExplained DEF CheckReplay, Phases
  <2> QED BY <1>5, <2>2, <2>3 DEF CheckReplay
<1>6. ASSUME NEW c \in Handlers, LoadAndPlan(c) PROVE NoUnexplainedObjects'
  <2>1. PICK plan : req' = [req EXCEPT ![c] = Planned(req[c], tables[req[c].table], plan)]
    BY <1>6 DEF LoadAndPlan, Planned
  <2> QED BY <1>6, <2>1, LoadExplained DEF LoadAndPlan
<1>7. ASSUME NEW c \in Handlers, CasFails(c) \/ AdmitFails(c) PROVE NoUnexplainedObjects'
  <2>1. CASE req[c].wrote
    BY <1>7, <2>1, GotoExplained DEF CasFails, AdmitFails, Phases
  <2>2. CASE ~req[c].wrote
    BY <1>7, <2>2, NotKept, ReturnExplained DEF CasFails, AdmitFails
  <2> QED BY <2>1, <2>2
<1>8. ASSUME NEW c \in Handlers, ReadObject(c) PROVE NoUnexplainedObjects'
  <2>1. ~req[c].wrote
    BY <1>8, InPhase DEF ReadObject, Phases, IInv, RequestOK, PhaseOK
  <2>2. CASE Return(c)
    BY <1>8, <2>1, <2>2, NotKept, ReturnExplained DEF ReadObject
  <2>3. CASE Goto(c, "admit")
    BY <1>8, <2>3, GotoExplained DEF ReadObject, Phases
  <2> QED BY <1>8, <2>2, <2>3 DEF ReadObject
<1>9. ASSUME NEW c \in Handlers, Admit(c) PROVE NoUnexplainedObjects'
  BY <1>9, GotoExplained DEF Admit, CreateRow, Phases
<1>10. ASSUME NEW c \in Handlers, CasUnanswered(c) \/ AdmitUnanswered(c)
       PROVE  NoUnexplainedObjects'
  <2>1. /\ pointed \subseteq pointed' /\ UNCHANGED <<objects, stray>>
        /\ req[c].phase \in Phases /\ Misreport(c)
    BY <1>10 DEF CasUnanswered, AdmitUnanswered, Swap, CreateRow, Phases
  <2>2. CASE req[c].wrote
    BY <2>1, <2>2, GotoExplained DEF Misreport, Phases
  <2>3. CASE ~req[c].wrote
    BY <2>1, <2>3, NotKept, ReturnExplained DEF Misreport
  <2> QED BY <2>2, <2>3
<1>11. ASSUME NEW c \in Handlers, DeleteRetried(c) PROVE NoUnexplainedObjects'
  <2>1. /\ req[c] \in Request /\ req[c].failed + 1 < DeleteAttempts
        /\ req' = [req EXCEPT ![c] = Retried(req[c])]
    BY <1>11, RetriedRequest
  <2>2. \A l : Keeps(req[c], l) => Keeps(Retried(req[c]), l)
    BY <2>1, RetriedFields, IdleIsNoRequest DEF Keeps
  <2>3. objects' \subseteq objects /\ UNCHANGED <<pointed, stray>>
    BY <1>11 DEF DeleteRetried
  <2> QED BY <2>1, <2>2, <2>3, ExplainedStep DEF IInv
<1> QED
  BY <1>1, <1>2, <1>3, <1>4, <1>5, <1>6, <1>7, <1>8, <1>9, <1>10, <1>11,
     WriteObjectExplained, EndExplained DEF Next

\* The handlers account for every document they write: it becomes the
\* document of a pointer, its request still has to decide, or it was left
\* behind by a crash, by a failing object store or by a request that the
\* store answered from its key's record.
THEOREM DocumentsAreExplained == Spec => []NoUnexplainedObjects
<1>1. Init => NoUnexplainedObjects
  BY DEF Init, NoUnexplainedObjects
<1> QED BY <1>1, Invariant, ExplainedNext, PTL DEF Spec
-----------------------------------------------------------------------------
(* Documents of pointers.                                                   *)

\* No Sail commit names a location without a document or updates to put
\* there: SailCatalogEngine would move the pointer to it unseen.
NoBareLocation ==
    build.engine = "sail" =>
       \A content \in build.contents :
          content.location # NoLocation => content.metadata \/ content.updates

\* The request has a document of its own that it may still delete.
Holds(r) == r # Idle /\ r.wrote /\ r.phase # "audit"

\* A request at the compare-and-swap that wrote nothing keeps a location
\* that has been a pointer.
Reuses(r) == r # Idle /\ r.phase = "cas" /\ ~r.wrote

\* Where locations come from: the pointers and the requests have those that
\* the server generated and those that clients may name, and of a generated
\* one that no pointer has held only one request knows.
NameInv ==
    /\ pointed \subseteq minted \cup ClientLocations
    /\ \A c \in Handlers :
          req[c] # Idle =>
             /\ req[c].location \in minted \cup ClientLocations \cup {NoLocation}
             /\ req[c].op = "commit" => req[c].content.location \in Known \cup {NoLocation}
    /\ \A c, d \in Handlers :
          /\ req[c] # Idle /\ req[d] # Idle
          /\ req[c].location = req[d].location
          /\ req[c].location \notin Known \cup {NoLocation}
          => c = d

\* But for the misreported calls, no pointer has ever held the document that
\* a request may delete, and no two requests hold the same one: PutMode::Create
\* gives it to one of them.  While its delete is tried again a document may be
\* gone already; then its location is a generated one.
OwnInv ==
    /\ pointed \subseteq objects \cup misreported
    /\ \A t \in Tables : tables[t] # Absent => tables[t].location # NoLocation
    /\ \A c \in Handlers :
          Holds(req[c]) /\ req[c].location \notin misreported =>
             /\ req[c].location \notin pointed
             /\ \/ req[c].location \in objects
                \/ req[c].phase = "cleanup" /\ req[c].location \notin ClientLocations
    /\ \A c \in Handlers : Reuses(req[c]) => req[c].location \in pointed
    /\ \A c, d \in Handlers :
          /\ Holds(req[c]) /\ Holds(req[d])
          /\ req[c].location = req[d].location
          /\ req[c].location \notin misreported
          => c = d

LEMMA NamesStep ==
    ASSUME RequestsOK, NameInv, NEW c \in Handlers, NEW new,
           req' = [req EXCEPT ![c] = new],
           pointed \subseteq pointed', minted \subseteq minted',
           \A l \in pointed' \ pointed :
              req[c] # Idle /\ l = req[c].location /\ l # NoLocation,
           new # Idle =>
              /\ \/ req[c] # Idle /\ new.location = req[c].location
                 \/ new.location \in Known \cup {NoLocation}
                 \/ new.location \in Fresh \cap minted'
              /\ new.op = "commit" => new.content.location \in Known \cup {NoLocation}
    PROVE  NameInv'
<1>1. \A d \in Handlers : req'[d] = IF d = c THEN new ELSE req[d]
  BY DEF RequestsOK
<1>2. Known \subseteq Known'
  BY DEF Known
<1>3. pointed' \subseteq minted' \cup ClientLocations
  BY DEF NameInv
<1>4. ASSUME NEW d \in Handlers, req'[d] # Idle
      PROVE  /\ req'[d].location \in minted' \cup ClientLocations \cup {NoLocation}
             /\ req'[d].op = "commit" =>
                   req'[d].content.location \in Known' \cup {NoLocation}
  <2>1. CASE d # c
    BY <1>1, <1>2, <1>4, <2>1 DEF NameInv
  <2>2. CASE d = c
    <3>1. new # Idle /\ req'[d] = new
      BY <1>1, <1>4, <2>2
    <3> QED BY <1>2, <3>1 DEF NameInv, Known
  <2> QED BY <2>1, <2>2
<1>5. ASSUME NEW d \in Handlers, d # c, new # Idle, req[d] # Idle,
             new.location = req[d].location, new.location \notin Known' \cup {NoLocation}
      PROVE  FALSE
  <2>1. new.location \notin Known \cup {NoLocation}
    BY <1>2, <1>5
  <2>2. CASE req[c] # Idle /\ new.location = req[c].location
    BY <1>5, <2>1, <2>2 DEF NameInv
  <2>3. CASE new.location \in Fresh
    BY <1>5, <2>1, <2>3 DEF NameInv, Fresh
  <2> QED BY <1>5, <2>1, <2>2, <2>3
<1>6. ASSUME NEW d \in Handlers, NEW b \in Handlers, req'[d] # Idle, req'[b] # Idle,
             req'[d].location = req'[b].location,
             req'[d].location \notin Known' \cup {NoLocation}
      PROVE  d = b
  <2>1. CASE d = c
    BY <1>1, <1>5, <1>6, <2>1
  <2>2. CASE b = c
    BY <1>1, <1>5, <1>6, <2>2
  <2>3. CASE d # c /\ b # c
    BY <1>1, <1>2, <1>6, <2>3 DEF NameInv
  <2> QED BY <2>1, <2>2, <2>3
<1> QED BY <1>3, <1>4, <1>6 DEF NameInv, Idle

\* The request ends, or goes on with what it asked for and where it writes.
GoesOn(r, new) ==
    \/ new = Idle
    \/ r # Idle /\ new.location = r.location /\ new.op = r.op /\ new.content = r.content

LEMMA GoesOnStep ==
    ASSUME IInv, NameInv, NEW c \in Handlers, NEW new, req' = [req EXCEPT ![c] = new],
           GoesOn(req[c], new), pointed \subseteq pointed', minted' = minted,
           \A l \in pointed' \ pointed :
              req[c] # Idle /\ l = req[c].location /\ l # NoLocation
    PROVE  NameInv'
<1>1. new # Idle =>
         /\ req[c] # Idle /\ new.location = req[c].location
         /\ new.op = "commit" => new.content.location \in Known \cup {NoLocation}
  BY DEF GoesOn, NameInv
<1> QED BY <1>1, NamesStep DEF IInv

LEMMA EndNames ==
    ASSUME IInv, NameInv, NEW c \in Handlers, Return(c), minted' = minted,
           pointed \subseteq pointed',
           \A l \in pointed' \ pointed :
              req[c] # Idle /\ l = req[c].location /\ l # NoLocation
    PROVE  NameInv'
BY GoesOnStep DEF Return, GoesOn

LEMMA GotoNames ==
    ASSUME IInv, NameInv, NEW c \in Handlers, req[c].phase \in Phases,
           NEW phase \in Phases, Goto(c, phase), minted' = minted,
           pointed \subseteq pointed',
           \A l \in pointed' \ pointed :
              req[c] # Idle /\ l = req[c].location /\ l # NoLocation
    PROVE  NameInv'
<1> DEFINE new == Moved(req[c], phase, req[c].wrote)
<1>1. req[c] \in Request /\ req[c] # Idle
  BY InPhase DEF IInv, RequestOK
<1>2. req' = [req EXCEPT ![c] = new]
  BY <1>1, GotoMoves DEF IInv
<1>3. GoesOn(req[c], new)
  BY <1>1, MovedPhase DEF GoesOn
<1> HIDE DEF new
<1> QED BY <1>2, <1>3, GoesOnStep

\* The steps of a request that is under way.
LEMMA UnderWayNames ==
    ASSUME IInv, NameInv, NEW c \in Handlers,
           \/ CheckReplay(c) \/ LoadRefused(c) \/ WriteObject(c) \/ WriteFails(c)
           \/ CasSucceeds(c) \/ CasUnanswered(c) \/ CasReplays(c) \/ CasFails(c)
           \/ Cleanup(c) \/ DeleteRetried(c) \/ CleanupFails(c)
           \/ ReadObject(c) \/ RecordAudit(c)
           \/ Admit(c) \/ AdmitUnanswered(c) \/ AdmitFails(c)
           \/ Crash(c)
    PROVE  NameInv'
<1> DEFINE P == /\ minted' = minted /\ pointed \subseteq pointed'
                /\ \A l \in pointed' \ pointed :
                      req[c] # Idle /\ l = req[c].location /\ l # NoLocation
<1>1. CASE \/ LoadRefused(c) \/ WriteFails(c) \/ CasReplays(c) \/ Cleanup(c)
           \/ CleanupFails(c) \/ RecordAudit(c) \/ Crash(c)
  BY <1>1, EndNames
     DEF LoadRefused, WriteFails, CasReplays, Cleanup, CleanupFails, RecordAudit, Crash
<1>2. CASE CheckReplay(c) \/ ReadObject(c) \/ CasFails(c) \/ AdmitFails(c)
  <2>1. /\ req[c].phase \in Phases /\ P
        /\ \/ Return(c) \/ Goto(c, "load") \/ Goto(c, "admit") \/ Goto(c, "cleanup")
    BY <1>2 DEF CheckReplay, ReadObject, CasFails, AdmitFails, Phases
  <2> QED BY <2>1, EndNames, GotoNames DEF Phases
<1>3. CASE CasSucceeds(c) \/ CasUnanswered(c) \/ Admit(c) \/ AdmitUnanswered(c)
  <2>1. req[c].phase \in Phases
    BY <1>3 DEF CasSucceeds, CasUnanswered, Admit, AdmitUnanswered, Swap, CreateRow,
                Phases
  <2>2. req[c] # Idle
    BY <2>1, InPhase DEF IInv
  <2>3. P
    BY <1>3, <2>2
       DEF CasSucceeds, CasUnanswered, Admit, AdmitUnanswered, Swap, CreateRow
  <2>4. Return(c) \/ Goto(c, "audit") \/ Goto(c, "cleanup")
    BY <1>3 DEF CasSucceeds, CasUnanswered, Admit, AdmitUnanswered, Misreport
  <2> QED BY <2>1, <2>3, <2>4, EndNames, GotoNames DEF Phases
<1>4. CASE WriteObject(c)
  <2> DEFINE p == IF req[c].op = "commit" THEN "cas" ELSE "admit"
             new == Moved(req[c], p, TRUE)
  <2>1. req[c] \in Request /\ req[c] # Idle /\ p \in Phases
    BY <1>4, InPhase DEF WriteObject, Phases, IInv, RequestOK
  <2>2. req' = [req EXCEPT ![c] = new] /\ P
    BY <1>4 DEF WriteObject, Moved
  <2>3. GoesOn(req[c], new)
    <3> HIDE DEF p
    <3> QED BY <2>1, MovedFields DEF GoesOn
  <2> HIDE DEF new
  <2> QED BY <2>2, <2>3, GoesOnStep
<1>5. CASE DeleteRetried(c)
  <2>1. /\ req[c] \in Request /\ req[c] # Idle /\ req[c].failed + 1 < DeleteAttempts
        /\ req' = [req EXCEPT ![c] = Retried(req[c])]
    BY <1>5, RetriedRequest
  <2>2. GoesOn(req[c], Retried(req[c]))
    BY <2>1, RetriedFields DEF GoesOn
  <2>3. P
    BY <1>5 DEF DeleteRetried
  <2> QED BY <2>1, <2>2, <2>3, GoesOnStep
<1> QED BY <1>1, <1>2, <1>3, <1>4, <1>5

\* A new request knows what its client can name, or generates its location.
LEMMA BeginNames ==
    ASSUME IInv, NameInv, NEW c \in Handlers, NEW new, req' = [req EXCEPT ![c] = new],
           new.location \in Known \cup {NoLocation} \/ new.location \in Fresh \cap minted',
           new.op = "commit" => new.content.location \in Known \cup {NoLocation},
           pointed' = pointed, minted \subseteq minted'
    PROVE  NameInv'
BY NamesStep DEF IInv

LEMMA NameNext == IInv /\ NameInv /\ [Next]_vars => NameInv'
<1> SUFFICES ASSUME IInv, NameInv, [Next]_vars PROVE NameInv'
  OBVIOUS
<1>1. CASE UNCHANGED vars
  BY <1>1 DEF vars, NameInv, Known, Idle
<1>2. ASSUME NEW c \in Handlers, NEW t \in Tables, NEW key \in Keys \cup {NoKey},
             NEW content \in build.contents, BeginCommit(c, t, key, content)
      PROVE  NameInv'
  <2> DEFINE p == IF key = NoKey THEN "load" ELSE "replay"
             new == [New("commit", t, p, NoLocation)
                       EXCEPT !.key = key, !.content = content]
  <2>1. new.location = NoLocation /\ new.content = content
    BY DEF New
  <2>2. req' = [req EXCEPT ![c] = new]
    BY <1>2 DEF BeginCommit
  <2> HIDE DEF new
  <2> QED BY <1>2, <2>1, <2>2, BeginNames DEF BeginCommit
<1>3. ASSUME NEW c \in Handlers, NEW t \in Tables, NEW stage \in BOOLEAN,
             BeginCreate(c, t, stage)
      PROVE  NameInv'
  <2>1. PICK l \in Fresh :
           /\ req' = [req EXCEPT ![c] = [New("create", t, "write", l) EXCEPT !.stage = stage]]
           /\ minted' = minted \cup {l}
    BY <1>3 DEF BeginCreate
  <2> DEFINE new == [New("create", t, "write", l) EXCEPT !.stage = stage]
  <2>2. new.location = l /\ new.op = "create" /\ req' = [req EXCEPT ![c] = new]
    BY <2>1 DEF New
  <2> HIDE DEF new
  <2> QED BY <1>3, <2>1, <2>2, BeginNames DEF BeginCreate
<1>4. ASSUME NEW c \in Handlers, NEW t \in Tables, NEW l, NEW stage \in BOOLEAN,
             BeginAdopt(c, t, l, stage)
      PROVE  NameInv'
  <2> DEFINE new == [New("adopt", t, "admit", l) EXCEPT !.stage = stage]
  <2>1. new.location = l /\ new.op = "adopt" /\ req' = [req EXCEPT ![c] = new]
    BY <1>4 DEF BeginAdopt, New
  <2> HIDE DEF new
  <2> QED BY <1>4, <2>1, BeginNames DEF BeginAdopt
<1>5. ASSUME NEW c \in Handlers, NEW t \in Tables, NEW l, BeginRegister(c, t, l)
      PROVE  NameInv'
  <2> DEFINE new == New("register", t, "read", l)
  <2>1. new.location = l /\ new.op = "register" /\ req' = [req EXCEPT ![c] = new]
    BY <1>5 DEF BeginRegister, New
  <2> HIDE DEF new
  <2> QED BY <1>5, <2>1, BeginNames DEF BeginRegister
<1>6. ASSUME NEW c \in Handlers, LoadAndPlan(c) PROVE NameInv'
  <2> DEFINE r == req[c]
             row == tables[r.table]
  <2>1. RequestOK(r, tables, pointed, build) /\ r \in Request /\ r # Idle
    BY <1>6, InPhase DEF LoadAndPlan, Phases, IInv, RequestOK
  <2>2. r.op = "commit" /\ r.content \in Contents
    BY <1>6, <2>1, ServiceAssumption DEF LoadAndPlan, RequestOK, PhaseOK, IInv, StoresOK
  <2>3. r.table \in Tables /\ row # Absent
    BY <1>6, <2>1, RequestFields DEF LoadAndPlan
  <2>4. row.location \in Known \cup {NoLocation}
    BY <2>3 DEF IInv, StoresOK, Known
  <2>5. r.content.location \in Known \cup {NoLocation}
    BY <2>1, <2>2 DEF NameInv
  <2>6. PICK plan \in Plans(r.content, row.location) :
           /\ req' = [req EXCEPT ![c].phase = IF plan.write THEN "write" ELSE "cas",
                                 ![c].loaded = row,
                                 ![c].location = plan.location]
           /\ minted' = IF plan.location \in Fresh
                        THEN minted \cup {plan.location} ELSE minted
    BY <1>6 DEF LoadAndPlan
  <2> DEFINE new == Planned(r, row, plan)
  <2>7. req' = [req EXCEPT ![c] = new]
    BY <2>6 DEF Planned
  <2>8. /\ new.location = plan.location /\ new.op = r.op /\ new.content = r.content
    <3> HIDE DEF r, row
    <3> QED BY <2>1 DEF Planned, Request
  <2>9. \/ plan.location \in Fresh
        \/ plan.location = OrElse(r.content.location, row.location)
    BY <2>6 DEF Plans, SailPlans, DeferredPlans
  <2>10. plan.location \in Known \cup {NoLocation} \/ plan.location \in Fresh \cap minted'
    BY <2>4, <2>5, <2>6, <2>9 DEF OrElse
  <2>11. pointed' = pointed /\ minted \subseteq minted'
    BY <1>6, <2>6 DEF LoadAndPlan
  <2> HIDE DEF new, r, row
  <2> QED BY <2>5, <2>7, <2>8, <2>10, <2>11, BeginNames
<1> QED
  BY <1>1, <1>2, <1>3, <1>4, <1>5, <1>6, UnderWayNames DEF Next

LEMMA Names == Spec => []NameInv
<1>1. Init => NameInv
  BY DEF Init, NameInv
<1> QED BY <1>1, Invariant, NameNext, PTL DEF Spec

\* A step of handler c that puts new in its place and touches no document
\* but its own.
LEMMA OwnStep ==
    ASSUME RequestsOK, OwnInv, NEW c \in Handlers, NEW new,
           req' = [req EXCEPT ![c] = new],
           pointed \subseteq pointed', misreported \subseteq misreported',
           pointed' \subseteq objects' \cup misreported',
           \A t \in Tables : tables'[t] # Absent => tables'[t].location # NoLocation,
           \A l : \/ l \in pointed' => l \in pointed
                  \/ l \in misreported'
                  \/ Holds(req[c]) /\ l = req[c].location,
           \A l \in objects : \/ l \in objects' \cup misreported'
                              \/ Holds(req[c]) /\ l = req[c].location,
           Holds(new) /\ new.location \notin misreported' =>
              /\ new.location \notin pointed'
              /\ \/ new.location \in objects'
                 \/ new.phase = "cleanup" /\ new.location \notin ClientLocations
              /\ \/ Holds(req[c]) /\ new.location = req[c].location
                 \/ \A d \in Handlers \ {c} :
                       Holds(req[d]) => req[d].location # new.location,
           Reuses(new) => new.location \in pointed'
    PROVE  OwnInv'
<1>1. \A d \in Handlers : req'[d] = IF d = c THEN new ELSE req[d]
  BY DEF RequestsOK
<1>2. ASSUME NEW d \in Handlers, Holds(req'[d]), req'[d].location \notin misreported'
      PROVE  /\ req'[d].location \notin pointed'
             /\ \/ req'[d].location \in objects'
                \/ req'[d].phase = "cleanup" /\ req'[d].location \notin ClientLocations
  <2>1. CASE d = c
    BY <1>1, <1>2, <2>1
  <2>2. CASE d # c
    <3>1. req'[d] = req[d] /\ Holds(req[d]) /\ req[d].location \notin misreported
      BY <1>1, <1>2, <2>2
    <3>2. ~(Holds(req[c]) /\ req[d].location = req[c].location)
      BY <2>2, <3>1 DEF OwnInv
    <3>3. /\ req[d].location \notin pointed
          /\ \/ req[d].location \in objects
             \/ req[d].phase = "cleanup" /\ req[d].location \notin ClientLocations
      BY <3>1 DEF OwnInv
    <3> QED BY <1>2, <3>1, <3>2, <3>3
  <2> QED BY <2>1, <2>2
<1>3. ASSUME NEW d \in Handlers, Reuses(req'[d])
      PROVE  req'[d].location \in pointed'
  BY <1>1, <1>3 DEF OwnInv
<1>4. ASSUME NEW d \in Handlers, d # c, Holds(new), Holds(req[d]),
             new.location \notin misreported'
      PROVE  new.location # req[d].location
  BY <1>4 DEF OwnInv
<1>5. ASSUME NEW d \in Handlers, NEW b \in Handlers, Holds(req'[d]), Holds(req'[b]),
             req'[d].location = req'[b].location, req'[d].location \notin misreported'
      PROVE  d = b
  BY <1>1, <1>4, <1>5 DEF OwnInv
<1> QED BY <1>2, <1>3, <1>5 DEF OwnInv, Holds, Reuses, Idle

\* The conditions under which all documents are the catalog's.
Owned == CatalogOwned /\ NoBareLocation

\* A step that leaves the tables, the pointers and the documents alone, and
\* in which the request gets no document.
LEMMA QuietOwnStep ==
    ASSUME RequestsOK, OwnInv, NEW c \in Handlers, NEW new,
           req' = [req EXCEPT ![c] = new],
           UNCHANGED <<tables, pointed, objects, misreported>>,
           Holds(new) => /\ Holds(req[c]) /\ new.location = req[c].location
                         /\ req[c].phase # "cleanup",
           Reuses(new) => new.location \in pointed
    PROVE  OwnInv'
<1>1. /\ pointed' = pointed /\ objects' = objects /\ tables' = tables
      /\ misreported' = misreported
      /\ pointed \subseteq objects \cup misreported
      /\ \A t \in Tables : tables[t] # Absent => tables[t].location # NoLocation
      /\ Holds(req[c]) /\ req[c].location \notin misreported /\ req[c].phase # "cleanup"
            => req[c].location \in objects \ pointed
  BY DEF OwnInv
<1> QED BY <1>1, OwnStep

LEMMA IdleHoldsNothing == ~Holds(Idle) /\ ~Reuses(Idle)
BY DEF Holds, Reuses

LEMMA MovedHolds ==
    ASSUME NEW r \in Request, NEW phase \in Phases, NEW wrote \in BOOLEAN
    PROVE  /\ Holds(Moved(r, phase, wrote)) <=> wrote /\ phase # "audit"
           /\ Reuses(Moved(r, phase, wrote)) <=> ~wrote /\ phase = "cas"
BY MovedFields, IdleIsNoRequest DEF Holds, Reuses

LEMMA ReturnOwn ==
    ASSUME IInv, OwnInv, NEW c \in Handlers, Return(c),
           UNCHANGED <<tables, pointed, objects, misreported>>
    PROVE  OwnInv'
BY QuietOwnStep, IdleHoldsNothing DEF Return, IInv

\* A move to a phase in which the request has what it had.
LEMMA GotoOwn ==
    ASSUME IInv, OwnInv, NEW c \in Handlers, req[c].phase \in Phases \ {"audit", "cleanup"},
           NEW phase \in Phases \ {"cas"}, Goto(c, phase),
           UNCHANGED <<tables, pointed, objects, misreported>>
    PROVE  OwnInv'
<1> DEFINE new == Moved(req[c], phase, req[c].wrote)
<1>1. req[c] \in Request /\ req[c].wrote \in BOOLEAN /\ req[c] # Idle
  BY InPhase, RequestFields DEF IInv, RequestOK
<1>2. req' = [req EXCEPT ![c] = new]
  BY <1>1, GotoMoves DEF IInv
<1>3. /\ Holds(new) => Holds(req[c])
      /\ ~Reuses(new)
      /\ new.location = req[c].location
  BY <1>1, MovedHolds, MovedFields DEF Holds
<1> HIDE DEF new
<1> QED BY <1>2, <1>3, QuietOwnStep DEF IInv

\* A document that is written where there is none: nobody else holds one
\* there, for the location was not generated for two requests.
LEMMA WriteObjectOwn ==
    ASSUME IInv, NameInv, OwnInv, NEW c \in Handlers, WriteObject(c)
    PROVE  OwnInv'
<1> DEFINE r == req[c]
           p == IF r.op = "commit" THEN "cas" ELSE "admit"
           new == Moved(r, p, TRUE)
<1>1. r \in Request /\ r # Idle /\ RequestOK(r, tables, pointed, build)
  BY InPhase DEF WriteObject, Phases, IInv, RequestOK
<1>2. p \in Phases /\ p # "audit"
  BY DEF Phases
<1>3. req' = [req EXCEPT ![c] = new]
  BY DEF WriteObject, Moved
<1>4. /\ objects' = objects \cup {r.location} /\ r.location \notin objects
      /\ pointed' = pointed /\ tables' = tables /\ misreported' = misreported
      /\ r.phase = "write"
  BY DEF WriteObject
<1>5. new.location = r.location /\ ~Reuses(new)
  <2> HIDE DEF p, r
  <2> QED BY <1>1, <1>2, MovedFields, MovedHolds
<1>6. /\ pointed \subseteq objects \cup misreported
      /\ \A t \in Tables : tables[t] # Absent => tables[t].location # NoLocation
  BY DEF OwnInv
<1>7. r.location # NoLocation
  BY <1>1, <1>4 DEF RequestOK, PhaseOK
<1>8. ASSUME NEW d \in Handlers \ {c}, Holds(req[d]), req[d].location = r.location,
             r.location \notin misreported
      PROVE  FALSE
  <2>1. r.location \notin pointed /\ r.location \notin ClientLocations
    BY <1>4, <1>8 DEF OwnInv
  <2> QED BY <1>1, <1>7, <1>8, <2>1 DEF NameInv, Known, Holds
<1> HIDE DEF new
<1> QED BY <1>3, <1>4, <1>5, <1>6, <1>8, OwnStep DEF IInv

\* The put that fails may leave a document behind, at a location that has
\* none.
LEMMA WriteFailsOwn ==
    ASSUME IInv, OwnInv, NEW c \in Handlers, WriteFails(c)
    PROVE  OwnInv'
<1>1. /\ objects \subseteq objects' /\ pointed' = pointed /\ tables' = tables
      /\ misreported' = misreported /\ req' = [req EXCEPT ![c] = Idle]
  BY DEF WriteFails, Return
<1>2. /\ pointed \subseteq objects \cup misreported
      /\ \A t \in Tables : tables[t] # Absent => tables[t].location # NoLocation
  BY DEF OwnInv
<1> QED BY <1>1, <1>2, IdleHoldsNothing, OwnStep DEF IInv

\* Handler c is done with its document, or is on record for deleting it.
Settled(c) ==
    /\ misreported \subseteq misreported'
    /\ \E new :
          /\ req' = [req EXCEPT ![c] = new]
          /\ Holds(new) => new.location \in misreported'
          /\ ~Reuses(new)

\* The transaction of a request: a pointer moves to its own document, or
\* stays where it was.
LEMMA PointerOwn ==
    ASSUME IInv, OwnInv, NEW c \in Handlers,
           req[c].phase \in {"cas", "admit"}, Holds(req[c]) \/ Reuses(req[c]),
           \A t \in Tables :
              tables'[t] = tables[t] \/ tables'[t].location = req[c].location,
           pointed' = pointed \cup ({req[c].location} \ {NoLocation}),
           objects' = objects, Settled(c)
    PROVE  OwnInv'
<1>0. PICK new : /\ req' = [req EXCEPT ![c] = new]
                 /\ Holds(new) => new.location \in misreported'
                 /\ ~Reuses(new)
  BY DEF Settled
<1>1. RequestOK(req[c], tables, pointed, build)
  BY InPhase DEF Phases, IInv
<1>2. req[c].location # NoLocation
  BY <1>1, ServiceAssumption DEF RequestOK, PhaseOK, Holds, OwnInv, IInv, StoresOK
<1>3. pointed' = pointed \cup {req[c].location}
  BY <1>2
<1>4. \A t \in Tables : tables'[t] # Absent => tables'[t].location # NoLocation
  BY <1>2 DEF OwnInv
<1>5. req[c].location \in objects \cup misreported
  BY DEF OwnInv
<1>6. pointed' \subseteq objects' \cup misreported'
  BY <1>3, <1>5 DEF OwnInv, Settled
<1>7. \A l : l \in pointed' =>
         l \in pointed \/ (Holds(req[c]) /\ l = req[c].location)
  BY <1>3 DEF OwnInv
<1> QED BY <1>0, <1>3, <1>4, <1>6, <1>7, OwnStep DEF IInv, Settled

\* What the request has after its call took effect and failed.
LEMMA MisreportOwn ==
    ASSUME IInv, NEW c \in Handlers, req[c].phase \in {"cas", "admit"}, Misreport(c)
    PROVE  Settled(c)
<1>1. CASE req[c].wrote
  <2> DEFINE new == Moved(req[c], "cleanup", req[c].wrote)
  <2>1. req[c] \in Request /\ req[c].wrote \in BOOLEAN /\ "cleanup" \in Phases
    BY InPhase, RequestFields DEF IInv, RequestOK, Phases
  <2>2. req' = [req EXCEPT ![c] = new]
    BY <1>1, <2>1, GotoMoves DEF Misreport, IInv
  <2>3. new.location = req[c].location /\ ~Reuses(new)
    BY <2>1, MovedPhase, MovedHolds
  <2> HIDE DEF new
  <2> QED BY <1>1, <2>2, <2>3 DEF Misreport, Settled
<1>2. CASE ~req[c].wrote
  BY <1>2, IdleHoldsNothing DEF Misreport, Return, Settled
<1> QED BY <1>1, <1>2

LEMMA CasOwn ==
    ASSUME IInv, OwnInv, NEW c \in Handlers, CasSucceeds(c) \/ CasUnanswered(c)
    PROVE  OwnInv'
<1>1. Swap(req[c]) /\ req[c].phase = "cas" /\ objects' = objects
  BY DEF CasSucceeds, CasUnanswered, Swap
<1>2. /\ Swapped(req[c]).location = req[c].location
      /\ tables' = [tables EXCEPT ![req[c].table] = Swapped(req[c])]
      /\ pointed' = pointed \cup ({req[c].location} \ {NoLocation})
  BY <1>1, CasEffect
<1>3. \A t \in Tables : tables'[t] = tables[t] \/ tables'[t].location = req[c].location
  BY <1>2 DEF IInv, StoresOK
<1>4. Holds(req[c]) \/ Reuses(req[c])
  BY <1>1, InPhase DEF Holds, Reuses, Phases, IInv
<1>5. CASE CasSucceeds(c)
  <2>1. Settled(c)
    BY <1>5, IdleHoldsNothing DEF CasSucceeds, Return, Settled
  <2> QED BY <1>1, <1>2, <1>3, <1>4, <2>1, PointerOwn
<1>6. CASE CasUnanswered(c)
  <2>1. Settled(c)
    BY <1>1, <1>6, MisreportOwn DEF CasUnanswered
  <2> QED BY <1>1, <1>2, <1>3, <1>4, <2>1, PointerOwn
<1> QED BY <1>5, <1>6

LEMMA AdmitOwn ==
    ASSUME IInv, OwnInv, Owned, NEW c \in Handlers, Admit(c) \/ AdmitUnanswered(c)
    PROVE  OwnInv'
<1>1. CreateRow(req[c]) /\ req[c].phase = "admit" /\ objects' = objects
  BY DEF Admit, AdmitUnanswered, CreateRow
<1>2. /\ RequestOK(req[c], tables, pointed, build) /\ req[c] \in Request
      /\ FirstRow(req[c]).location = req[c].location
      /\ tables' = [tables EXCEPT ![req[c].table] = FirstRow(req[c])]
      /\ pointed' = pointed \cup ({req[c].location} \ {NoLocation})
  BY <1>1, AdmitEffect
<1>3. \A t \in Tables : tables'[t] = tables[t] \/ tables'[t].location = req[c].location
  BY <1>2 DEF IInv, StoresOK
<1>4. req[c].op = "create" /\ req[c].wrote
  BY <1>1, <1>2 DEF RequestOK, PhaseOK, Owned, CatalogOwned
<1>5. Holds(req[c])
  BY <1>1, <1>2, <1>4, IdleIsNoRequest DEF Holds
<1>6. Settled(c)
  <2>1. CASE Admit(c)
    <3> DEFINE new == Moved(req[c], "audit", req[c].wrote)
    <3>1. req[c].wrote \in BOOLEAN /\ "audit" \in Phases
      BY <1>2, RequestFields DEF Phases
    <3>2. ~Holds(new) /\ ~Reuses(new)
      BY <1>2, <3>1, MovedHolds
    <3>3. req' = [req EXCEPT ![c] = new] /\ misreported' = misreported
      BY <1>2, <2>1, <3>1, GotoMoves DEF Admit, IInv
    <3> HIDE DEF new
    <3> QED BY <3>2, <3>3 DEF Settled
  <2>2. CASE AdmitUnanswered(c)
    BY <1>1, <2>2, MisreportOwn DEF AdmitUnanswered
  <2> QED BY <2>1, <2>2
<1> QED BY <1>1, <1>2, <1>3, <1>5, <1>6, PointerOwn

\* What a request deletes is its own, which no pointer holds.  When it tries
\* again, nobody can have put another document there unless clients may name
\* the location.
LEMMA CleanupOwn ==
    ASSUME IInv, OwnInv, NEW c \in Handlers,
           Cleanup(c) \/ DeleteRetried(c) \/ CleanupFails(c)
    PROVE  OwnInv'
<1> DEFINE r == req[c]
<1>1. RequestOK(r, tables, pointed, build) /\ r # Idle /\ r.phase = "cleanup"
  BY InPhase DEF Cleanup, DeleteRetried, CleanupFails, Phases, IInv
<1>2. Holds(r) /\ (r.location \notin misreported => r.location \notin pointed)
  BY <1>1 DEF RequestOK, PhaseOK, Holds, OwnInv
<1>3. /\ objects \ {r.location} \subseteq objects'
      /\ pointed' = pointed /\ tables' = tables /\ misreported \subseteq misreported'
  BY DEF Cleanup, DeleteRetried, CleanupFails
<1>4. /\ pointed \subseteq objects \cup misreported
      /\ \A t \in Tables : tables[t] # Absent => tables[t].location # NoLocation
  BY DEF OwnInv
<1>5. /\ pointed' \subseteq objects' \cup misreported'
      /\ \A l \in objects : l \in objects' \/ (Holds(r) /\ l = r.location)
  BY <1>2, <1>3, <1>4
<1>6. CASE Cleanup(c) \/ CleanupFails(c)
  <2>1. req' = [req EXCEPT ![c] = Idle]
    BY <1>6 DEF Cleanup, CleanupFails, Return
  <2> QED BY <1>3, <1>4, <1>5, <2>1, IdleHoldsNothing, OwnStep DEF IInv
<1>7. CASE DeleteRetried(c)
  <2> DEFINE new == Retried(r)
  <2>1. /\ r \in Request /\ r.failed + 1 < DeleteAttempts
        /\ req' = [req EXCEPT ![c] = new]
    BY <1>7, RetriedRequest
  <2>2. new.location = r.location /\ new.phase = "cleanup"
    BY <1>1, <2>1, RetriedFields
  <2>3. ~Reuses(new)
    BY <2>2 DEF Reuses
  <2>4. r.location \notin misreported' =>
           r.location \in objects' \/ r.location \notin ClientLocations
    <3>1. r.location \in objects \/ r.location \in misreported
          \/ r.location \notin ClientLocations
      BY <1>2 DEF OwnInv
    <3> QED BY <1>3, <1>7, <3>1 DEF DeleteRetried
  <2> HIDE DEF new
  <2> QED BY <1>2, <1>3, <1>4, <1>5, <2>1, <2>2, <2>3, <2>4, OwnStep DEF IInv
<1> QED BY <1>6, <1>7

\* A plan that writes nothing keeps the location that the table has.
LEMMA PlanKeeps ==
    ASSUME NoBareLocation, NEW content \in build.contents, content \in Contents, NEW current,
           NEW plan \in Plans(content, current), ~plan.write
    PROVE  plan.location = current
<1>1. CASE build.engine = "sail"
  <2>1. plan \in SailPlans(content, current)
    BY <1>1 DEF Plans
  <2>2. ~content.metadata /\ ~content.updates
        /\ plan.location = OrElse(content.location, current)
    BY <2>1 DEF SailPlans
  <2>3. content.location = NoLocation
    BY <1>1, <2>2 DEF NoBareLocation
  <2> QED BY <2>2, <2>3 DEF OrElse
<1>2. CASE build.engine # "sail"
  <2>1. plan \in DeferredPlans(content, current)
    BY <1>2 DEF Plans
  <2> DEFINE w == content.location # NoLocation \/ content.metadata
  <2>2. plan \in {[location |-> OrElse(content.location, current), write |-> w]}
    BY <2>1, Zenon DEF DeferredPlans
  <2>3. ~w /\ plan.location = OrElse(content.location, current)
    <3> HIDE DEF w
    <3> QED BY <2>2
  <2> QED BY <2>3 DEF OrElse
<1> QED BY <1>1, <1>2

LEMMA LoadAndPlanOwn ==
    ASSUME IInv, OwnInv, Owned, NEW c \in Handlers, LoadAndPlan(c)
    PROVE  OwnInv'
<1> DEFINE r == req[c]
           row == tables[r.table]
<1>1. RequestOK(r, tables, pointed, build) /\ r \in Request /\ r.phase = "load"
  BY InPhase DEF LoadAndPlan, Phases, IInv, RequestOK
<1>2. /\ r.op = "commit" /\ ~r.wrote /\ r.content \in build.contents
      /\ r.content \in Contents
  BY <1>1, ServiceAssumption DEF RequestOK, PhaseOK, IInv, StoresOK
<1>3. r.table \in Tables /\ row # Absent
  BY <1>1, RequestFields DEF LoadAndPlan
<1>4. row.location \in pointed
  BY <1>3 DEF IInv, StoresOK, OwnInv
<1>5. PICK plan \in Plans(r.content, row.location) :
         req' = [req EXCEPT ![c].phase = IF plan.write THEN "write" ELSE "cas",
                            ![c].loaded = row,
                            ![c].location = plan.location]
  BY DEF LoadAndPlan
<1> DEFINE new == Planned(r, row, plan)
<1>6. req' = [req EXCEPT ![c] = new]
  BY <1>5 DEF Planned
<1>7. /\ new.wrote = r.wrote /\ new.location = plan.location
      /\ new.phase = IF plan.write THEN "write" ELSE "cas"
  <2> HIDE DEF r, row
  <2> QED BY <1>1 DEF Planned, Request
<1>8. ~plan.write => plan.location \in pointed
  BY <1>2, <1>4, PlanKeeps DEF Owned
<1> HIDE DEF new
<1>9. ~Holds(new) /\ (Reuses(new) => new.location \in pointed)
  BY <1>2, <1>7, <1>8 DEF Holds, Reuses
<1> QED BY <1>6, <1>9, QuietOwnStep DEF LoadAndPlan, IInv

LEMMA BeginOwn ==
    ASSUME IInv, OwnInv, NEW c \in Handlers,
           \/ \E t \in Tables, key \in Keys \cup {NoKey}, content \in build.contents :
                 BeginCommit(c, t, key, content)
           \/ \E t \in Tables, stage \in BOOLEAN : BeginCreate(c, t, stage)
    PROVE  OwnInv'
<1>1. PICK new : /\ req' = [req EXCEPT ![c] = new]
                 /\ new.wrote = FALSE /\ new.phase # "cas"
                 /\ UNCHANGED <<tables, pointed, objects, misreported>>
  <2>1. ASSUME NEW t \in Tables, NEW key \in Keys \cup {NoKey},
               NEW content \in build.contents, BeginCommit(c, t, key, content)
        PROVE  \E new : /\ req' = [req EXCEPT ![c] = new]
                        /\ new.wrote = FALSE /\ new.phase # "cas"
                        /\ UNCHANGED <<tables, pointed, objects, misreported>>
    <3> DEFINE p == IF key = NoKey THEN "load" ELSE "replay"
               new == [New("commit", t, p, NoLocation)
                         EXCEPT !.key = key, !.content = content]
    <3>1. new.wrote = FALSE /\ new.phase # "cas"
      BY DEF New
    <3>2. req' = [req EXCEPT ![c] = new] /\ UNCHANGED <<tables, pointed, objects, misreported>>
      BY <2>1 DEF BeginCommit
    <3> HIDE DEF new
    <3> QED BY <3>1, <3>2
  <2>2. ASSUME NEW t \in Tables, NEW stage \in BOOLEAN, BeginCreate(c, t, stage)
        PROVE  \E new : /\ req' = [req EXCEPT ![c] = new]
                        /\ new.wrote = FALSE /\ new.phase # "cas"
                        /\ UNCHANGED <<tables, pointed, objects, misreported>>
    <3>1. PICK l \in Fresh :
             req' = [req EXCEPT ![c] = [New("create", t, "write", l) EXCEPT !.stage = stage]]
      BY <2>2 DEF BeginCreate
    <3> DEFINE new == [New("create", t, "write", l) EXCEPT !.stage = stage]
    <3>2. new.wrote = FALSE /\ new.phase # "cas"
      BY DEF New
    <3>3. req' = [req EXCEPT ![c] = new] /\ UNCHANGED <<tables, pointed, objects, misreported>>
      BY <2>2, <3>1 DEF BeginCreate
    <3> HIDE DEF new
    <3> QED BY <3>2, <3>3
  <2> QED BY <2>1, <2>2
<1>2. ~Holds(new) /\ ~Reuses(new)
  BY <1>1 DEF Holds, Reuses
<1> QED BY <1>1, <1>2, QuietOwnStep DEF IInv

LEMMA OwnNext ==
    IInv /\ NameInv /\ Owned /\ OwnInv /\ [Next]_vars => OwnInv' /\ Owned'
<1> SUFFICES ASSUME IInv, NameInv, Owned, OwnInv, [Next]_vars PROVE OwnInv' /\ Owned'
  OBVIOUS
<1>1. Owned'
  BY DEF Owned, CatalogOwned, NoBareLocation, Next, vars
<1>2. CASE UNCHANGED vars
  <2>1. OwnInv'
    BY <1>2 DEF vars, OwnInv, Holds, Reuses, Idle
  <2> QED BY <1>1, <2>1
<1>3. ASSUME NEW c \in Handlers, CheckReplay(c) PROVE OwnInv'
  BY <1>3, ReturnOwn, GotoOwn DEF CheckReplay, Phases
<1>4. ASSUME NEW c \in Handlers, CasFails(c) \/ AdmitFails(c) PROVE OwnInv'
  BY <1>4, ReturnOwn, GotoOwn DEF CasFails, AdmitFails, Phases
<1>5. ASSUME NEW c \in Handlers, ReadObject(c) PROVE OwnInv'
  BY <1>5, ReturnOwn, GotoOwn DEF ReadObject, Phases
<1>6. ASSUME NEW c \in Handlers,
             LoadRefused(c) \/ CasReplays(c) \/ RecordAudit(c) \/ Crash(c)
      PROVE  OwnInv'
  BY <1>6, ReturnOwn DEF LoadRefused, CasReplays, RecordAudit, Crash
<1>7. ASSUME NEW c \in Handlers, NEW t, NEW l, NEW stage
      PROVE  ~BeginAdopt(c, t, l, stage) /\ ~BeginRegister(c, t, l)
  BY DEF BeginAdopt, BeginRegister, Owned, CatalogOwned
<1> QED
  BY <1>1, <1>2, <1>3, <1>4, <1>5, <1>6, <1>7, BeginOwn, LoadAndPlanOwn, WriteObjectOwn,
     WriteFailsOwn, CasOwn, CleanupOwn, AdmitOwn DEF Next

\* In a deployment whose clients neither adopt nor register documents, nor
\* name a location without saying what to put there, every table's pointer
\* has its document, unless a COMMIT or a delete at its location took effect
\* and was answered with an error: what a losing request deletes, in however
\* many attempts, was never a pointer.
THEOREM PointersHaveDocuments == Spec /\ NoBareLocation => []PointerObjectExists
<1>1. Init => OwnInv
  BY DEF Init, OwnInv, Holds, Reuses
<1>2. IInv /\ OwnInv => PointerObjectExists
  <2> SUFFICES ASSUME IInv, OwnInv, NEW t \in Tables, tables[t] # Absent
               PROVE  tables[t].location \in objects \cup misreported
    BY DEF PointerObjectExists
  <2> QED BY DEF IInv, StoresOK, OwnInv
<1>3. ~CatalogOwned /\ [Next]_vars => ~CatalogOwned'
  BY DEF CatalogOwned, Next, vars
<1>4. ~CatalogOwned => PointerObjectExists
  BY DEF PointerObjectExists
<1> QED BY <1>1, <1>2, <1>3, <1>4, OwnNext, Invariant, Names, PTL DEF Spec, Owned
=============================================================================
