---------------------- MODULE ManagementCatalogProofs ----------------------
(***************************************************************************)
(* The management surface for any number of callers, rows and attempts:    *)
(* children have their parents, publications form a chain that nobody      *)
(* rewrites, and rows without evidence are explained.                      *)
(***************************************************************************)
EXTENDS ManagementCatalog, TLAPS, WellFoundedInduction, NaturalsInduction

-----------------------------------------------------------------------------
(* Calls *)

\* What the identity of a call says about its row.
LEMMA CallKinds ==
    ASSUME NEW call \in Calls
    PROVE  /\ call.key \in Keys
           /\ call.row # Absent
           /\ call.key[1] = "warehouse" => call.row.parent \in Projects
           /\ call.key[1] = "project" => call.row.parent \in Servers \cup {None}
           /\ call.key[1] = "storage-profile" => call.row.parent \in Prefixes
           /\ call.key[1] = "model" =>
                 /\ call.expected \in 0..MaxVersion \cup {None}
                 /\ call.row.bound \in SUBSET Policies
                 /\ \E m \in Models, v \in 1..MaxVersion : call.key = ModelKey(m, v)
<1>1. call.row # Absent
  BY AbsentAssumption
<1>2. CASE \E s \in Servers, b \in Bodies : call = UpsertServer(s, b)
  BY <1>1, <1>2 DEF UpsertServer, Row, ServerKey, Keys
<1>3. CASE \E p \in Projects, s \in Servers \cup {None}, b \in Bodies : call = UpsertProject(p, s, b)
  BY <1>1, <1>3 DEF UpsertProject, Row, ProjectKey, Keys
<1>4. CASE \E w \in Warehouses, p \in Projects, b \in Bodies : call = UpsertWarehouse(w, p, b)
  BY <1>1, <1>4 DEF UpsertWarehouse, Row, WarehouseKey, Keys
<1>5. CASE \E i \in Profiles, x \in Prefixes : call = UpsertProfile(i, x)
  BY <1>1, <1>5 DEF UpsertProfile, Row, ProfileKey, Keys
<1>6. CASE \E q \in Policies, b \in Bodies : call = UpsertPolicy(q, b)
  BY <1>1, <1>6 DEF UpsertPolicy, Row, PolicyKey, Keys
<1>7. CASE \E m \in Models, v \in 1..MaxVersion, e \in 0..MaxVersion \cup {None},
             qs \in SUBSET Policies :
              call = Publish(m, v, e, qs)
  BY <1>1, <1>7 DEF Publish, Row, ModelKey, Keys
<1> QED BY <1>2, <1>3, <1>4, <1>5, <1>6, <1>7 DEF Calls

-----------------------------------------------------------------------------
(* The current version *)

\* Less-than on the naturals, as a relation.
Less == {ss \in Nat \X Nat : ss[1] < ss[2]}

LEMMA LessIsWellFounded == IsWellFoundedOn(Less, Nat)
BY NatLessThanWellFounded, Zenon DEF OpToRel, Less

\* A set of versions has a greatest one.
LEMMA GreatestVersion ==
    ASSUME NEW N \in Nat, NEW S, S \subseteq 0..N, S # {}
    PROVE  \E v \in S : \A u \in S : u <= v
<1> DEFINE T == {n \in Nat : N - n \in S}
<1>1. PICK s \in S : TRUE
  OBVIOUS
<1>2. N - s \in Nat /\ N - (N - s) = s
  OBVIOUS
<1>3. N - s \in T
  BY <1>1, <1>2
<1>4. PICK x \in T : \A y \in T : ~(<<y, x>> \in Less)
  <2>1. T \subseteq Nat /\ T # {}
    BY <1>3
  <2> HIDE DEF T
  <2> QED BY <2>1, LessIsWellFounded, WFMin
<1>5. ASSUME NEW u \in S PROVE u <= N - x
  <2>1. N - u \in Nat /\ N - (N - u) = u
    OBVIOUS
  <2>2. N - u \in T
    BY <2>1
  <2>3. <<N - u, x>> \notin Less
    BY <1>4, <2>2
  <2>4. ~(N - u < x)
    BY <2>1, <2>3 DEF Less
  <2> QED BY <2>1, <2>4
<1> QED BY <1>5

\* select max(version): it is published unless it is 0, and no published
\* version is later.
LEMMA CurrentIsGreatest ==
    ASSUME NEW d, NEW m
    PROVE  LET published == {v \in 1..MaxVersion : d[ModelKey(m, v)] # Absent}
           IN  /\ CurrentVersion(d, m) \in published \cup {0}
               /\ \A u \in published : u <= CurrentVersion(d, m)
<1> DEFINE published == {v \in 1..MaxVersion : d[ModelKey(m, v)] # Absent}
<1>1. \E v \in published \cup {0} : \A u \in published \cup {0} : u <= v
  <2>1. MaxVersion \in Nat
    BY ManagementAssumption
  <2>2. published \cup {0} \subseteq 0..MaxVersion /\ published \cup {0} # {}
    BY <2>1
  <2> HIDE DEF published
  <2> QED BY <2>1, <2>2, GreatestVersion
<1>2. \E v \in published \cup {0} : \A u \in published : u <= v
  BY <1>1
<1> HIDE DEF published
<1>3. /\ (CHOOSE v \in published \cup {0} : \A u \in published : u <= v) \in published \cup {0}
      /\ \A u \in published :
            u <= (CHOOSE v \in published \cup {0} : \A w \in published : w <= v)
  BY <1>2, Zenon
<1> QED BY <1>3 DEF CurrentVersion, published

\* A publication that is admitted comes right after the last one.
LEMMA PublishFollows ==
    ASSUME NEW d, NEW call, NEW m \in Models, NEW v \in 1..MaxVersion,
           call.key = ModelKey(m, v), PublishAdmits(d, call)
    PROVE  /\ d[ModelKey(m, v)] = Absent
           /\ v > 1 => d[ModelKey(m, v - 1)] # Absent
           /\ \A q \in call.row.bound : d[PolicyKey(q)] # Absent
<1>1. call.key[2][1] = m /\ call.key[2][2] = v
  BY DEF ModelKey
<1>2. v = CurrentVersion(d, m) + 1 /\ \A q \in call.row.bound : d[PolicyKey(q)] # Absent
  BY <1>1 DEF PublishAdmits
<1> DEFINE published == {u \in 1..MaxVersion : d[ModelKey(m, u)] # Absent}
<1>3. CurrentVersion(d, m) \in published \cup {0} /\ \A u \in published : u <= CurrentVersion(d, m)
  BY CurrentIsGreatest
<1>4. v \notin published
  BY <1>2, <1>3
<1>5. v > 1 => v - 1 \in published
  BY <1>2, <1>3
<1> QED BY <1>2, <1>4, <1>5

-----------------------------------------------------------------------------
(* The inductive invariant: what a transaction has read still holds *)

BodyTx(x) ==
    \E call \in Calls : \E s, o, n :
        x = [phase |-> "body", call |-> call, snapshot |-> s, overwritten |-> o, attempt |-> n]

StoredTx(x) == \E k, r : x = [phase |-> "stored", key |-> k, row |-> r]

\* A caller is idle, in a transaction, or about to record its event.
Shape(x) == x = Idle \/ BodyTx(x) \/ StoredTx(x)

\* The rows of a snapshot are there for good, and current unless overwritten.
Holds(s, o, d) ==
    \A k \in Keys : /\ s[k] # Absent => d[k] # Absent
                    /\ k \notin o => s[k] = d[k]

Follows(x, d) == x.phase = "body" => Holds(x.snapshot, x.overwritten, d)

\* Every row was written by some call.
FromCalls(d) ==
    \A k \in Keys : d[k] # Absent => \E call \in Calls : call.key = k /\ call.row = d[k]

IInv ==
    /\ db = [k \in Keys |-> db[k]]
    /\ tx = [c \in Callers |-> tx[c]]
    /\ FromCalls(db)
    /\ \A c \in Callers : Shape(tx[c]) /\ Follows(tx[c], db)

LEMMA IdleShape == \A d : Shape(Idle) /\ Follows(Idle, d)
BY DEF Shape, Follows, Idle

LEMMA BodyShape ==
    ASSUME NEW call \in Calls, NEW s, NEW o, NEW n, NEW d, Holds(s, o, d)
    PROVE  LET x == [phase |-> "body", call |-> call, snapshot |-> s,
                     overwritten |-> o, attempt |-> n]
           IN  Shape(x) /\ Follows(x, d)
<1> DEFINE x == [phase |-> "body", call |-> call, snapshot |-> s,
                 overwritten |-> o, attempt |-> n]
<1>1. BodyTx(x)
  BY Zenon DEF BodyTx
<1>2. Follows(x, d)
  BY DEF Follows
<1> QED BY <1>1, <1>2 DEF Shape

LEMMA StoredShape ==
    ASSUME NEW k, NEW r, NEW d
    PROVE  LET x == [phase |-> "stored", key |-> k, row |-> r]
           IN  Shape(x) /\ Follows(x, d)
<1> DEFINE x == [phase |-> "stored", key |-> k, row |-> r]
<1>1. StoredTx(x)
  BY Zenon DEF StoredTx
<1>2. Follows(x, d)
  BY DEF Follows
<1> QED BY <1>1, <1>2 DEF Shape

\* A caller in its transaction has the record of one.
LEMMA InBody ==
    ASSUME NEW x, NEW d, Shape(x), Follows(x, d), x.phase = "body"
    PROVE  \E call \in Calls : \E s, o, n :
              /\ x = [phase |-> "body", call |-> call, snapshot |-> s, overwritten |-> o, attempt |-> n]
              /\ Holds(s, o, d)
<1>1. BodyTx(x)
  BY DEF Shape, Idle, StoredTx
<1>2. PICK call \in Calls : \E s, o, n :
         x = [phase |-> "body", call |-> call, snapshot |-> s, overwritten |-> o, attempt |-> n]
  BY <1>1 DEF BodyTx
<1>3. PICK s, o, n :
         x = [phase |-> "body", call |-> call, snapshot |-> s, overwritten |-> o, attempt |-> n]
  BY <1>2
<1>4. Holds(s, o, d)
  BY <1>3 DEF Follows
<1> QED BY <1>3, <1>4, Zenon

LEMMA InitIInv == Init => IInv
BY IdleShape DEF Init, IInv, FromCalls

\* A step that changes one caller and no row.
LEMMA OneCallerStep ==
    ASSUME IInv, NEW c \in Callers, NEW new, db' = db, tx' = [tx EXCEPT ![c] = new],
           Shape(new), Follows(new, db)
    PROVE  IInv'
<1>1. \A d \in Callers : tx'[d] = IF d = c THEN new ELSE tx[d]
  BY DEF IInv
<1>2. tx' = [d \in Callers |-> tx'[d]]
  BY DEF IInv
<1>3. ASSUME NEW d \in Callers PROVE Shape(tx'[d]) /\ Follows(tx'[d], db')
  BY <1>1 DEF IInv
<1>4. db' = [k \in Keys |-> db'[k]] /\ FromCalls(db')
  BY DEF IInv
<1> QED BY <1>2, <1>3, <1>4 DEF IInv

LEMMA BeginStep == ASSUME IInv, NEW c \in Callers, Begin(c) PROVE IInv'
<1>1. PICK call \in Calls : tx' = [tx EXCEPT ![c] = Transaction(call, 1)]
  BY DEF Begin
<1>2. Holds(db, {}, db)
  BY DEF Holds
<1> QED BY <1>1, <1>2, BodyShape, OneCallerStep DEF Begin, Transaction

LEMMA ToIdleStep ==
    ASSUME IInv, NEW c \in Callers, db' = db, tx' = [tx EXCEPT ![c] = Idle]
    PROVE  IInv'
BY IdleShape, OneCallerStep

LEMMA RetryStep == ASSUME IInv, NEW c \in Callers, Retry(c) PROVE IInv'
<1>1. PICK call, s, o, n :
         /\ call \in Calls
         /\ tx[c] = [phase |-> "body", call |-> call, snapshot |-> s, overwritten |-> o, attempt |-> n]
  BY InBody DEF Retry, IInv
<1>2. Holds(db, {}, db)
  BY DEF Holds
<1>3. CASE tx[c].attempt < MaxAttempts
  <2>1. tx[c].call = call
    BY <1>1
  <2>2. tx' = [tx EXCEPT ![c] = Transaction(call, tx[c].attempt + 1)]
    BY <1>3, <2>1 DEF Retry
  <2>3. /\ Shape(Transaction(call, tx[c].attempt + 1))
        /\ Follows(Transaction(call, tx[c].attempt + 1), db)
    BY <1>1, <1>2, BodyShape, Zenon DEF Transaction
  <2> QED BY <2>2, <2>3, OneCallerStep DEF Retry
<1>4. CASE ~(tx[c].attempt < MaxAttempts)
  BY <1>4, ToIdleStep DEF Retry, IInv
<1> QED BY <1>3, <1>4

\* A transaction goes on following the database when a row is written.
LEMMA OverwriteFollows ==
    ASSUME IInv, NEW k \in Keys, NEW row, row # Absent, NEW x, Shape(x), Follows(x, db)
    PROVE  LET y == IF x.phase = "body" THEN [x EXCEPT !.overwritten = @ \cup {k}] ELSE x
           IN  Shape(y) /\ Follows(y, [db EXCEPT ![k] = row])
<1> DEFINE y == IF x.phase = "body" THEN [x EXCEPT !.overwritten = @ \cup {k}] ELSE x
           new == [db EXCEPT ![k] = row]
<1>1. CASE x.phase = "body"
  <2>1. PICK call, s, o, n :
           /\ call \in Calls
           /\ x = [phase |-> "body", call |-> call, snapshot |-> s, overwritten |-> o, attempt |-> n]
           /\ Holds(s, o, db)
    BY <1>1, InBody
  <2>2. y = [phase |-> "body", call |-> call, snapshot |-> s,
             overwritten |-> o \cup {k}, attempt |-> n]
    BY <1>1, <2>1
  <2>3. \A j \in Keys : new[j] = IF j = k THEN row ELSE db[j]
    BY DEF IInv
  <2>4. Holds(s, o \cup {k}, new)
    <3> HIDE DEF new
    <3> QED BY <2>1, <2>3 DEF Holds
  <2> HIDE DEF new, y
  <2> QED BY <2>1, <2>2, <2>4, BodyShape DEF y, new
<1>2. CASE x.phase # "body"
  BY <1>2 DEF Follows
<1> QED BY <1>1, <1>2

\* What the transaction that commits leaves in place.
Committed(call) ==
    IF InTransaction(call) THEN Idle
    ELSE [phase |-> "stored", key |-> call.key, row |-> call.row]

\* What a COMMIT does to the database and to the callers.
LEMMA CommitFacts ==
    ASSUME IInv, NEW c \in Callers, Commit(c)
    PROVE  \E call \in Calls : \E s, o :
              /\ tx[c].phase = "body"
              /\ Holds(s, o, db) /\ Admits(s, call) /\ call.key \notin o
              /\ call.key \in Keys /\ call.row # Absent
              /\ db' = [k \in Keys |-> IF k = call.key THEN call.row ELSE db[k]]
              /\ outbox' = IF InTransaction(call) THEN outbox \cup {<<call.key, call.row>>}
                           ELSE outbox
              /\ \A d \in Callers :
                    tx'[d] = IF d = c THEN Committed(call)
                             ELSE IF tx[d].phase = "body"
                             THEN [tx[d] EXCEPT !.overwritten = @ \cup {call.key}] ELSE tx[d]
              /\ tx' = [d \in Callers |-> tx'[d]]
<1>1. PICK call, s, o, n :
         /\ call \in Calls
         /\ tx[c] = [phase |-> "body", call |-> call, snapshot |-> s,
                     overwritten |-> o, attempt |-> n]
         /\ Holds(s, o, db)
  BY InBody DEF Commit, IInv
<1>2. tx[c].call = call /\ tx[c].snapshot = s /\ tx[c].overwritten = o
  BY <1>1
<1>3. call.key \in Keys /\ call.row # Absent
  BY <1>1, CallKinds
<1>4. /\ Admits(s, call) /\ call.key \notin o
      /\ db' = [db EXCEPT ![call.key] = call.row]
      /\ outbox' = IF InTransaction(call) THEN outbox \cup {<<call.key, call.row>>} ELSE outbox
  BY <1>2 DEF Commit, Unconflicted
<1>5. tx' = [Overwrite(Callers \ {c}, call.key) EXCEPT ![c] = Committed(call)]
  BY <1>2 DEF Commit, Committed
<1>6. /\ tx' = [d \in Callers |-> tx'[d]]
      /\ \A d \in Callers :
            tx'[d] = IF d = c THEN Committed(call)
                     ELSE IF tx[d].phase = "body"
                     THEN [tx[d] EXCEPT !.overwritten = @ \cup {call.key}] ELSE tx[d]
  <2> HIDE DEF Committed
  <2> QED BY <1>5 DEF Overwrite
<1>7. db' = [k \in Keys |-> IF k = call.key THEN call.row ELSE db[k]]
  BY <1>3, <1>4 DEF IInv
<1>8. tx[c].phase = "body"
  BY <1>1
<1> QED BY <1>1, <1>3, <1>4, <1>6, <1>7, <1>8, Zenon

LEMMA CommitStep == ASSUME IInv, NEW c \in Callers, Commit(c) PROVE IInv'
<1>1. PICK call \in Calls :
         /\ call.key \in Keys /\ call.row # Absent
         /\ db' = [k \in Keys |-> IF k = call.key THEN call.row ELSE db[k]]
         /\ \A d \in Callers :
               tx'[d] = IF d = c THEN Committed(call)
                        ELSE IF tx[d].phase = "body"
                        THEN [tx[d] EXCEPT !.overwritten = @ \cup {call.key}] ELSE tx[d]
         /\ tx' = [d \in Callers |-> tx'[d]]
  BY CommitFacts, Zenon
<1>2. db' = [db EXCEPT ![call.key] = call.row]
  BY <1>1 DEF IInv
<1>3. FromCalls(db')
  BY <1>1 DEF FromCalls, IInv
<1>4. ASSUME NEW d \in Callers PROVE Shape(tx'[d]) /\ Follows(tx'[d], db')
  <2>1. CASE d = c
    BY <1>1, <2>1, IdleShape, StoredShape DEF Committed
  <2>2. CASE d # c
    <3>1. Shape(tx[d]) /\ Follows(tx[d], db)
      BY DEF IInv
    <3>2. tx'[d] = IF tx[d].phase = "body"
                   THEN [tx[d] EXCEPT !.overwritten = @ \cup {call.key}] ELSE tx[d]
      BY <1>1, <2>2
    <3> QED BY <1>1, <1>2, <3>1, <3>2, OverwriteFollows
  <2> QED BY <2>1, <2>2
<1>5. db' = [k \in Keys |-> db'[k]]
  BY <1>1
<1> QED BY <1>1, <1>3, <1>4, <1>5 DEF IInv

LEMMA NextIInv == IInv /\ [Next]_vars => IInv'
<1> SUFFICES ASSUME IInv, [Next]_vars PROVE IInv'
  OBVIOUS
<1>1. CASE UNCHANGED vars
  BY <1>1 DEF vars, IInv
<1>2. ASSUME NEW c \in Callers, Refuse(c) \/ RecordAuditEvent(c) \/ LoseEvent(c) PROVE IInv'
  BY <1>2, ToIdleStep DEF Refuse, RecordAuditEvent, LoseEvent
<1> QED BY <1>1, <1>2, BeginStep, RetryStep, CommitStep DEF Next

LEMMA AlwaysIInv == Spec => []IInv
BY InitIInv, NextIInv, PTL DEF Spec

-----------------------------------------------------------------------------
(* The hierarchy *)

LEMMA CommitHierarchy ==
    ASSUME IInv, HierarchyComplete, NEW c \in Callers, Commit(c)
    PROVE  HierarchyComplete'
<1>1. PICK call, s, o :
         /\ call \in Calls
         /\ Holds(s, o, db) /\ Admits(s, call)
         /\ call.key \in Keys /\ call.row # Absent
         /\ db' = [k \in Keys |-> IF k = call.key THEN call.row ELSE db[k]]
  BY CommitFacts, Zenon
<1>2. \A k \in Keys : db[k] # Absent => db'[k] # Absent
  BY <1>1
<1>3. ASSUME NEW w \in Warehouses, db'[WarehouseKey(w)] # Absent
      PROVE  db'[ProjectKey(db'[WarehouseKey(w)].parent)] # Absent
  <2>1. WarehouseKey(w) \in Keys
    BY DEF Keys
  <2>2. CASE call.key = WarehouseKey(w)
    <3>1. call.key[1] = "warehouse" /\ call.row.parent \in Projects
      BY <1>1, <2>2, CallKinds DEF WarehouseKey
    <3>2. s[ProjectKey(call.row.parent)] # Absent
      BY <1>1, <3>1 DEF Admits, WarehouseAdmits
    <3>3. ProjectKey(call.row.parent) \in Keys
      BY <3>1 DEF Keys
    <3>4. db'[WarehouseKey(w)] = call.row
      BY <1>1, <2>1, <2>2
    <3> QED BY <1>1, <1>2, <3>2, <3>3, <3>4 DEF Holds
  <2>3. CASE call.key # WarehouseKey(w)
    <3>1. db'[WarehouseKey(w)] = db[WarehouseKey(w)]
      BY <1>1, <2>1, <2>3
    <3>2. PICK by \in Calls : by.key = WarehouseKey(w) /\ by.row = db[WarehouseKey(w)]
      BY <1>3, <2>1, <3>1 DEF IInv, FromCalls
    <3>3. db[WarehouseKey(w)].parent \in Projects
      BY <3>2, CallKinds DEF WarehouseKey
    <3>4. ProjectKey(db[WarehouseKey(w)].parent) \in Keys
      BY <3>3 DEF Keys
    <3> QED BY <1>2, <1>3, <3>1, <3>4 DEF HierarchyComplete
  <2> QED BY <2>2, <2>3
<1>4. ASSUME NEW p \in Projects, db'[ProjectKey(p)] # Absent, db'[ProjectKey(p)].parent # None
      PROVE  db'[ServerKey(db'[ProjectKey(p)].parent)] # Absent
  <2>1. ProjectKey(p) \in Keys
    BY DEF Keys
  <2>2. CASE call.key = ProjectKey(p)
    <3>1. db'[ProjectKey(p)] = call.row
      BY <1>1, <2>1, <2>2
    <3>2. call.key[1] = "project" /\ call.row.parent \in Servers
      BY <1>1, <1>4, <2>2, <3>1, CallKinds DEF ProjectKey
    <3>3. s[ServerKey(call.row.parent)] # Absent
      BY <1>1, <1>4, <3>1, <3>2 DEF Admits, ProjectAdmits
    <3>4. ServerKey(call.row.parent) \in Keys
      BY <3>2 DEF Keys
    <3> QED BY <1>1, <1>2, <3>1, <3>3, <3>4 DEF Holds
  <2>3. CASE call.key # ProjectKey(p)
    <3>1. db'[ProjectKey(p)] = db[ProjectKey(p)]
      BY <1>1, <2>1, <2>3
    <3>2. PICK by \in Calls : by.key = ProjectKey(p) /\ by.row = db[ProjectKey(p)]
      BY <1>4, <2>1, <3>1 DEF IInv, FromCalls
    <3>3. db[ProjectKey(p)].parent \in Servers
      BY <1>4, <3>1, <3>2, CallKinds DEF ProjectKey
    <3>4. ServerKey(db[ProjectKey(p)].parent) \in Keys
      BY <3>3 DEF Keys
    <3> QED BY <1>2, <1>4, <3>1, <3>4 DEF HierarchyComplete
  <2> QED BY <2>2, <2>3
<1> QED BY <1>3, <1>4 DEF HierarchyComplete

\* Only a COMMIT changes rows; the other steps leave the database alone.
LEMMA OtherSteps ==
    ASSUME [Next]_vars
    PROVE  db' = db \/ \E c \in Callers : Commit(c)
BY DEF Next, vars, Begin, Refuse, Retry, RecordAuditEvent, LoseEvent

\* Every warehouse has its project and every project that names a server has
\* it (upsert_project, upsert_warehouse), for any number of racing callers:
\* rows are never removed, so a parent in the snapshot is still there.
THEOREM ChildrenHaveParents == Spec => []HierarchyComplete
<1>1. Init => HierarchyComplete
  BY DEF Init, HierarchyComplete, Keys
<1>2. IInv /\ HierarchyComplete /\ [Next]_vars => HierarchyComplete'
  <2> SUFFICES ASSUME IInv, HierarchyComplete, [Next]_vars PROVE HierarchyComplete'
    OBVIOUS
  <2>1. CASE db' = db
    BY <2>1 DEF HierarchyComplete
  <2> QED BY <2>1, OtherSteps, CommitHierarchy
<1> QED BY <1>1, <1>2, AlwaysIInv, PTL DEF Spec

-----------------------------------------------------------------------------
(* Publications *)

\* A COMMIT of a publication writes a version nobody has published, right
\* after the last one.
LEMMA CommitPublishes ==
    ASSUME IInv, NEW call \in Calls, NEW s, NEW o, NEW m \in Models, NEW v \in 1..MaxVersion,
           Holds(s, o, db), Admits(s, call), call.key \notin o, call.key = ModelKey(m, v)
    PROVE  /\ db[ModelKey(m, v)] = Absent
           /\ v > 1 => db[ModelKey(m, v - 1)] # Absent
           /\ \A q \in call.row.bound : q \in Policies /\ db[PolicyKey(q)] # Absent
<1>1. call.key[1] = "model"
  BY DEF ModelKey
<1>2. PublishAdmits(s, call)
  BY <1>1 DEF Admits
<1>3. /\ s[ModelKey(m, v)] = Absent
      /\ v > 1 => s[ModelKey(m, v - 1)] # Absent
      /\ \A q \in call.row.bound : s[PolicyKey(q)] # Absent
  BY <1>2, PublishFollows
<1>4. call.row.bound \in SUBSET Policies
  BY <1>1, CallKinds
<1>5. ModelKey(m, v) \in Keys /\ \A q \in Policies : PolicyKey(q) \in Keys
  BY DEF Keys
<1>6. db[ModelKey(m, v)] = Absent
  BY <1>3, <1>5 DEF Holds
<1>7. ASSUME v > 1 PROVE db[ModelKey(m, v - 1)] # Absent
  <2>1. v - 1 \in 1..MaxVersion
    BY <1>7, ManagementAssumption
  <2>2. ModelKey(m, v - 1) \in Keys
    BY <2>1 DEF Keys
  <2> QED BY <1>3, <1>7, <2>2 DEF Holds
<1> QED BY <1>3, <1>4, <1>5, <1>6, <1>7 DEF Holds

LEMMA CommitIsFinal ==
    ASSUME IInv, NEW c \in Callers, Commit(c), NEW m \in Models, NEW v \in 1..MaxVersion,
           db[ModelKey(m, v)] # Absent
    PROVE  db'[ModelKey(m, v)] = db[ModelKey(m, v)]
<1>1. PICK call, s, o :
         /\ call \in Calls
         /\ Holds(s, o, db) /\ Admits(s, call) /\ call.key \notin o
         /\ db' = [k \in Keys |-> IF k = call.key THEN call.row ELSE db[k]]
  BY CommitFacts, Zenon
<1>2. call.key # ModelKey(m, v)
  BY <1>1, CommitPublishes
<1>3. ModelKey(m, v) \in Keys
  BY DEF Keys
<1> QED BY <1>1, <1>2, <1>3

\* A publication is never overwritten (publish_model), however publishers
\* race: a row that was published since the snapshot is a conflict, and one
\* that was published before it makes the expected version wrong.
THEOREM PublicationsStay == Spec => PublicationsAreFinal
<1>1. IInv /\ [Next]_vars =>
         [\A m \in Models, v \in 1..MaxVersion :
            db[ModelKey(m, v)] # Absent => db'[ModelKey(m, v)] = db[ModelKey(m, v)]]_vars
  <2> SUFFICES ASSUME IInv, [Next]_vars, NEW m \in Models, NEW v \in 1..MaxVersion,
                      db[ModelKey(m, v)] # Absent
               PROVE  db'[ModelKey(m, v)] = db[ModelKey(m, v)]
    OBVIOUS
  <2> QED BY OtherSteps, CommitIsFinal
<1> QED BY <1>1, AlwaysIInv, PTL DEF Spec, PublicationsAreFinal

\* The event of every publication commits with its row, and events stay.
LEMMA OutboxGrows == ASSUME [Next]_vars PROVE outbox \subseteq outbox'
BY DEF Next, vars, Begin, Refuse, Commit, Retry, RecordAuditEvent, LoseEvent

LEMMA CommitExtendsChain ==
    ASSUME IInv, PublicationsAreAChain, NEW c \in Callers, Commit(c), outbox \subseteq outbox'
    PROVE  PublicationsAreAChain'
<1>1. PICK call, s, o :
         /\ call \in Calls
         /\ Holds(s, o, db) /\ Admits(s, call) /\ call.key \notin o
         /\ call.key \in Keys /\ call.row # Absent
         /\ db' = [k \in Keys |-> IF k = call.key THEN call.row ELSE db[k]]
         /\ outbox' = IF InTransaction(call) THEN outbox \cup {<<call.key, call.row>>} ELSE outbox
  BY CommitFacts, Zenon
<1>2. \A k \in Keys : db[k] # Absent => db'[k] # Absent
  BY <1>1
<1>3. ASSUME NEW m \in Models, NEW v \in 1..MaxVersion, db'[ModelKey(m, v)] # Absent
      PROVE  /\ v > 1 => db'[ModelKey(m, v - 1)] # Absent
             /\ \A q \in db'[ModelKey(m, v)].bound : db'[PolicyKey(q)] # Absent
             /\ <<ModelKey(m, v), db'[ModelKey(m, v)]>> \in outbox'
  <2>1. ModelKey(m, v) \in Keys /\ \A q \in Policies : PolicyKey(q) \in Keys
    BY DEF Keys
  <2>2. v > 1 => ModelKey(m, v - 1) \in Keys
    <3>1. v > 1 => v - 1 \in 1..MaxVersion
      BY ManagementAssumption
    <3> QED BY <3>1 DEF Keys
  <2>3. CASE call.key = ModelKey(m, v)
    <3>1. /\ v > 1 => db[ModelKey(m, v - 1)] # Absent
          /\ \A q \in call.row.bound : q \in Policies /\ db[PolicyKey(q)] # Absent
      BY <1>1, <2>3, CommitPublishes
    <3>2. db'[ModelKey(m, v)] = call.row
      BY <1>1, <2>1, <2>3
    <3>3. InTransaction(call)
      BY <2>3 DEF InTransaction, ModelKey
    <3>4. <<ModelKey(m, v), db'[ModelKey(m, v)]>> \in outbox'
      BY <1>1, <2>3, <3>2, <3>3
    <3> QED BY <1>2, <2>1, <2>2, <3>1, <3>2, <3>4
  <2>4. CASE call.key # ModelKey(m, v)
    <3>1. db'[ModelKey(m, v)] = db[ModelKey(m, v)]
      BY <1>1, <2>1, <2>4
    <3>2. PICK by \in Calls : by.key = ModelKey(m, v) /\ by.row = db[ModelKey(m, v)]
      BY <1>3, <2>1, <3>1 DEF IInv, FromCalls
    <3>3. db[ModelKey(m, v)].bound \in SUBSET Policies
      BY <3>2, CallKinds DEF ModelKey
    <3>4. /\ v > 1 => db[ModelKey(m, v - 1)] # Absent
          /\ \A q \in db[ModelKey(m, v)].bound : db[PolicyKey(q)] # Absent
          /\ <<ModelKey(m, v), db[ModelKey(m, v)]>> \in outbox
      BY <1>3, <3>1 DEF PublicationsAreAChain
    <3> QED BY <1>2, <2>1, <2>2, <3>1, <3>3, <3>4
  <2> QED BY <2>3, <2>4
<1> QED BY <1>3 DEF PublicationsAreAChain

\* The versions of a model have no gap, and each is bound to policies that
\* exist and has its event (publish_model).
THEOREM ChainIsUnbroken == Spec => []PublicationsAreAChain
<1>1. Init => PublicationsAreAChain
  BY DEF Init, PublicationsAreAChain, Keys
<1>2. IInv /\ PublicationsAreAChain /\ [Next]_vars => PublicationsAreAChain'
  <2> SUFFICES ASSUME IInv, PublicationsAreAChain, [Next]_vars PROVE PublicationsAreAChain'
    OBVIOUS
  <2>1. outbox \subseteq outbox'
    BY OutboxGrows
  <2>2. CASE db' = db
    BY <2>1, <2>2 DEF PublicationsAreAChain
  <2> QED BY <2>1, <2>2, OtherSteps, CommitExtendsChain
<1> QED BY <1>1, <1>2, AlwaysIInv, PTL DEF Spec

-----------------------------------------------------------------------------
(* Evidence *)

\* c is about to record the row of k.
Recording(x, k, row) == x.phase = "stored" /\ x.key = k /\ x.row = row

Known(k, row) ==
    \/ <<k, row>> \in outbox \cup lostEvents
    \/ \E c \in Callers : Recording(tx[c], k, row)

LEMMA EvidenceIsKnown ==
    RowsAreEvidenced <=> \A k \in Keys : db[k] # Absent => Known(k, db[k])
BY DEF RowsAreEvidenced, Known, Recording

\* Whatever a caller does, what was known stays known: an event that is being
\* recorded is recorded or lost.
LEMMA KnownStays ==
    ASSUME IInv, NEW c \in Callers, NEW k, NEW row, Known(k, row),
           \/ Begin(c) \/ Refuse(c) \/ Commit(c) \/ Retry(c)
           \/ RecordAuditEvent(c) \/ LoseEvent(c)
    PROVE  Known(k, row)'
<1>1. CASE <<k, row>> \in outbox \cup lostEvents
  BY <1>1 DEF Known, Begin, Refuse, Commit, Retry, RecordAuditEvent, LoseEvent
<1>2. ASSUME NEW d \in Callers, Recording(tx[d], k, row), d # c PROVE Known(k, row)'
  <2>1. tx'[d] = tx[d]
    <3>1. CASE Commit(c)
      BY <1>2, <3>1, CommitFacts DEF Recording
    <3>2. CASE ~Commit(c)
      BY <1>2, <3>2 DEF IInv, Begin, Refuse, Retry, RecordAuditEvent, LoseEvent
    <3> QED BY <3>1, <3>2
  <2> QED BY <1>2, <2>1 DEF Known, Recording
<1>3. ASSUME Recording(tx[c], k, row) PROVE Known(k, row)'
  <2>1. RecordAuditEvent(c) \/ LoseEvent(c)
    BY <1>3 DEF Recording, Begin, Refuse, Commit, Retry, Idle
  <2> QED BY <1>3, <2>1 DEF Known, Recording, RecordAuditEvent, LoseEvent
<1> QED BY <1>1, <1>2, <1>3 DEF Known

\* A COMMIT leaves the new row known.
LEMMA CommitIsKnown ==
    ASSUME IInv, NEW c \in Callers, Commit(c), NEW k \in Keys, db'[k] # Absent,
           db[k] # Absent => Known(k, db[k])
    PROVE  Known(k, db[k])'
<1>1. PICK call \in Calls :
         /\ db' = [j \in Keys |-> IF j = call.key THEN call.row ELSE db[j]]
         /\ outbox' = IF InTransaction(call) THEN outbox \cup {<<call.key, call.row>>} ELSE outbox
         /\ tx'[c] = Committed(call)
  BY CommitFacts
<1>2. CASE k = call.key
  <2>1. db'[k] = call.row
    BY <1>1, <1>2
  <2>2. CASE InTransaction(call)
    BY <1>1, <1>2, <2>1, <2>2 DEF Known
  <2>3. CASE ~InTransaction(call)
    <3>1. Recording(tx'[c], k, db'[k])
      BY <1>1, <1>2, <2>1, <2>3 DEF Committed, Recording
    <3> QED BY <3>1 DEF Known, Recording
  <2> QED BY <2>2, <2>3
<1>3. CASE k # call.key
  <2>1. db'[k] = db[k]
    BY <1>1, <1>3
  <2>2. Known(k, db[k])
    BY <2>1
  <2>3. PICK row : row = db[k]
    OBVIOUS
  <2>4. Known(k, row)'
    BY <2>2, <2>3, KnownStays
  <2> QED BY <2>1, <2>3, <2>4 DEF Known, Recording
<1> QED BY <1>2, <1>3

\* A row without its event in the outbox is being recorded or its event was
\* lost between the two transactions of an upsert handler.
THEOREM EvidenceIsExplained == Spec => []RowsAreEvidenced
<1>1. Init => RowsAreEvidenced
  BY DEF Init, RowsAreEvidenced
<1>2. IInv /\ RowsAreEvidenced /\ [Next]_vars => RowsAreEvidenced'
  <2> SUFFICES ASSUME IInv, RowsAreEvidenced, [Next]_vars, NEW k \in Keys, db'[k] # Absent
               PROVE  Known(k, db[k])'
    BY DEF RowsAreEvidenced, Known, Recording
  <2>1. db[k] # Absent => Known(k, db[k])
    BY EvidenceIsKnown
  <2>2. CASE UNCHANGED vars
    BY <2>1, <2>2 DEF vars, Known, Recording
  <2>3. ASSUME NEW c \in Callers, Commit(c) PROVE Known(k, db[k])'
    BY <2>1, <2>3, CommitIsKnown
  <2>4. ASSUME NEW c \in Callers,
               Begin(c) \/ Refuse(c) \/ Retry(c) \/ RecordAuditEvent(c) \/ LoseEvent(c)
        PROVE  Known(k, db[k])'
    <3>1. db' = db
      BY <2>4 DEF Begin, Refuse, Retry, RecordAuditEvent, LoseEvent
    <3>2. PICK row : row = db[k]
      OBVIOUS
    <3>3. Known(k, row)'
      BY <2>1, <2>4, <3>1, <3>2, KnownStays
    <3> QED BY <3>1, <3>2, <3>3 DEF Known, Recording
  <2> QED BY <2>2, <2>3, <2>4 DEF Next
<1> QED BY <1>1, <1>2, AlwaysIInv, PTL DEF Spec

-----------------------------------------------------------------------------
(* The loop over the storage profiles.  Least counterexamples take the      *)
(* place of inductions.                                                     *)

LEMMA LeastCounterexample ==
    ASSUME NEW S, S \subseteq Nat, S # {}
    PROVE  \E x \in S : \A y \in S : x <= y
<1>1. PICK x \in S : \A y \in S : ~(<<y, x>> \in Less)
  BY LessIsWellFounded, WFMin
<1>2. ASSUME NEW y \in S PROVE x <= y
  <2>1. x \in Nat /\ y \in Nat /\ <<y, x>> \notin Less
    BY <1>1
  <2>2. ~(y < x)
    BY <2>1 DEF Less
  <2> QED BY <2>1, <2>2
<1> QED BY <1>2

\* g is what the loop has found after each of its first k turns.
IsLoop(g, d, loc, k) ==
    g = [i \in 0..k |-> IF i = 0 THEN Inferred ELSE Better(d, loc, i, g[i - 1])]

LEMMA OneMoreTurn ==
    ASSUME NEW d, NEW loc, NEW k \in Nat, NEW g, IsLoop(g, d, loc, k)
    PROVE  \E h : IsLoop(h, d, loc, k + 1)
<1> DEFINE last == Better(d, loc, k + 1, g[k])
           h == [i \in 0..(k + 1) |-> IF i = k + 1 THEN last ELSE g[i]]
<1>1. \A i \in 0..k : h[i] = g[i]
  OBVIOUS
<1>2. h[k + 1] = last /\ DOMAIN h = 0..(k + 1)
  OBVIOUS
<1>3. \A i \in 0..k : g[i] = IF i = 0 THEN Inferred ELSE Better(d, loc, i, g[i - 1])
  BY DEF IsLoop
<1> DEFINE turn(i) == IF i = 0 THEN Inferred ELSE Better(d, loc, i, h[i - 1])
<1>4. ASSUME NEW i \in 0..(k + 1)
      PROVE  h[i] = turn(i)
  <2>1. CASE i = k + 1
    <3>1. i # 0 /\ i - 1 = k /\ h[k] = g[k]
      BY <1>1, <2>1
    <3> QED BY <1>2, <2>1, <3>1
  <2>2. CASE i # k + 1
    <3>1. i \in 0..k /\ (i # 0 => i - 1 \in 0..k)
      BY <2>2
    <3> HIDE DEF h
    <3> QED BY <1>1, <1>3, <3>1
  <2> QED BY <2>1, <2>2
<1>5. h = [i \in 0..(k + 1) |-> h[i]]
  OBVIOUS
<1> HIDE DEF h, turn
<1>6. h = [i \in 0..(k + 1) |-> turn(i)]
  BY <1>4, <1>5
<1>7. IsLoop(h, d, loc, k + 1)
  BY <1>6 DEF IsLoop, turn
<1> QED BY <1>7

LEMMA LoopExists ==
    ASSUME NEW d, NEW loc, NEW k \in Nat
    PROVE  \E g : IsLoop(g, d, loc, k)
<1> DEFINE S == {n \in Nat : ~ \E g : IsLoop(g, d, loc, n)}
<1> SUFFICES ASSUME S # {} PROVE FALSE
  OBVIOUS
<1>1. S \subseteq Nat
  OBVIOUS
<1> HIDE DEF S
<1>2. PICK n \in S : \A m \in S : n <= m
  BY <1>1, LeastCounterexample
<1>3. n \in Nat /\ ~ \E g : IsLoop(g, d, loc, n)
  BY DEF S
<1>4. CASE n = 0
  <2> DEFINE g == [i \in 0..0 |-> Inferred]
  <2>1. IsLoop(g, d, loc, 0)
    BY DEF IsLoop
  <2> QED BY <1>3, <1>4, <2>1
<1>5. CASE n # 0
  <2>1. n - 1 \in Nat /\ (n - 1) + 1 = n /\ ~(n <= n - 1)
    BY <1>3, <1>5
  <2>2. n - 1 \notin S
    BY <1>2, <2>1
  <2>3. PICK g : IsLoop(g, d, loc, n - 1)
    BY <2>1, <2>2 DEF S
  <2>4. \E h : IsLoop(h, d, loc, (n - 1) + 1)
    BY <2>1, <2>3, OneMoreTurn
  <2> QED BY <1>3, <2>1, <2>4
<1> QED BY <1>4, <1>5

LEMMA MatchIsLoop ==
    ASSUME NEW d, NEW loc
    PROVE  \E g : IsLoop(g, d, loc, ProfileCount) /\ StorageProfileMatch(d, loc) = g[ProfileCount]
<1> DEFINE h == CHOOSE g : IsLoop(g, d, loc, ProfileCount)
<1>1. IsLoop(h, d, loc, ProfileCount)
  BY LoopExists, ManagementAssumption
<1>2. StorageProfileMatch(d, loc) = h[ProfileCount]
  BY DEF StorageProfileMatch, IsLoop
<1> QED BY <1>1, <1>2

\* Two prefixes of one location with one length are one prefix.
LEMMA SameLengthSamePrefix ==
    ASSUME NEW x \in Prefixes, NEW y \in Prefixes, NEW loc,
           LocationMatches(loc, x), LocationMatches(loc, y),
           PrefixLength(x) = PrefixLength(y)
    PROVE  x = y
<1>1. /\ Len(x.path) \in Nat /\ Len(y.path) \in Nat
      /\ x = [path |-> x.path, slash |-> x.slash] /\ y = [path |-> y.path, slash |-> y.slash]
      /\ x.slash \in BOOLEAN /\ y.slash \in BOOLEAN
  BY PrefixAssumption, Zenon
<1> DEFINE m == Len(x.path)
           n == Len(y.path)
           one(b) == IF b THEN 1 ELSE 0
<1>2. 2 * m + one(x.slash) = 2 * n + one(y.slash)
  BY DEF PrefixLength
<1>3. one(x.slash) \in 0..1 /\ one(y.slash) \in 0..1
  OBVIOUS
<1>4. x.slash = y.slash <=> one(x.slash) = one(y.slash)
  <2>1. one(TRUE) = 1 /\ one(FALSE) = 0 /\ 1 # 0
    OBVIOUS
  <2> HIDE DEF one
  <2> QED BY <1>1, <2>1, Zenon
<1> HIDE DEF one
<1>5. m = n /\ one(x.slash) = one(y.slash)
  BY <1>1, <1>2, <1>3
<1>6. x.path = y.path
  BY <1>5 DEF LocationMatches
<1> QED BY <1>1, <1>4, <1>5, <1>6, Zenon

\* What the loop has found after k turns.
LoopFinds(d, loc, k, best) ==
    LET seen == {i \in Matching(d, loc) : i <= k}
    IN  \/ best = Inferred /\ seen = {}
        \/ /\ best = Ambiguous
           /\ \E i, j \in seen : i # j /\ d[ProfileKey(i)].parent = d[ProfileKey(j)].parent
        \/ /\ best \in seen
           /\ \A i \in seen \ {best} : ProfileLength(d, i) < ProfileLength(d, best)

PrefixesOnly(d) ==
    \A i \in Profiles : d[ProfileKey(i)] # Absent => d[ProfileKey(i)].parent \in Prefixes

LEMMA MatchingFacts ==
    ASSUME NEW d, PrefixesOnly(d), NEW loc, NEW i \in Matching(d, loc)
    PROVE  /\ i \in Nat /\ i \in Profiles
           /\ d[ProfileKey(i)].parent \in Prefixes
           /\ LocationMatches(loc, d[ProfileKey(i)].parent)
           /\ ProfileLength(d, i) \in Nat
<1>1. /\ i \in Nat /\ i \in Profiles
      /\ d[ProfileKey(i)].parent \in Prefixes
      /\ LocationMatches(loc, d[ProfileKey(i)].parent)
  BY ManagementAssumption DEF Matching, Profiles, PrefixesOnly
<1> DEFINE x == d[ProfileKey(i)].parent
           one == IF x.slash THEN 1 ELSE 0
<1>2. Len(x.path) \in Nat
  BY <1>1, PrefixAssumption
<1>3. one \in Nat
  OBVIOUS
<1>4. ProfileLength(d, i) = 2 * Len(x.path) + one
  BY DEF ProfileLength, PrefixLength
<1> HIDE DEF one
<1> QED BY <1>1, <1>2, <1>3, <1>4

LEMMA TurnFinds ==
    ASSUME NEW d, PrefixesOnly(d), NEW loc, NEW k \in Nat, NEW best,
           LoopFinds(d, loc, k, best)
    PROVE  LoopFinds(d, loc, k + 1, Better(d, loc, k + 1, best))
<1> DEFINE seen == {i \in Matching(d, loc) : i <= k}
           more == {i \in Matching(d, loc) : i <= k + 1}
           new == k + 1
           len(i) == ProfileLength(d, i)
           next == Better(d, loc, new, best)
<1>1. \A i \in Matching(d, loc) : i \in Nat /\ len(i) \in Nat
  BY MatchingFacts
<1>2. seen \subseteq more /\ seen \subseteq Matching(d, loc) /\ new \notin seen
  BY <1>1
<1>3. CASE new \notin Matching(d, loc)
  <2>1. more = seen
    BY <1>1, <1>3
  <2>2. next = best
    BY <1>3 DEF Better
  <2> QED BY <2>1, <2>2 DEF LoopFinds
<1>4. CASE new \in Matching(d, loc)
  <2>1. more = seen \cup {new}
    BY <1>1, <1>4
  <2> HIDE DEF seen, more
  <2>2. CASE best = Inferred /\ seen = {}
    <3>1. next = new
      BY <1>4, <2>2, ManagementAssumption DEF Better
    <3>2. next \in more /\ \A i \in more \ {next} : len(i) < len(next)
      BY <2>1, <2>2, <3>1
    <3> QED BY <3>2 DEF LoopFinds, more
  <2>3. CASE /\ best = Ambiguous
             /\ \E i, j \in seen : i # j /\ d[ProfileKey(i)].parent = d[ProfileKey(j)].parent
    <3>1. next = Ambiguous
      BY <2>3 DEF Better
    <3>2. \E i, j \in more : i # j /\ d[ProfileKey(i)].parent = d[ProfileKey(j)].parent
      BY <2>1, <2>3
    <3> QED BY <3>1, <3>2 DEF LoopFinds, more
  <2>4. CASE best \in seen /\ \A i \in seen \ {best} : len(i) < len(best)
    <3>1. best \in Matching(d, loc) /\ best \in Nat /\ best # Ambiguous /\ best # Inferred
      BY <1>1, <1>2, <2>4, ManagementAssumption
    <3>2. len(best) \in Nat /\ len(new) \in Nat /\ \A i \in seen : len(i) \in Nat
      BY <1>1, <1>2, <1>4, <3>1
    <3>3. next = IF len(new) > len(best) THEN new
                 ELSE IF len(new) = len(best) THEN Ambiguous ELSE best
      BY <1>4, <3>1 DEF Better
    <3> HIDE DEF len
    <3>4. CASE len(new) > len(best)
      <4>1. next = new
        BY <3>3, <3>4
      <4>2. next \in more /\ \A i \in more \ {next} : len(i) < len(next)
        BY <2>1, <2>4, <3>2, <3>4, <4>1
      <4> QED BY <4>2 DEF LoopFinds, more, len
    <3>5. CASE len(new) = len(best)
      <4>1. next = Ambiguous
        BY <3>2, <3>3, <3>5
      <4>2. /\ d[ProfileKey(new)].parent \in Prefixes /\ d[ProfileKey(best)].parent \in Prefixes
            /\ LocationMatches(loc, d[ProfileKey(new)].parent)
            /\ LocationMatches(loc, d[ProfileKey(best)].parent)
        BY <1>4, <3>1, MatchingFacts
      <4>3. PrefixLength(d[ProfileKey(new)].parent) = PrefixLength(d[ProfileKey(best)].parent)
        BY <3>5 DEF len, ProfileLength
      <4>4. d[ProfileKey(new)].parent = d[ProfileKey(best)].parent
        BY <4>2, <4>3, SameLengthSamePrefix
      <4>5. \E i, j \in more : i # j /\ d[ProfileKey(i)].parent = d[ProfileKey(j)].parent
        BY <1>2, <2>1, <2>4, <4>4
      <4> QED BY <4>1, <4>5 DEF LoopFinds, more
    <3>6. CASE len(new) < len(best)
      <4>1. next = best
        BY <3>2, <3>3, <3>6
      <4>2. next \in more /\ \A i \in more \ {next} : len(i) < len(next)
        BY <2>1, <2>4, <3>6, <4>1
      <4> QED BY <4>2 DEF LoopFinds, more, len
    <3> QED BY <3>2, <3>4, <3>5, <3>6
  <2> QED BY <2>2, <2>3, <2>4 DEF LoopFinds, seen
<1> QED BY <1>3, <1>4

LEMMA MatchFinds ==
    ASSUME NEW d, PrefixesOnly(d), NEW loc
    PROVE  LoopFinds(d, loc, ProfileCount, StorageProfileMatch(d, loc))
<1>1. PICK g : /\ IsLoop(g, d, loc, ProfileCount)
               /\ StorageProfileMatch(d, loc) = g[ProfileCount]
  BY MatchIsLoop
<1>2. ProfileCount \in Nat
  BY ManagementAssumption
<1>3. \A i \in 0..ProfileCount : g[i] = IF i = 0 THEN Inferred ELSE Better(d, loc, i, g[i - 1])
  BY <1>1 DEF IsLoop
<1> DEFINE S == {n \in 0..ProfileCount : ~LoopFinds(d, loc, n, g[n])}
<1>4. S = {}
  <2> SUFFICES ASSUME S # {} PROVE FALSE
    OBVIOUS
  <2>1. S \subseteq Nat
    BY <1>2
  <2> HIDE DEF S
  <2>2. PICK n \in S : \A m \in S : n <= m
    BY <2>1, LeastCounterexample
  <2>3. n \in 0..ProfileCount /\ ~LoopFinds(d, loc, n, g[n])
    BY DEF S
  <2>4. CASE n = 0
    <3>1. {i \in Matching(d, loc) : i <= 0} = {}
      BY ManagementAssumption DEF Matching, Profiles
    <3>2. g[0] = Inferred
      BY <1>2, <1>3
    <3> QED BY <2>3, <2>4, <3>1, <3>2 DEF LoopFinds
  <2>5. CASE n # 0
    <3>1. n - 1 \in Nat /\ n - 1 \in 0..ProfileCount /\ (n - 1) + 1 = n /\ ~(n <= n - 1)
      BY <1>2, <2>3, <2>5
    <3>2. LoopFinds(d, loc, n - 1, g[n - 1])
      BY <2>2, <3>1 DEF S
    <3>3. LoopFinds(d, loc, (n - 1) + 1, Better(d, loc, (n - 1) + 1, g[n - 1]))
      BY <3>1, <3>2, TurnFinds
    <3>4. g[n] = Better(d, loc, n, g[n - 1])
      BY <1>3, <2>3, <2>5
    <3> QED BY <2>3, <3>1, <3>3, <3>4
  <2> QED BY <2>4, <2>5
<1> QED BY <1>1, <1>2, <1>4

\* Every prefix came with the call that wrote it.
LEMMA ProfilesHavePrefixes == ASSUME IInv PROVE PrefixesOnly(db)
<1> SUFFICES ASSUME NEW i \in Profiles, db[ProfileKey(i)] # Absent
             PROVE  db[ProfileKey(i)].parent \in Prefixes
  BY DEF PrefixesOnly
<1>1. ProfileKey(i) \in Keys
  BY DEF Keys
<1>2. PICK call \in Calls : call.key = ProfileKey(i) /\ call.row = db[ProfileKey(i)]
  BY <1>1 DEF IInv, FromCalls
<1>3. call.key[1] = "storage-profile"
  BY <1>2 DEF ProfileKey
<1>4. call.row.parent \in Prefixes
  BY <1>3, CallKinds
<1> QED BY <1>2, <1>4

\* Credentials are issued for the one profile with the longest prefix that
\* matches the table's location; storage_profile_match fails only where two
\* profiles have one prefix, and infers a profile only where none matches,
\* for any number of profiles in any order.
THEOREM CredentialsUseLongestMatch == Spec => []ProfileIsTheLongestMatch
<1>1. ASSUME IInv PROVE ProfileIsTheLongestMatch
  <2> SUFFICES ASSUME NEW loc \in Locations
               PROVE  LET found == StorageProfileMatch(db, loc)
                      IN  CASE found = Inferred -> Matching(db, loc) = {}
                            [] found = Ambiguous ->
                                  \E i, j \in Matching(db, loc) :
                                     i # j /\ db[ProfileKey(i)].parent = db[ProfileKey(j)].parent
                            [] OTHER -> \A i \in Matching(db, loc) \ {found} :
                                          ProfileLength(db, i) < ProfileLength(db, found)
    BY DEF ProfileIsTheLongestMatch
  <2> DEFINE found == StorageProfileMatch(db, loc)
             all == Matching(db, loc)
  <2>1. LoopFinds(db, loc, ProfileCount, found)
    BY <1>1, ProfilesHavePrefixes, MatchFinds
  <2>2. {i \in all : i <= ProfileCount} = all
    BY ManagementAssumption DEF Matching, Profiles
  <2>3. \A i \in all : i # Inferred /\ i # Ambiguous
    BY ManagementAssumption DEF Matching, Profiles
  <2> HIDE DEF found, all
  <2>4. \/ found = Inferred /\ all = {}
        \/ /\ found = Ambiguous
           /\ \E i, j \in all : i # j /\ db[ProfileKey(i)].parent = db[ProfileKey(j)].parent
        \/ /\ found \in all
           /\ \A i \in all \ {found} : ProfileLength(db, i) < ProfileLength(db, found)
    BY <2>1, <2>2 DEF LoopFinds, all
  <2>5. Ambiguous # Inferred
    BY ManagementAssumption
  <2>6. CASE found = Inferred
    <3>1. all = {}
      BY <2>3, <2>4, <2>5, <2>6
    <3> QED BY <2>5, <2>6, <3>1, Zenon DEF found, all
  <2>7. CASE found = Ambiguous
    <3>1. \E i, j \in all : i # j /\ db[ProfileKey(i)].parent = db[ProfileKey(j)].parent
      BY <2>3, <2>4, <2>5, <2>7
    <3> QED BY <2>5, <2>7, <3>1 DEF found, all
  <2>8. CASE found # Inferred /\ found # Ambiguous
    <3>1. \A i \in all \ {found} : ProfileLength(db, i) < ProfileLength(db, found)
      BY <2>4, <2>8
    <3> QED BY <2>8, <3>1, Zenon DEF found, all
  <2> QED BY <2>6, <2>7, <2>8
<1> QED BY <1>1, AlwaysIInv, PTL
=============================================================================
