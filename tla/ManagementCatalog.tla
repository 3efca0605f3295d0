------------------------- MODULE ManagementCatalog -------------------------
(***************************************************************************)
(* The management surface: servers, projects, warehouses, storage profiles *)
(* and policy bindings, which are only ever inserted or overwritten, and   *)
(* published models, which are only ever appended.  Every mutation is the  *)
(* body of a write_txn over one row (BEGIN CONCURRENT: a snapshot, first   *)
(* committer wins, a bounded number of attempts).  The memory store runs   *)
(* the same bodies under one lock, which is the special case of Begin and  *)
(* Commit without a step in between.                                       *)
(*                                                                         *)
(* The upsert handlers record their audit event in a second transaction    *)
(* and may fail or die before it; publish_model inserts its event in the   *)
(* transaction of the row.                                                 *)
(***************************************************************************)
EXTENDS Naturals, Sequences, FiniteSets

CONSTANTS
    Servers, Projects, Warehouses, Policies, Models,
    ProfileCount,   \* the storage profiles of one warehouse, 1..ProfileCount in list order
    Prefixes,       \* location prefixes, [path |-> Seq, slash |-> BOOLEAN]
    Locations,      \* table locations, sequences of path components
    Bodies,         \* what an upsert changes besides the identity and the parent
    Callers,
    MaxVersion,     \* bound: versions per model
    MaxAttempts,    \* TURSO_CONTENTION_MAX_ATTEMPTS
    MaxCalls,       \* bound: calls per behaviour
    None, Absent, Ambiguous, Inferred

ASSUME ManagementAssumption ==
    /\ ProfileCount \in Nat /\ MaxVersion \in Nat /\ MaxCalls \in Nat
    /\ MaxAttempts \in Nat \ {0}
    /\ None \notin Servers /\ None \notin Nat
    /\ Absent # None
    /\ Ambiguous # Inferred /\ Ambiguous \notin Nat /\ Inferred \notin Nat

ASSUME PrefixAssumption ==
    \A x \in Prefixes : /\ x = [path |-> x.path, slash |-> x.slash]
                        /\ Len(x.path) \in Nat
                        /\ x.slash \in BOOLEAN

VARIABLES
    db,         \* row key -> row or Absent
    outbox,     \* <<key, row>> of every management event recorded
    lostEvents, \* ghost: <<key, row>> stored by a call that never recorded its event
    tx,         \* Callers -> the call in progress
    calls       \* bound: calls begun

vars == <<db, outbox, lostEvents, tx, calls>>

-----------------------------------------------------------------------------
(* Rows.  A row is its parent (for a warehouse, the project; for a project, *)
(* the server or None; for a profile, its prefix), the policies a published *)
(* model is bound to, and a body.                                           *)

Profiles == 1..ProfileCount

ServerKey(s)      == <<"server", s>>
ProjectKey(p)     == <<"project", p>>
WarehouseKey(w)   == <<"warehouse", w>>
ProfileKey(i)     == <<"storage-profile", i>>
PolicyKey(q)      == <<"policy-binding", q>>
ModelKey(m, v)    == <<"model", <<m, v>>>>

Keys ==
    {ServerKey(s) : s \in Servers} \cup {ProjectKey(p) : p \in Projects}
    \cup {WarehouseKey(w) : w \in Warehouses} \cup {ProfileKey(i) : i \in Profiles}
    \cup {PolicyKey(q) : q \in Policies}
    \cup {ModelKey(m, v) : m \in Models, v \in 1..MaxVersion}

Row(parent, bound, body) == [parent |-> parent, bound |-> bound, body |-> body]

\* The calls a client may make: the row to write, and for publish_model the
\* version the client expects to be current, None for no version.
UpsertServer(s, b)       == [key |-> ServerKey(s), row |-> Row(None, {}, b), expected |-> None]
UpsertProject(p, s, b)   == [key |-> ProjectKey(p), row |-> Row(s, {}, b), expected |-> None]
UpsertWarehouse(w, p, b) == [key |-> WarehouseKey(w), row |-> Row(p, {}, b), expected |-> None]
UpsertProfile(i, x)      == [key |-> ProfileKey(i), row |-> Row(x, {}, None), expected |-> None]
UpsertPolicy(q, b)       == [key |-> PolicyKey(q), row |-> Row(None, {}, b), expected |-> None]
Publish(m, v, e, qs)     == [key |-> ModelKey(m, v), row |-> Row(None, qs, None), expected |-> e]

Calls ==
    {UpsertServer(s, b) : s \in Servers, b \in Bodies}
    \cup {UpsertProject(p, s, b) : p \in Projects, s \in Servers \cup {None}, b \in Bodies}
    \cup {UpsertWarehouse(w, p, b) : w \in Warehouses, p \in Projects, b \in Bodies}
    \cup {UpsertProfile(i, x) : i \in Profiles, x \in Prefixes}
    \cup {UpsertPolicy(q, b) : q \in Policies, b \in Bodies}
    \cup {Publish(m, v, e, qs) : m \in Models, v \in 1..MaxVersion,
                                 e \in 0..MaxVersion \cup {None}, qs \in SUBSET Policies}

\* The absence of a row is not a row.
ASSUME AbsentAssumption == \A call \in Calls : call.row # Absent

-----------------------------------------------------------------------------
(* The bodies of the transactions.                                          *)

\* select max(version), with 0 for a model nobody published.
CurrentVersion(d, m) ==
    LET published == {v \in 1..MaxVersion : d[ModelKey(m, v)] # Absent}
    IN  CHOOSE v \in published \cup {0} : \A u \in published : u <= v

ProjectAdmits(d, call) ==
    call.row.parent # None => d[ServerKey(call.row.parent)] # Absent

WarehouseUnchecked(d, call) == TRUE

WarehouseAdmits(d, call) == d[ProjectKey(call.row.parent)] # Absent

\* The expected version is only compared with the request's own.
PublishByExpected(d, call) ==
    /\ call.key[2][2] = IF call.expected = None THEN 1 ELSE call.expected + 1
    /\ \A q \in call.row.bound : d[PolicyKey(q)] # Absent

PublishAdmits(d, call) ==
    LET current == CurrentVersion(d, call.key[2][1])
    IN  /\ call.expected = IF current = 0 THEN None ELSE current
        /\ call.key[2][2] = current + 1
        /\ \A q \in call.row.bound : d[PolicyKey(q)] # Absent

Admits(d, call) ==
    CASE call.key[1] = "project" -> ProjectAdmits(d, call)
      [] call.key[1] = "warehouse" -> WarehouseAdmits(d, call)
      [] call.key[1] = "model" -> PublishAdmits(d, call)
      [] OTHER -> TRUE

InTransaction(call) == call.key[1] = "model"

-----------------------------------------------------------------------------
(* storage_profile_for_table: the matching profile with the longest prefix. *)

\* String length with one-character components, each after a separator.
PrefixLength(x) == 2 * Len(x.path) + (IF x.slash THEN 1 ELSE 0)

\* Equal, or equal up to a component boundary.  A location has no trailing
\* slash, so it never equals a prefix that has one.
LocationMatches(loc, x) ==
    /\ Len(x.path) <= Len(loc)
    /\ SubSeq(loc, 1, Len(x.path)) = x.path
    /\ x.slash => Len(x.path) < Len(loc)

Matching(d, loc) ==
    {i \in Profiles : /\ d[ProfileKey(i)] # Absent
                      /\ LocationMatches(loc, d[ProfileKey(i)].parent)}

ProfileLength(d, i) == PrefixLength(d[ProfileKey(i)].parent)

\* Mutant of Better: a tie goes to the later profile.
BetterOrLater(d, loc, i, best) ==
    IF i \notin Matching(d, loc) THEN best
    ELSE IF best = Inferred \/ ProfileLength(d, i) >= ProfileLength(d, best) THEN i
    ELSE best

\* One turn of the loop over the listing: the best profile so far, or
\* Ambiguous as soon as a prefix as long as the best one turns up.
Better(d, loc, i, best) ==
    IF best = Ambiguous \/ i \notin Matching(d, loc) THEN best
    ELSE IF best = Inferred \/ ProfileLength(d, i) > ProfileLength(d, best) THEN i
    ELSE IF ProfileLength(d, i) = ProfileLength(d, best) THEN Ambiguous
    ELSE best

StorageProfileMatch(d, loc) ==
    LET after[i \in 0..ProfileCount] ==
            IF i = 0 THEN Inferred ELSE Better(d, loc, i, after[i - 1])
    IN  after[ProfileCount]

-----------------------------------------------------------------------------
Idle == [phase |-> "idle"]

Init ==
    /\ db = [k \in Keys |-> Absent]
    /\ outbox = {}
    /\ lostEvents = {}
    /\ tx = [c \in Callers |-> Idle]
    /\ calls = 0

\* BEGIN CONCURRENT: the body reads the database as it is now.
Transaction(call, attempt) ==
    [phase |-> "body", call |-> call, snapshot |-> db, overwritten |-> {}, attempt |-> attempt]

Begin(c) ==
    /\ tx[c] = Idle
    /\ calls < MaxCalls
    /\ \E call \in Calls :
        tx' = [tx EXCEPT ![c] = Transaction(call, 1)]
    /\ calls' = calls + 1
    /\ UNCHANGED <<db, outbox, lostEvents>>

\* A parent that does not exist, a version that is not the expected one.
Refuse(c) ==
    /\ tx[c].phase = "body"
    /\ ~Admits(tx[c].snapshot, tx[c].call)
    /\ tx' = [tx EXCEPT ![c] = Idle]
    /\ UNCHANGED <<db, outbox, lostEvents, calls>>

Overwrite(callers, k) ==
    [c \in Callers |-> IF c \in callers /\ tx[c].phase = "body"
                       THEN [tx[c] EXCEPT !.overwritten = @ \cup {k}] ELSE tx[c]]

\* First committer wins: nobody committed this row since the snapshot.
Unconflicted(t) == t.call.key \notin t.overwritten

\* Only the creation of a row is recorded.
CommitRecordingCreation(c) ==
    LET call == tx[c].call
    IN  /\ tx[c].phase = "body"
        /\ Admits(tx[c].snapshot, call)
        /\ Unconflicted(tx[c])
        /\ db' = [db EXCEPT ![call.key] = call.row]
        /\ outbox' = IF InTransaction(call) THEN outbox \cup {<<call.key, call.row>>} ELSE outbox
        /\ tx' = [Overwrite(Callers \ {c}, call.key)
                    EXCEPT ![c] = IF InTransaction(call) \/ db[call.key] # Absent THEN Idle
                                  ELSE [phase |-> "stored", key |-> call.key, row |-> call.row]]
        /\ UNCHANGED <<lostEvents, calls>>

\* COMMIT of the row.  An upsert handler goes on to record its event; the
\* event of a publication commits with it.
Commit(c) ==
    LET call == tx[c].call
    IN  /\ tx[c].phase = "body"
        /\ Admits(tx[c].snapshot, call)
        /\ Unconflicted(tx[c])
        /\ db' = [db EXCEPT ![call.key] = call.row]
        /\ outbox' = IF InTransaction(call) THEN outbox \cup {<<call.key, call.row>>} ELSE outbox
        /\ tx' = [Overwrite(Callers \ {c}, call.key)
                    EXCEPT ![c] = IF InTransaction(call) THEN Idle
                                  ELSE [phase |-> "stored", key |-> call.key, row |-> call.row]]
        /\ UNCHANGED <<lostEvents, calls>>

\* A lost race: run the body again on a fresh snapshot, or give up.
Retry(c) ==
    /\ tx[c].phase = "body"
    /\ Admits(tx[c].snapshot, tx[c].call)
    /\ ~Unconflicted(tx[c])
    /\ tx' = [tx EXCEPT ![c] =
                IF tx[c].attempt < MaxAttempts
                THEN Transaction(tx[c].call, tx[c].attempt + 1)
                ELSE Idle]
    /\ UNCHANGED <<db, outbox, lostEvents, calls>>

\* record_audit_event, with the row the store returned.
RecordAuditEvent(c) ==
    /\ tx[c].phase = "stored"
    /\ outbox' = outbox \cup {<<tx[c].key, tx[c].row>>}
    /\ tx' = [tx EXCEPT ![c] = Idle]
    /\ UNCHANGED <<db, lostEvents, calls>>

\* record_audit_event fails, or the process dies before it.
LoseEvent(c) ==
    /\ tx[c].phase = "stored"
    /\ lostEvents' = lostEvents \cup {<<tx[c].key, tx[c].row>>}
    /\ tx' = [tx EXCEPT ![c] = Idle]
    /\ UNCHANGED <<db, outbox, calls>>

Next ==
    \E c \in Callers :
        \/ Begin(c)
        \/ Refuse(c)
        \/ Commit(c)
        \/ Retry(c)
        \/ RecordAuditEvent(c)
        \/ LoseEvent(c)

Spec == Init /\ [][Next]_vars

-----------------------------------------------------------------------------
(* Properties.                                                              *)

\* Every warehouse is in a project that exists, and every project that names
\* a server names one that exists, although the parent was only read in the
\* child's snapshot and nothing is written to the parent's row.
HierarchyComplete ==
    /\ \A w \in Warehouses : db[WarehouseKey(w)] # Absent =>
            db[ProjectKey(db[WarehouseKey(w)].parent)] # Absent
    /\ \A p \in Projects : db[ProjectKey(p)] # Absent /\ db[ProjectKey(p)].parent # None =>
            db[ServerKey(db[ProjectKey(p)].parent)] # Absent

\* However publishers race, a model's versions have no gap, each is bound to
\* policies that exist, and each has its event in the outbox.
PublicationsAreAChain ==
    \A m \in Models, v \in 1..MaxVersion :
        db[ModelKey(m, v)] # Absent =>
            /\ v > 1 => db[ModelKey(m, v - 1)] # Absent
            /\ \A q \in db[ModelKey(m, v)].bound : db[PolicyKey(q)] # Absent
            /\ <<ModelKey(m, v), db[ModelKey(m, v)]>> \in outbox

\* A publication is never overwritten, not even by a publisher that read the
\* same current version.
PublicationsAreFinal ==
    [][\A m \in Models, v \in 1..MaxVersion :
        db[ModelKey(m, v)] # Absent => db'[ModelKey(m, v)] = db[ModelKey(m, v)]]_vars

\* The profile that credentials are issued for is the only one with the
\* longest matching prefix; an error means two profiles with one prefix, and
\* the inferred profile means that none matches.
ProfileIsTheLongestMatch ==
    \A loc \in Locations :
        LET found == StorageProfileMatch(db, loc)
        IN  CASE found = Inferred -> Matching(db, loc) = {}
              [] found = Ambiguous ->
                    \E i, j \in Matching(db, loc) :
                        i # j /\ db[ProfileKey(i)].parent = db[ProfileKey(j)].parent
              [] OTHER -> \A i \in Matching(db, loc) \ {found} :
                            ProfileLength(db, i) < ProfileLength(db, found)

\* A row that the outbox does not know is being recorded, or its event was
\* lost between the two transactions: nothing else leaves a row without
\* evidence.
RowsAreEvidenced ==
    \A k \in Keys : db[k] # Absent =>
        \/ <<k, db[k]>> \in outbox \cup lostEvents
        \/ \E c \in Callers : tx[c].phase = "stored" /\ tx[c].key = k /\ tx[c].row = db[k]

=============================================================================
