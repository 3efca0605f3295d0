---------------------------- MODULE TursoCatalog ----------------------------
(***************************************************************************)
(* TursoCatalogStore: the durable store.  Every mutation is the body of a  *)
(* write_txn: BEGIN CONCURRENT takes a snapshot, the body reads from it    *)
(* and stages row writes, and COMMIT succeeds unless a row it writes was   *)
(* written by somebody else since (snapshot isolation, first committer     *)
(* wins).  A lost race rolls back and runs the body again on a fresh       *)
(* snapshot, a bounded number of times.                                    *)
(*                                                                         *)
(* The database is one function from row keys to rows.  The audit and      *)
(* outbox inserts of a body have fresh keys and so never conflict; they    *)
(* are the transaction's events, which become visible with its rows.       *)
(***************************************************************************)
EXTENDS CatalogBase, FiniteSets

CONSTANTS
    Clients,        \* concurrent callers of the store
    Workloads,      \* bound: what the callers of one behaviour may ask for
    ViewNames,
    MaxVersion      \* bound: commits per table

AllKinds == {"create_namespace", "update_namespace_properties", "drop_namespace",
             "create_table", "commit_table", "rename_table", "soft_delete_table",
             "restore_table", "upsert_view", "drop_view", "upsert_policy_binding"}

ASSUME TursoAssumption ==
    /\ MaxVersion \in Nat
    /\ Workloads \subseteq [kinds : SUBSET AllKinds, tables : SUBSET Tables,
                             locations : SUBSET MetadataLocations,
                             requests : SUBSET Requests, versions : 0..MaxVersion,
                             attempts : Nat \ {0}]

VARIABLES
    db,         \* Rows -> the row's value or Absent
    outbox,     \* lifecycle events recorded by committed transactions
    tx,         \* Clients -> the state of the caller's write_txn
    workload,   \* the workload of this behaviour; attempts is
                \* TURSO_CONTENTION_MAX_ATTEMPTS
    named       \* history: the version a table had when it came to its
                \* present name, 0 unless a rename brought it there

vars == <<db, outbox, tx, workload, named>>

-----------------------------------------------------------------------------
(* The schema: one key per row.                                             *)

Views == Namespaces \X ViewNames

NamespaceRow(n)  == <<"namespaces", n>>
PropertiesRow(n) == <<"namespace_properties", n>>
TableRowOf(t)    == <<"tables", t>>
SoftDeleteRow(t) == <<"soft_deletes", t>>
LogRow(t, v)     == <<"metadata_pointer_log", t, v>>
IdemRow(i)       == <<"idempotency_records", i>>
ViewRow(v)       == <<"views", v>>
PolicyRow(p)     == <<"policy_bindings", p>>

LogRows(t) == {LogRow(t, v) : v \in 1..MaxVersion}

\* The rows that are kept under the keys of the tables in T.
RowsOf(T) ==
    {TableRowOf(t) : t \in T} \cup {SoftDeleteRow(t) : t \in T}
    \cup {LogRow(t, v) : t \in T, v \in 1..MaxVersion}

Rows ==
    {NamespaceRow(n) : n \in Namespaces} \cup {PropertiesRow(n) : n \in Namespaces}
    \cup RowsOf(Tables)
    \cup {IdemRow(i) : i \in IdemKeys}
    \cup {ViewRow(v) : v \in Views}
    \cup {PolicyRow(p) : p \in Policies}

\* A row whose columns nothing below depends on.
Present == TRUE

\* insert or update: the one row that the statement writes.
Put(r, value) == [k \in {r} |-> value]

\* The statements of one body together.
f ++ g == [r \in DOMAIN f \cup DOMAIN g |-> IF r \in DOMAIN f THEN f[r] ELSE g[r]]

\* delete from ... : only rows that are there are written.
Deleted(s, R) == [r \in {r \in R : s[r] # Absent} |-> Absent]

TableVisible(s, t) ==
    s[TableRowOf(t)] # Absent /\ s[SoftDeleteRow(t)] = Absent

-----------------------------------------------------------------------------
(* The transaction bodies.  For each operation: whether the body, reading   *)
(* the snapshot s, gets to its writes (Admits), and what it writes.         *)

CreateNamespaceAdmits(s, o) ==
    s[NamespaceRow(o.n)] = Absent /\ s[PropertiesRow(o.n)] = Absent

CreateNamespaceWrites(o) ==
    Put(NamespaceRow(o.n), Present) ++ Put(PropertiesRow(o.n), Present)

\* Mutant of UpdatePropertiesAdmits: the namespace is not looked up.
UpdatePropertiesUnchecked(s, o) == TRUE

UpdatePropertiesAdmits(s, o) == s[NamespaceRow(o.n)] # Absent

UpdatePropertiesWrites(o) == Put(PropertiesRow(o.n), Present)

\* The namespace itself was looked up before the transaction; the body reads
\* what is in it: child namespaces, tables, hidden tables, views, policies.
DropNamespaceAdmits(s, o) ==
    /\ \A c \in Descendants[o.n] : s[NamespaceRow(c)] = Absent
    /\ \A t \in Tables : t[1] = o.n =>
          /\ s[TableRowOf(t)] # Absent =>
                /\ s[SoftDeleteRow(t)] # Absent
                /\ ValidForTable(s[SoftDeleteRow(t)], s[TableRowOf(t)])
          /\ s[SoftDeleteRow(t)] # Absent => s[TableRowOf(t)] # Absent
    /\ \A v \in Views : v[1] = o.n => s[ViewRow(v)] = Absent
    /\ \A p \in Policies :
          s[PolicyRow(p)] # Absent => s[PolicyRow(p)].namespace # o.n

\* Mutant of DropNamespaceWrites: the idempotency records stay.
DropNamespaceKeepingKeys(s, o) ==
    LET retired == {t \in Tables : t[1] = o.n /\ s[SoftDeleteRow(t)] # Absent}
    IN  Deleted(s, {NamespaceRow(o.n), PropertiesRow(o.n)} \cup RowsOf(retired))

DropNamespaceWrites(s, o) ==
    LET retired == {t \in Tables : t[1] = o.n /\ s[SoftDeleteRow(t)] # Absent}
        idem == {i \in IdemKeys : /\ s[IdemRow(i)] # Absent
                                  /\ s[IdemRow(i)].table \in retired}
    IN  Deleted(s, {NamespaceRow(o.n), PropertiesRow(o.n)}
                   \cup {IdemRow(i) : i \in idem}
                   \cup RowsOf(retired))

CreateTableAdmits(s, o) ==
    s[NamespaceRow(o.t[1])] # Absent /\ s[TableRowOf(o.t)] = Absent

CreateTableWrites(o) == Put(TableRowOf(o.t), NewTable(o.loc))

\* Mutant of CommitTableAdmits: the pointer is compared, not the version.
CommitByPointerAdmits(s, o) ==
    /\ o.key # NoKey => s[IdemRow(IdemKey(o.t, o.key))] = Absent
    /\ TableVisible(s, o.t)
    /\ s[TableRowOf(o.t)].location = o.loaded.location

\* Mutant of CommitTableAdmits: the key is not looked up.
CommitKeyedAgainAdmits(s, o) ==
    /\ TableVisible(s, o.t)
    /\ s[TableRowOf(o.t)].location = o.loaded.location
    /\ s[TableRowOf(o.t)].version = o.loaded.version

\* commit_table_expecting: a used key is answered from its record, without
\* writing; otherwise the table must be visible and still be what the caller
\* loaded, pointer and version.
CommitTableAdmits(s, o) ==
    /\ o.key # NoKey => s[IdemRow(IdemKey(o.t, o.key))] = Absent
    /\ TableVisible(s, o.t)
    /\ s[TableRowOf(o.t)].location = o.loaded.location
    /\ s[TableRowOf(o.t)].version = o.loaded.version

CommitTableWrites(s, o) ==
    LET row == s[TableRowOf(o.t)]
        new == Advanced(row, o.loc)
        log == CommitRecordOf(row, o.loc, o.key, o.request)
        replay == [table |-> o.t, request |-> o.request, response |-> new]
    IN  Put(TableRowOf(o.t), new)
        ++ Put(LogRow(o.t, new.version), log)
        ++ (IF o.key = NoKey THEN <<>> ELSE Put(IdemRow(IdemKey(o.t, o.key)), replay))

\* No idempotency record is keyed to, or belongs to, the destination, and a
\* record keyed to the source belongs to it and the other way round.
IdempotencyAllowsRename(s, o) ==
    \A i \in IdemKeys :
       s[IdemRow(i)] # Absent =>
          /\ i[1] # StableId(o.d) /\ s[IdemRow(i)].table # o.d
          /\ i[1] = StableId(o.t) <=> s[IdemRow(i)].table = o.t

RenameTableAdmits(s, o) ==
    /\ s[NamespaceRow(o.d[1])] # Absent
    /\ TableVisible(s, o.t)
    /\ s[TableRowOf(o.d)] = Absent
    /\ s[SoftDeleteRow(o.d)] = Absent
    /\ \A r \in LogRows(o.d) : s[r] = Absent
    /\ IdempotencyAllowsRename(s, o)

RenameTableWrites(s, o) ==
    LET versions == {v \in 1..MaxVersion : s[LogRow(o.t, v)] # Absent}
        KeysOf(t) == {i \in IdemKeys : i[1] = StableId(t)}
        bound == {p \in Policies :
                     s[PolicyRow(p)] = [namespace |-> o.t[1], table |-> o.t[2]]}
        moved == [r \in {LogRow(o.d, v) : v \in versions} |-> s[LogRow(o.t, r[3])]]
    IN  Put(TableRowOf(o.t), Absent)
        ++ Put(TableRowOf(o.d), s[TableRowOf(o.t)])
        ++ moved
        ++ Deleted(s, LogRows(o.t) \cup {IdemRow(i) : i \in KeysOf(o.t)})
        ++ [r \in {PolicyRow(p) : p \in bound} |-> [namespace |-> o.d[1], table |-> o.d[2]]]

\* soft_delete_table inserts a row of its own and only reads the table's row.
SoftDeleteTableAdmits(s, o) ==
    s[NamespaceRow(o.t[1])] # Absent /\ TableVisible(s, o.t)

SoftDeleteTableWrites(s, o) == Put(SoftDeleteRow(o.t), s[TableRowOf(o.t)])

\* restore_table deletes that row, and only reads the table's too.
RestoreTableAdmits(s, o) ==
    /\ s[NamespaceRow(o.t[1])] # Absent
    /\ s[TableRowOf(o.t)] # Absent
    /\ s[SoftDeleteRow(o.t)] # Absent
    /\ ValidForTable(s[SoftDeleteRow(o.t)], s[TableRowOf(o.t)])

RestoreTableWrites(s, o) == Deleted(s, {SoftDeleteRow(o.t)})

UpsertViewWrites(o) == Put(ViewRow(o.v), Present)

DropViewAdmits(s, o) == s[ViewRow(o.v)] # Absent

DropViewWrites(s, o) == Deleted(s, {ViewRow(o.v)})

UpsertPolicyWrites(o) == Put(PolicyRow(o.p), o.scope)

Admits(s, o) ==
    CASE o.kind = "create_namespace"            -> CreateNamespaceAdmits(s, o)
      [] o.kind = "update_namespace_properties" -> UpdatePropertiesAdmits(s, o)
      [] o.kind = "drop_namespace"              -> DropNamespaceAdmits(s, o)
      [] o.kind = "create_table"                -> CreateTableAdmits(s, o)
      [] o.kind = "commit_table"                -> CommitTableAdmits(s, o)
      [] o.kind = "rename_table"                -> RenameTableAdmits(s, o)
      [] o.kind = "soft_delete_table"           -> SoftDeleteTableAdmits(s, o)
      [] o.kind = "restore_table"               -> RestoreTableAdmits(s, o)
      [] o.kind = "drop_view"                   -> DropViewAdmits(s, o)
      [] OTHER                                  -> TRUE

Writes(s, o) ==
    CASE o.kind = "create_namespace"            -> CreateNamespaceWrites(o)
      [] o.kind = "update_namespace_properties" -> UpdatePropertiesWrites(o)
      [] o.kind = "drop_namespace"              -> DropNamespaceWrites(s, o)
      [] o.kind = "create_table"                -> CreateTableWrites(o)
      [] o.kind = "commit_table"                -> CommitTableWrites(s, o)
      [] o.kind = "rename_table"                -> RenameTableWrites(s, o)
      [] o.kind = "soft_delete_table"           -> SoftDeleteTableWrites(s, o)
      [] o.kind = "restore_table"               -> RestoreTableWrites(s, o)
      [] o.kind = "upsert_view"                 -> UpsertViewWrites(o)
      [] o.kind = "drop_view"                   -> DropViewWrites(s, o)
      [] o.kind = "upsert_policy_binding"       -> UpsertPolicyWrites(o)

\* The audit and outbox rows inserted with the writes.
Events(s, o) ==
    CASE o.kind = "commit_table" ->
            {Event("table.commit", o.t, Advanced(s[TableRowOf(o.t)], o.loc))}
      [] o.kind = "rename_table" -> {Event("table.renamed", o.d, s[TableRowOf(o.t)])}
      [] o.kind = "soft_delete_table" ->
            {Event("table.deleted", o.t, s[TableRowOf(o.t)])}
      [] o.kind = "restore_table" ->
            {Event("table.restored", o.t, s[TableRowOf(o.t)])}
      [] OTHER -> {}

-----------------------------------------------------------------------------
(* The callers.  An operation is a record of its kind and arguments; the    *)
(* arguments of a commit include the table row the request handler loaded   *)
(* when it planned the commit (TableCommitSnapshot).                        *)

Ops ==
    [kind : {"create_namespace", "update_namespace_properties", "drop_namespace"},
     n : Namespaces]
    \cup [kind : {"create_table"}, t : Tables, loc : MetadataLocations]
    \cup [kind : {"commit_table"}, t : Tables, loaded : TableRow,
          loc : MetadataLocations, key : Keys \cup {NoKey}, request : Requests]
    \cup [kind : {"rename_table"}, t : Tables, d : Tables]
    \cup [kind : {"soft_delete_table", "restore_table"}, t : Tables]
    \cup [kind : {"upsert_view", "drop_view"}, v : Views]
    \cup [kind : {"upsert_policy_binding"}, p : Policies, scope : PolicyScope]

Idle == [phase |-> "idle"]

Init ==
    /\ db = [r \in Rows |-> Absent]
    /\ outbox = {}
    /\ tx = [c \in Clients |-> Idle]
    /\ workload \in Workloads
    /\ named = [t \in Tables |-> 0]

\* The call enters write_txn's loop.
Enqueue(c, op) ==
    /\ op.kind \in workload.kinds
    /\ "t" \in DOMAIN op => op.t \in workload.tables
    /\ tx' = [tx EXCEPT ![c] = [phase |-> "queued", op |-> op, attempt |-> 1]]
    /\ UNCHANGED <<db, outbox, workload, named>>

SubmitNamespace(c) ==
    \E n \in Namespaces, kind \in {"create_namespace", "update_namespace_properties"} :
       Enqueue(c, [kind |-> kind, n |-> n])

\* drop_namespace looks the namespace up on a connection of its own, before
\* the transaction begins.
SubmitDropNamespace(c) ==
    \E n \in Namespaces :
       /\ db[NamespaceRow(n)] # Absent
       /\ Enqueue(c, [kind |-> "drop_namespace", n |-> n])

SubmitCreateTable(c) ==
    \E t \in Tables, loc \in workload.locations :
       Enqueue(c, [kind |-> "create_table", t |-> t, loc |-> loc])

\* commit_table_with_snapshot: the caller loaded the table and planned the
\* commit from what it saw.
SubmitCommitTable(c) ==
    \E t \in Tables, loc \in workload.locations, key \in Keys \cup {NoKey},
       request \in workload.requests :
       /\ TableVisible(db, t)
       /\ db[TableRowOf(t)].version < workload.versions
       /\ Enqueue(c, [kind |-> "commit_table", t |-> t, loaded |-> db[TableRowOf(t)],
                      loc |-> loc, key |-> key, request |-> request])

SubmitRenameTable(c) ==
    \E t, d \in Tables : Enqueue(c, [kind |-> "rename_table", t |-> t, d |-> d])

SubmitLifecycle(c) ==
    \E t \in Tables, kind \in {"soft_delete_table", "restore_table"} :
       Enqueue(c, [kind |-> kind, t |-> t])

SubmitView(c) ==
    \E v \in Views, kind \in {"upsert_view", "drop_view"} :
       Enqueue(c, [kind |-> kind, v |-> v])

SubmitPolicy(c) ==
    \E p \in Policies, scope \in PolicyScope :
       Enqueue(c, [kind |-> "upsert_policy_binding", p |-> p, scope |-> scope])

-----------------------------------------------------------------------------
(* write_txn.                                                               *)

\* BEGIN CONCURRENT: the transaction reads from the database as it is now.
\* dirty collects the rows that others commit from here on.
Begin(c) ==
    /\ tx[c].phase = "queued"
    /\ tx' = [tx EXCEPT ![c] =
                [phase |-> "running", op |-> tx[c].op, attempt |-> tx[c].attempt,
                 snap |-> db, dirty |-> {}]]
    /\ UNCHANGED <<db, outbox, workload, named>>

\* The database with the staged rows of a transaction in it.
Applied(W) == [r \in Rows |-> IF r \in DOMAIN W THEN W[r] ELSE db[r]]

\* No row of the transaction was written since its snapshot.
Unconflicted(c, W) == DOMAIN W \cap tx[c].dirty = {}

\* Where the tables have their names from, once the database is d.
NamedAfter(d, o) ==
    [t \in Tables |->
       IF d[TableRowOf(t)] = Absent THEN 0
       ELSE IF o.kind = "rename_table" /\ t = o.d THEN d[TableRowOf(t)].version
       ELSE named[t]]

\* COMMIT.
Commit(c) ==
    /\ tx[c].phase = "running"
    /\ Admits(tx[c].snap, tx[c].op)
    /\ LET W == Writes(tx[c].snap, tx[c].op)
       IN  /\ Unconflicted(c, W)
           /\ db' = Applied(W)
           /\ named' = NamedAfter(Applied(W), tx[c].op)
           /\ tx' = [d \in Clients |->
                       IF d = c THEN Idle
                       ELSE IF tx[d].phase = "running"
                       THEN [tx[d] EXCEPT !.dirty = @ \cup DOMAIN W]
                       ELSE tx[d]]
    /\ outbox' = outbox \cup Events(tx[c].snap, tx[c].op)
    /\ UNCHANGED workload

\* The body returns without staging a write: an error of its own, or the
\* stored response of a used idempotency key.
Refuse(c) ==
    /\ tx[c].phase = "running"
    /\ ~Admits(tx[c].snap, tx[c].op)
    /\ tx' = [tx EXCEPT ![c] = Idle]
    /\ UNCHANGED <<db, outbox, workload, named>>

\* Mutant of Rollback: the attempts are not counted.
RollbackUncounted(c) ==
    /\ tx[c].phase \in {"queued", "running"}
    /\ tx' = [tx EXCEPT ![c] = [phase |-> "queued", op |-> tx[c].op,
                                attempt |-> tx[c].attempt]]
    /\ UNCHANGED <<db, outbox, workload, named>>

\* Mutant of Rollback: the body runs again in the transaction it was in.
RollbackInPlace(c) ==
    /\ tx[c].phase = "running"
    /\ tx[c].attempt < workload.attempts
    /\ tx' = [tx EXCEPT ![c].attempt = @ + 1, ![c].dirty = {}]
    /\ UNCHANGED <<db, outbox, workload, named>>

\* A write-write conflict or a transient Busy, at BEGIN, in the body or at
\* COMMIT: roll back and run the body again.
Rollback(c) ==
    /\ tx[c].phase \in {"queued", "running"}
    /\ tx[c].attempt < workload.attempts
    /\ tx' = [tx EXCEPT ![c] = [phase |-> "queued", op |-> tx[c].op,
                                attempt |-> tx[c].attempt + 1]]
    /\ UNCHANGED <<db, outbox, workload, named>>

\* The same on the last attempt: the error is returned.
GiveUp(c) ==
    /\ tx[c].phase \in {"queued", "running"}
    /\ tx[c].attempt = workload.attempts
    /\ tx' = [tx EXCEPT ![c] = Idle]
    /\ UNCHANGED <<db, outbox, workload, named>>

\* A failure that is not retried, a cancelled request, or a dead process: the
\* connection is dropped with the transaction, of which nothing was written.
Cancel(c) ==
    /\ tx[c] # Idle
    /\ tx' = [tx EXCEPT ![c] = Idle]
    /\ UNCHANGED <<db, outbox, workload, named>>

\* A caller makes one call at a time.
Submit(c) ==
    /\ tx[c] = Idle
    /\ \/ SubmitNamespace(c) \/ SubmitDropNamespace(c)
       \/ SubmitCreateTable(c) \/ SubmitCommitTable(c) \/ SubmitRenameTable(c)
       \/ SubmitLifecycle(c)
       \/ SubmitView(c) \/ SubmitPolicy(c)

Step(c) == Begin(c) \/ Commit(c) \/ Refuse(c) \/ Rollback(c) \/ GiveUp(c)

Next == \E c \in Clients : Submit(c) \/ Step(c) \/ Cancel(c)

Spec == Init /\ [][Next]_vars

\* The runtime keeps polling a submitted call; nobody has to make one.
FairSpec == Spec /\ \A c \in Clients : WF_vars(Step(c))

-----------------------------------------------------------------------------
(* Properties.                                                              *)

RowTypeOK(d) ==
    /\ DOMAIN d = Rows
    /\ \A n \in Namespaces : {d[NamespaceRow(n)], d[PropertiesRow(n)]} \subseteq {Present, Absent}
    /\ \A t \in Tables :
          /\ {d[TableRowOf(t)], d[SoftDeleteRow(t)]} \subseteq TableRow \cup {Absent}
          /\ \A v \in 1..MaxVersion : d[LogRow(t, v)] \in CommitRecord \cup {Absent}
    /\ \A i \in IdemKeys : d[IdemRow(i)] \in ReplayRow \cup {Absent}
    /\ \A v \in Views : d[ViewRow(v)] \in {Present, Absent}
    /\ \A p \in Policies : d[PolicyRow(p)] \in PolicyScope \cup {Absent}

\* Every row has its table's shape, in the database and in every snapshot.
TypeOK ==
    /\ workload \in Workloads
    /\ RowTypeOK(db)
    /\ outbox \subseteq LifecycleEvent
    /\ named \in [Tables -> Nat]
    /\ DOMAIN tx = Clients
    /\ \A c \in Clients :
          \/ tx[c] = Idle
          \/ /\ tx[c].phase \in {"queued", "running"}
             /\ tx[c].op \in Ops
             /\ tx[c].attempt \in 1..workload.attempts
             /\ tx[c].phase = "running" =>
                   RowTypeOK(tx[c].snap) /\ tx[c].dirty \subseteq Rows

\* What makes write_txn's conflict detection sufficient: a running body sees
\* the current value of every row that nobody committed since its snapshot.
SnapshotCurrentUnlessDirty ==
    \A c \in Clients :
       tx[c].phase = "running" =>
          \A r \in Rows \ tx[c].dirty : tx[c].snap[r] = db[r]

\* The pointer log of a table, oldest record first.
History(t) ==
    LET written == {v \in 1..MaxVersion : db[LogRow(t, v)] # Absent}
    IN  [v \in 1..Cardinality(written) |-> db[LogRow(t, v)]]

Pointers == INSTANCE TablePointer
              WITH pointer <- [t \in Tables |-> db[TableRowOf(t)]],
                   history <- [t \in Tables |-> History(t)]

\* Refinement: whatever transactions interleave, roll back or are cancelled,
\* the pointers and their logs move as TablePointer allows.
ImplementsTablePointer == Pointers!Spec

\* A stored response is what the commit with that key did to this table in
\* its present life, and the pointer log has that commit under the key.
ReplayIsHistory ==
    \A i \in IdemKeys :
       db[IdemRow(i)] # Absent =>
          LET replay == db[IdemRow(i)]
              v      == replay.response.version
          IN  /\ v \in DOMAIN History(replay.table)
              /\ History(replay.table)[v].new = replay.response.location
              /\ History(replay.table)[v].key = i[2]
              /\ History(replay.table)[v].request = replay.request

\* A key commits once: of the commits that a table's pointer log has since
\* the table came to its present name, no two carry the same key, whatever
\* transactions of it race, are rolled back and run again.
KeyCommitsOnce ==
    \A t \in Tables : \A v, w \in (named[t] + 1)..Len(History(t)) :
       v # w /\ History(t)[v].key # NoKey => History(t)[v].key # History(t)[w].key

\* The answer that a key stands for never changes while it is remembered,
\* however often and however concurrently the key is used again.
AnswersAreStable ==
    [][\A i \in IdemKeys :
          db[IdemRow(i)] # Absent /\ db'[IdemRow(i)] # Absent =>
             db'[IdemRow(i)] = db[IdemRow(i)]]_vars

\* No lost update: a table's pointer moves only by a commit whose caller
\* planned it from the very row it replaces.
NoLostUpdate ==
    [][\A t \in Tables :
          LET old == db[TableRowOf(t)]
              new == db'[TableRowOf(t)]
          IN  old # Absent /\ new # Absent /\ old # new =>
                 \E c \in Clients :
                    /\ tx[c].phase = "running" /\ tx'[c] = Idle
                    /\ tx[c].op.kind = "commit_table"
                    /\ tx[c].op.t = t
                    /\ tx[c].op.loaded = old]_vars

\* Properties rows come and go with their namespace: none is left behind by
\* update_namespace_properties racing drop_namespace, which would make
\* create_namespace fail on its second insert ever after.
PropertiesFollowNamespace ==
    \A n \in Namespaces : db[PropertiesRow(n)] = db[NamespaceRow(n)]

\* Every pointer transition has its outbox evidence: each log record of a
\* table was announced by a table.commit event of that version and pointer.
CommitsEvidenced ==
    \A t \in Tables : \A v \in DOMAIN History(t) :
       \E e \in outbox : /\ e.type = "table.commit"
                         /\ e.version = v
                         /\ e.location = History(t)[v].new

\* write_txn gives its caller an answer, however often it is rolled back.
EveryCallReturns ==
    \A c \in Clients : tx[c] # Idle ~> tx[c] = Idle

(* What the store is meant to keep and does not, for want of a row that     *)
(* both transactions write.                                                 *)

\* A hidden table can be brought back: its soft-delete row still describes
\* it, as restore_table and drop_namespace require.
SoftDeleteAgrees ==
    \A t \in Tables :
       db[SoftDeleteRow(t)] # Absent /\ db[TableRowOf(t)] # Absent =>
          ValidForTable(db[SoftDeleteRow(t)], db[TableRowOf(t)])

\* A table is in a namespace that exists.
TablesInNamespaces ==
    \A t \in Tables : db[TableRowOf(t)] # Absent => db[NamespaceRow(t[1])] # Absent
=============================================================================
