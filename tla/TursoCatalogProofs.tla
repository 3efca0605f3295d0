------------------------- MODULE TursoCatalogProofs -------------------------
(***************************************************************************)
(* What holds of TursoCatalog for any number of callers, tables, keys,     *)
(* versions and attempts.  The argument has three layers:                  *)
(*                                                                         *)
(* - the bodies: what a transaction stages, seen as a change of the        *)
(*   database it commits to and not of the snapshot it read (Body, the     *)
(*   lemmas named ...Body, and Effect);                                    *)
(* - the databases: a change of that form keeps a sound database sound     *)
(*   (lemmas ...Sound), and is a step of TablePointer (...Pointers);       *)
(* - the callers: every running transaction still sees what it must for    *)
(*   the first layer to apply when it commits (IInv).                      *)
(***************************************************************************)
EXTENDS TursoCatalog, FiniteSetTheorems, SequenceTheorems, TLAPS

-----------------------------------------------------------------------------
(* The databases that committed transactions leave behind.                  *)

\* The log of a table has a record for each of its versions and no other;
\* a table that is not there has no log.
LogsComplete(d) ==
    \A t \in Tables :
       /\ d[TableRowOf(t)] # Absent => d[TableRowOf(t)].version <= MaxVersion
       /\ \A v \in 1..MaxVersion :
             d[LogRow(t, v)] # Absent <=>
                d[TableRowOf(t)] # Absent /\ v <= d[TableRowOf(t)].version

\* An idempotency record is filed under the dotted name of its own table and
\* describes a record of that table's log.
KeyFiled(d, i) ==
    LET replay == d[IdemRow(i)]
        v   == replay.response.version
        row == d[TableRowOf(replay.table)]
    IN  /\ i[1] = StableId(replay.table)
        /\ row # Absent
        /\ v \in 1..row.version
        /\ d[LogRow(replay.table, v)].new = replay.response.location
        /\ d[LogRow(replay.table, v)].key = i[2]
        /\ d[LogRow(replay.table, v)].request = replay.request

KeysFiled(d) == \A i \in IdemKeys : d[IdemRow(i)] # Absent => KeyFiled(d, i)

PropertiesFollow(d) == \A n \in Namespaces : d[PropertiesRow(n)] = d[NamespaceRow(n)]

Sound(d) == RowTypeOK(d) /\ PropertiesFollow(d) /\ LogsComplete(d) /\ KeysFiled(d)

\* A transaction that read s sees every key of a table whose row nobody has
\* written since: whoever files a record writes the row of its table.
KeysSeen(s, D, d) ==
    \A i \in IdemKeys :
       d[IdemRow(i)] # Absent /\ TableRowOf(d[IdemRow(i)].table) \notin D =>
          s[IdemRow(i)] = d[IdemRow(i)]

\* A call as the request handlers make it.
OpOK(o) == o \in Ops /\ (o.kind = "commit_table" => o.loaded.version < MaxVersion)

\* The operation o read the snapshot s, the rows D were written by others
\* since, and its writes W turn the database d into e.
Body(s, D, d, o, W, e) ==
    /\ Sound(s) /\ Sound(d)
    /\ OpOK(o) /\ Admits(s, o)
    /\ \A r \in Rows \ D : s[r] = d[r]
    /\ KeysSeen(s, D, d)
    /\ W = Writes(s, o)
    /\ DOMAIN W \cap D = {}
    /\ e = [r \in Rows |-> IF r \in DOMAIN W THEN W[r] ELSE d[r]]

-----------------------------------------------------------------------------
(* Row keys: rows of different tables differ, and a key determines what it  *)
(* is the key of.                                                           *)

LEMMA RowKeys ==
    /\ \A n : NamespaceRow(n)[1] = "namespaces" /\ NamespaceRow(n)[2] = n
    /\ \A n : PropertiesRow(n)[1] = "namespace_properties" /\ PropertiesRow(n)[2] = n
    /\ \A t : TableRowOf(t)[1] = "tables" /\ TableRowOf(t)[2] = t
    /\ \A t : SoftDeleteRow(t)[1] = "soft_deletes" /\ SoftDeleteRow(t)[2] = t
    /\ \A t, v : /\ LogRow(t, v)[1] = "metadata_pointer_log"
                 /\ LogRow(t, v)[2] = t /\ LogRow(t, v)[3] = v
    /\ \A i : IdemRow(i)[1] = "idempotency_records" /\ IdemRow(i)[2] = i
    /\ \A v : ViewRow(v)[1] = "views" /\ ViewRow(v)[2] = v
    /\ \A p : PolicyRow(p)[1] = "policy_bindings" /\ PolicyRow(p)[2] = p
BY DEF NamespaceRow, PropertiesRow, TableRowOf, SoftDeleteRow, LogRow, IdemRow,
       ViewRow, PolicyRow

LEMMA RowsThere ==
    /\ \A n \in Namespaces : NamespaceRow(n) \in Rows /\ PropertiesRow(n) \in Rows
    /\ \A t \in Tables : TableRowOf(t) \in Rows /\ SoftDeleteRow(t) \in Rows
    /\ \A t \in Tables : \A v \in 1..MaxVersion : LogRow(t, v) \in Rows
    /\ \A i \in IdemKeys : IdemRow(i) \in Rows
    /\ \A v \in Views : ViewRow(v) \in Rows
    /\ \A p \in Policies : PolicyRow(p) \in Rows
BY DEF Rows, RowsOf

\* A row that the transaction writes is as its body read it.
LEMMA Reads ==
    ASSUME NEW s, NEW D, NEW d, NEW o, NEW W, NEW e, Body(s, D, d, o, W, e)
    PROVE  /\ \A r \in Rows \cap DOMAIN W : e[r] = W[r] /\ d[r] = s[r]
           /\ \A r \in Rows \ DOMAIN W : e[r] = d[r]
BY DEF Body

-----------------------------------------------------------------------------
(* Bodies.  Rows are grouped by what they are about; each lemma says which  *)
(* groups an operation leaves alone and what it makes of the others.        *)

NamespacesOK(d) ==
    \A n \in Namespaces : /\ d[NamespaceRow(n)] \in {Present, Absent}
                          /\ d[PropertiesRow(n)] = d[NamespaceRow(n)]

HiddenOK(d) == \A t \in Tables : d[SoftDeleteRow(t)] \in TableRow \cup {Absent}

OthersOK(d) == /\ \A v \in Views : d[ViewRow(v)] \in {Present, Absent}
               /\ \A p \in Policies : d[PolicyRow(p)] \in PolicyScope \cup {Absent}

PointersOK(d) ==
    /\ \A t \in Tables :
          /\ d[TableRowOf(t)] \in TableRow \cup {Absent}
          /\ \A v \in 1..MaxVersion : d[LogRow(t, v)] \in CommitRecord \cup {Absent}
    /\ \A i \in IdemKeys : d[IdemRow(i)] \in ReplayRow \cup {Absent}

LEMMA SoundParts ==
    ASSUME NEW d
    PROVE  Sound(d) <=> /\ DOMAIN d = Rows
                        /\ NamespacesOK(d) /\ HiddenOK(d) /\ OthersOK(d) /\ PointersOK(d)
                        /\ LogsComplete(d) /\ KeysFiled(d)
BY DEF Sound, RowTypeOK, PropertiesFollow, NamespacesOK, HiddenOK, OthersOK, PointersOK

\* Pointers, logs and keys stay as they are.
PointersKept(d, e) ==
    /\ \A t \in Tables :
          /\ e[TableRowOf(t)] = d[TableRowOf(t)]
          /\ \A v \in 1..MaxVersion : e[LogRow(t, v)] = d[LogRow(t, v)]
    /\ \A i \in IdemKeys : e[IdemRow(i)] = d[IdemRow(i)]

SameNamespaces(d, e) ==
    \A n \in Namespaces : /\ e[NamespaceRow(n)] = d[NamespaceRow(n)]
                          /\ e[PropertiesRow(n)] = d[PropertiesRow(n)]

SameHidden(d, e) == \A t \in Tables : e[SoftDeleteRow(t)] = d[SoftDeleteRow(t)]

SameOthers(d, e) == /\ \A v \in Views : e[ViewRow(v)] = d[ViewRow(v)]
                    /\ \A p \in Policies : e[PolicyRow(p)] = d[PolicyRow(p)]

SideOK(e) == NamespacesOK(e) /\ HiddenOK(e) /\ OthersOK(e)

LEMMA CreateNamespaceBody ==
    ASSUME NEW s, NEW D, NEW d, NEW o, NEW W, NEW e, Body(s, D, d, o, W, e),
           o.kind = "create_namespace"
    PROVE  PointersKept(d, e) /\ SideOK(e)
<1>1. o.n \in Namespaces
  BY DEF Body, OpOK, Ops
<1>2. W = CreateNamespaceWrites(o)
  BY DEF Body, Writes
<1>3. /\ DOMAIN W = {NamespaceRow(o.n), PropertiesRow(o.n)}
      /\ W[NamespaceRow(o.n)] = Present /\ W[PropertiesRow(o.n)] = Present
  BY <1>2 DEF CreateNamespaceWrites, Put, ++
<1>4. SideOK(d)
  BY SoundParts DEF Body, SideOK
<1>5. PointersKept(d, e)
  BY <1>3, Reads, RowKeys, RowsThere DEF PointersKept
<1>6. SameHidden(d, e) /\ SameOthers(d, e)
  BY <1>3, Reads, RowKeys, RowsThere DEF SameHidden, SameOthers
<1>7. NamespacesOK(e)
  <2> SUFFICES ASSUME NEW n \in Namespaces
               PROVE  /\ e[NamespaceRow(n)] \in {Present, Absent}
                      /\ e[PropertiesRow(n)] = e[NamespaceRow(n)]
    BY DEF NamespacesOK
  <2>1. CASE n = o.n
    BY <1>3, <2>1, Reads, RowKeys, RowsThere
  <2>2. CASE n # o.n
    BY <1>3, <1>4, <2>2, Reads, RowKeys, RowsThere DEF SideOK, NamespacesOK
  <2> QED BY <2>1, <2>2
<1> QED BY <1>4, <1>5, <1>6, <1>7 DEF SideOK, HiddenOK, OthersOK, SameHidden, SameOthers

\* The body read that the namespace is there.  Nobody has written the
\* properties row since, and drop_namespace would have: it still is.
LEMMA UpdatePropertiesBody ==
    ASSUME NEW s, NEW D, NEW d, NEW o, NEW W, NEW e, Body(s, D, d, o, W, e),
           o.kind = "update_namespace_properties"
    PROVE  PointersKept(d, e) /\ SideOK(e)
<1>1. o.n \in Namespaces
  BY DEF Body, OpOK, Ops
<1>2. W = UpdatePropertiesWrites(o) /\ UpdatePropertiesAdmits(s, o)
  BY DEF Body, Writes, Admits
<1>3. DOMAIN W = {PropertiesRow(o.n)} /\ W[PropertiesRow(o.n)] = Present
  BY <1>2 DEF UpdatePropertiesWrites, Put
<1>4. SideOK(d) /\ NamespacesOK(s)
  BY SoundParts DEF Body, SideOK
<1>5. s[PropertiesRow(o.n)] = Present
  BY <1>1, <1>2, <1>4 DEF UpdatePropertiesAdmits, NamespacesOK
<1>6. d[PropertiesRow(o.n)] = Present
  BY <1>1, <1>3, <1>5, Reads, RowsThere
<1>7. PointersKept(d, e)
  BY <1>3, Reads, RowKeys, RowsThere DEF PointersKept
<1>8. SameNamespaces(d, e) /\ SameHidden(d, e) /\ SameOthers(d, e)
  BY <1>1, <1>3, <1>6, Reads, RowKeys, RowsThere DEF SameNamespaces, SameHidden, SameOthers
<1> QED BY <1>4, <1>7, <1>8
        DEF SideOK, NamespacesOK, HiddenOK, OthersOK, SameNamespaces, SameHidden, SameOthers

\* soft_delete_table and restore_table write a row of their own.
LEMMA SoftDeleteBody ==
    ASSUME NEW s, NEW D, NEW d, NEW o, NEW W, NEW e, Body(s, D, d, o, W, e),
           o.kind \in {"soft_delete_table", "restore_table"}
    PROVE  PointersKept(d, e) /\ SideOK(e)
<1>1. o.t \in Tables
  BY DEF Body, OpOK, Ops
<1>2. /\ DOMAIN W \subseteq {SoftDeleteRow(o.t)}
      /\ SoftDeleteRow(o.t) \in DOMAIN W =>
            W[SoftDeleteRow(o.t)] \in {s[TableRowOf(o.t)], Absent}
  <2>1. CASE o.kind = "soft_delete_table"
    <3>1. W = SoftDeleteTableWrites(s, o)
      BY <2>1 DEF Body, Writes
    <3> QED BY <3>1 DEF SoftDeleteTableWrites, Put
  <2>2. CASE o.kind = "restore_table"
    <3>1. W = RestoreTableWrites(s, o)
      BY <2>2 DEF Body, Writes
    <3> QED BY <3>1 DEF RestoreTableWrites, Deleted
  <2> QED BY <2>1, <2>2
<1>3. SideOK(d) /\ PointersOK(s)
  BY SoundParts DEF Body, SideOK
<1>4. PointersKept(d, e)
  BY <1>2, Reads, RowKeys, RowsThere DEF PointersKept
<1>5. SameNamespaces(d, e) /\ SameOthers(d, e)
  BY <1>2, Reads, RowKeys, RowsThere DEF SameNamespaces, SameOthers
<1>6. HiddenOK(e)
  <2> SUFFICES ASSUME NEW t \in Tables PROVE e[SoftDeleteRow(t)] \in TableRow \cup {Absent}
    BY DEF HiddenOK
  <2>1. e[SoftDeleteRow(t)] \in {d[SoftDeleteRow(t)], s[TableRowOf(t)], Absent}
    BY <1>2, Reads, RowKeys, RowsThere
  <2> QED BY <1>3, <2>1 DEF SideOK, HiddenOK, PointersOK
<1> QED BY <1>3, <1>4, <1>5, <1>6 DEF SideOK, NamespacesOK, OthersOK, SameNamespaces, SameOthers

LEMMA ViewBody ==
    ASSUME NEW s, NEW D, NEW d, NEW o, NEW W, NEW e, Body(s, D, d, o, W, e),
           o.kind \in {"upsert_view", "drop_view"}
    PROVE  PointersKept(d, e) /\ SideOK(e)
<1>1. /\ DOMAIN W \subseteq {ViewRow(o.v)}
      /\ ViewRow(o.v) \in DOMAIN W => W[ViewRow(o.v)] \in {Present, Absent}
  <2>1. CASE o.kind = "upsert_view"
    <3>1. W = UpsertViewWrites(o)
      BY <2>1 DEF Body, Writes
    <3> QED BY <3>1 DEF UpsertViewWrites, Put
  <2>2. CASE o.kind = "drop_view"
    <3>1. W = DropViewWrites(s, o)
      BY <2>2 DEF Body, Writes
    <3> QED BY <3>1 DEF DropViewWrites, Deleted
  <2> QED BY <2>1, <2>2
<1>2. SideOK(d)
  BY SoundParts DEF Body, SideOK
<1>3. PointersKept(d, e)
  BY <1>1, Reads, RowKeys, RowsThere DEF PointersKept
<1>4. SameNamespaces(d, e) /\ SameHidden(d, e)
  BY <1>1, Reads, RowKeys, RowsThere DEF SameNamespaces, SameHidden
<1>5. OthersOK(e)
  <2>1. \A v \in Views : e[ViewRow(v)] \in {d[ViewRow(v)], Present, Absent}
    BY <1>1, Reads, RowKeys, RowsThere
  <2>2. \A p \in Policies : e[PolicyRow(p)] = d[PolicyRow(p)]
    BY <1>1, Reads, RowKeys, RowsThere
  <2> QED BY <1>2, <2>1, <2>2 DEF SideOK, OthersOK
<1> QED BY <1>2, <1>3, <1>4, <1>5 DEF SideOK, NamespacesOK, HiddenOK, SameNamespaces, SameHidden

LEMMA PolicyBody ==
    ASSUME NEW s, NEW D, NEW d, NEW o, NEW W, NEW e, Body(s, D, d, o, W, e),
           o.kind = "upsert_policy_binding"
    PROVE  PointersKept(d, e) /\ SideOK(e)
<1>1. o.scope \in PolicyScope
  BY DEF Body, OpOK, Ops
<1>2. W = UpsertPolicyWrites(o)
  BY DEF Body, Writes
<1>3. DOMAIN W = {PolicyRow(o.p)} /\ W[PolicyRow(o.p)] = o.scope
  BY <1>2 DEF UpsertPolicyWrites, Put
<1>4. SideOK(d)
  BY SoundParts DEF Body, SideOK
<1>5. PointersKept(d, e)
  BY <1>3, Reads, RowKeys, RowsThere DEF PointersKept
<1>6. SameNamespaces(d, e) /\ SameHidden(d, e)
  BY <1>3, Reads, RowKeys, RowsThere DEF SameNamespaces, SameHidden
<1>7. OthersOK(e)
  <2>1. \A v \in Views : e[ViewRow(v)] = d[ViewRow(v)]
    BY <1>3, Reads, RowKeys, RowsThere
  <2>2. \A p \in Policies : e[PolicyRow(p)] \in {d[PolicyRow(p)], o.scope}
    BY <1>3, Reads, RowKeys, RowsThere
  <2> QED BY <1>1, <1>4, <2>1, <2>2 DEF SideOK, OthersOK
<1> QED BY <1>4, <1>5, <1>6, <1>7 DEF SideOK, NamespacesOK, HiddenOK, SameNamespaces, SameHidden

\* The four ways in which a transaction changes pointers, logs and keys.
LogsKept(d, e) ==
    \A t \in Tables : \A v \in 1..MaxVersion : e[LogRow(t, v)] = d[LogRow(t, v)]

KeysKept(d, e) == \A i \in IdemKeys : e[IdemRow(i)] = d[IdemRow(i)]

Created(d, e, t, loc) ==
    /\ d[TableRowOf(t)] = Absent
    /\ \A u \in Tables :
          e[TableRowOf(u)] = IF u = t THEN NewTable(loc) ELSE d[TableRowOf(u)]
    /\ LogsKept(d, e) /\ KeysKept(d, e)

\* The keys of the tables in T are forgotten and no others, and none is learnt.
Forgotten(d, e, T) ==
    \A i \in IdemKeys :
       /\ e[IdemRow(i)] # Absent => e[IdemRow(i)] = d[IdemRow(i)] /\ d[IdemRow(i)].table \notin T
       /\ d[IdemRow(i)] # Absent /\ d[IdemRow(i)].table \notin T =>
             e[IdemRow(i)] = d[IdemRow(i)]

Committed(d, e, o) ==
    LET row    == d[TableRowOf(o.t)]
        replay == [table |-> o.t, request |-> o.request, response |-> Advanced(row, o.loc)]
    IN  /\ row = o.loaded
        /\ \A u \in Tables :
              e[TableRowOf(u)] = IF u = o.t THEN Advanced(row, o.loc) ELSE d[TableRowOf(u)]
        /\ \A u \in Tables : \A v \in 1..MaxVersion :
              e[LogRow(u, v)] = IF u = o.t /\ v = row.version + 1
                                THEN CommitRecordOf(row, o.loc, o.key, o.request)
                                ELSE d[LogRow(u, v)]
        /\ o.key # NoKey => d[IdemRow(IdemKey(o.t, o.key))] = Absent
        /\ \A i \in IdemKeys :
              e[IdemRow(i)] = IF o.key # NoKey /\ i = IdemKey(o.t, o.key)
                              THEN replay ELSE d[IdemRow(i)]

Renamed(d, e, t, u) ==
    /\ d[TableRowOf(t)] # Absent /\ d[TableRowOf(u)] = Absent
    /\ \A x \in Tables :
          /\ e[TableRowOf(x)] = IF x = t THEN Absent
                                ELSE IF x = u THEN d[TableRowOf(t)] ELSE d[TableRowOf(x)]
          /\ \A v \in 1..MaxVersion :
                e[LogRow(x, v)] = IF x = t THEN Absent
                                  ELSE IF x = u THEN d[LogRow(t, v)] ELSE d[LogRow(x, v)]
    /\ Forgotten(d, e, {t, u})

Retired(d, e, S) ==
    /\ \A x \in Tables :
          /\ e[TableRowOf(x)] = IF x \in S THEN Absent ELSE d[TableRowOf(x)]
          /\ \A v \in 1..MaxVersion :
                e[LogRow(x, v)] = IF x \in S THEN Absent ELSE d[LogRow(x, v)]
    /\ Forgotten(d, e, S)

LEMMA CreateTableBody ==
    ASSUME NEW s, NEW D, NEW d, NEW o, NEW W, NEW e, Body(s, D, d, o, W, e),
           o.kind = "create_table"
    PROVE  Created(d, e, o.t, o.loc) /\ SideOK(e)
<1>1. o.t \in Tables /\ o.loc \in MetadataLocations
  BY DEF Body, OpOK, Ops
<1>2. W = CreateTableWrites(o) /\ CreateTableAdmits(s, o)
  BY DEF Body, Writes, Admits
<1>3. DOMAIN W = {TableRowOf(o.t)} /\ W[TableRowOf(o.t)] = NewTable(o.loc)
  BY <1>2 DEF CreateTableWrites, Put
<1>4. SideOK(d)
  BY SoundParts DEF Body, SideOK
<1>5. LogsKept(d, e) /\ KeysKept(d, e)
  BY <1>3, Reads, RowKeys, RowsThere DEF LogsKept, KeysKept
<1>6. SameNamespaces(d, e) /\ SameHidden(d, e) /\ SameOthers(d, e)
  BY <1>3, Reads, RowKeys, RowsThere DEF SameNamespaces, SameHidden, SameOthers
<1>7. d[TableRowOf(o.t)] = Absent
  BY <1>1, <1>2, <1>3, Reads, RowsThere DEF CreateTableAdmits
<1>8. \A u \in Tables :
         e[TableRowOf(u)] = IF u = o.t THEN NewTable(o.loc) ELSE d[TableRowOf(u)]
  BY <1>3, Reads, RowKeys, RowsThere
<1>9. SideOK(e)
  BY <1>4, <1>6 DEF SideOK, NamespacesOK, HiddenOK, OthersOK, SameNamespaces, SameHidden, SameOthers
<1> QED BY <1>5, <1>7, <1>8, <1>9 DEF Created

\* The row a commit replaces is the row its caller loaded, not merely the row
\* in its snapshot, and its key is not in use.
LEMMA CommitTableBody ==
    ASSUME NEW s, NEW D, NEW d, NEW o, NEW W, NEW e, Body(s, D, d, o, W, e),
           o.kind = "commit_table"
    PROVE  Committed(d, e, o) /\ SideOK(e) /\ TableRowOf(o.t) \in DOMAIN W
<1> DEFINE row == s[TableRowOf(o.t)]
           n == row.version + 1
           replay == [table |-> o.t, request |-> o.request, response |-> Advanced(row, o.loc)]
           rec == CommitRecordOf(row, o.loc, o.key, o.request)
           K == IF o.key = NoKey THEN {} ELSE {IdemRow(IdemKey(o.t, o.key))}
<1>1. /\ o.t \in Tables /\ o.loaded \in TableRow /\ o.loaded.version < MaxVersion
      /\ o.key \in Keys \cup {NoKey}
  BY DEF Body, OpOK, Ops
<1>2. W = CommitTableWrites(s, o) /\ CommitTableAdmits(s, o)
  BY DEF Body, Writes, Admits
<1>3. row \in TableRow
  BY <1>1, <1>2, SoundParts DEF CommitTableAdmits, TableVisible, Body, PointersOK
<1>4. row = o.loaded
  BY <1>1, <1>2, <1>3 DEF CommitTableAdmits, TableRow
<1>5. n \in 1..MaxVersion
  BY <1>1, <1>4, TursoAssumption DEF TableRow
<1>6. Advanced(row, o.loc).version = n
  BY DEF Advanced
<1>7. /\ DOMAIN W = {TableRowOf(o.t), LogRow(o.t, n)} \cup K
      /\ W[TableRowOf(o.t)] = Advanced(row, o.loc)
      /\ W[LogRow(o.t, n)] = rec
      /\ o.key # NoKey => W[IdemRow(IdemKey(o.t, o.key))] = replay
  <2> HIDE DEF rec, replay, row, n
  <2>1. W = Put(TableRowOf(o.t), Advanced(row, o.loc)) ++ Put(LogRow(o.t, n), rec)
            ++ (IF o.key = NoKey THEN <<>> ELSE Put(IdemRow(IdemKey(o.t, o.key)), replay))
    BY <1>2, <1>6 DEF CommitTableWrites, rec, replay, row, n
  <2>2. CASE o.key = NoKey
    BY <2>1, <2>2, RowKeys DEF Put, ++
  <2>3. CASE o.key # NoKey
    BY <2>1, <2>3, RowKeys DEF Put, ++
  <2> QED BY <2>2, <2>3
<1> HIDE DEF rec, replay, n
<1>8. d[TableRowOf(o.t)] = row
  BY <1>1, <1>7, Reads, RowsThere
<1>9. o.key # NoKey => IdemKey(o.t, o.key) \in IdemKeys
  BY <1>1 DEF IdemKeys
<1>10. o.key # NoKey => d[IdemRow(IdemKey(o.t, o.key))] = Absent
  BY <1>2, <1>7, <1>9, Reads, RowsThere DEF CommitTableAdmits
<1> HIDE DEF row
<1>11. \A u \in Tables :
          e[TableRowOf(u)] = IF u = o.t THEN Advanced(row, o.loc) ELSE d[TableRowOf(u)]
  BY <1>7, Reads, RowKeys, RowsThere
<1>12. \A u \in Tables : \A v \in 1..MaxVersion :
          e[LogRow(u, v)] = IF u = o.t /\ v = n THEN rec ELSE d[LogRow(u, v)]
  BY <1>7, Reads, RowKeys, RowsThere
<1>13. \A i \in IdemKeys :
          e[IdemRow(i)] = IF o.key # NoKey /\ i = IdemKey(o.t, o.key)
                          THEN replay ELSE d[IdemRow(i)]
  BY <1>7, Reads, RowKeys, RowsThere
<1>14. Committed(d, e, o)
  BY <1>4, <1>8, <1>10, <1>11, <1>12, <1>13 DEF Committed, rec, replay, n
<1>15. SameNamespaces(d, e) /\ SameHidden(d, e) /\ SameOthers(d, e)
  BY <1>7, Reads, RowKeys, RowsThere DEF SameNamespaces, SameHidden, SameOthers
<1>16. SideOK(d)
  BY SoundParts DEF Body, SideOK
<1> QED
  BY <1>7, <1>14, <1>15, <1>16
     DEF SideOK, NamespacesOK, HiddenOK, OthersOK, SameNamespaces, SameHidden, SameOthers

\* Two databases that agree on a table's row have the same records in its log.
LEMMA SameRowSameLog ==
    ASSUME NEW s, NEW d, LogsComplete(s), LogsComplete(d), NEW t \in Tables,
           d[TableRowOf(t)] = s[TableRowOf(t)], NEW v \in 1..MaxVersion
    PROVE  d[LogRow(t, v)] # Absent <=> s[LogRow(t, v)] # Absent
BY DEF LogsComplete

\* A rename moves the whole log as it is now: the table's row was not written
\* since the snapshot, so no record was added to the log either.
LEMMA RenameTableBody ==
    ASSUME NEW s, NEW D, NEW d, NEW o, NEW W, NEW e, Body(s, D, d, o, W, e),
           o.kind = "rename_table"
    PROVE  /\ o.t \in Tables /\ o.d \in Tables
           /\ Renamed(d, e, o.t, o.d) /\ SideOK(e)
<1> DEFINE versions == {v \in 1..MaxVersion : s[LogRow(o.t, v)] # Absent}
           bound == {p \in Policies :
                        s[PolicyRow(p)] = [namespace |-> o.t[1], table |-> o.t[2]]}
           moved == [r \in {LogRow(o.d, v) : v \in versions} |-> s[LogRow(o.t, r[3])]]
           gone == Deleted(s, LogRows(o.t)
                              \cup {IdemRow(i) : i \in {i \in IdemKeys : i[1] = StableId(o.t)}})
           scope == [namespace |-> o.d[1], table |-> o.d[2]]
           policies == [r \in {PolicyRow(p) : p \in bound} |-> scope]
<1>1. o.t \in Tables /\ o.d \in Tables
  BY DEF Body, OpOK, Ops
<1>2. W = RenameTableWrites(s, o) /\ RenameTableAdmits(s, o)
  BY DEF Body, Writes, Admits
<1>3. o.t # o.d
  BY <1>2 DEF RenameTableAdmits, TableVisible
<1>4. W = Put(TableRowOf(o.t), Absent) ++ Put(TableRowOf(o.d), s[TableRowOf(o.t)])
          ++ moved ++ gone ++ policies
  BY <1>2 DEF RenameTableWrites
<1>5. /\ \A r : r \in DOMAIN gone <=>
            /\ s[r] # Absent
            /\ \/ \E v \in 1..MaxVersion : r = LogRow(o.t, v)
               \/ \E i \in IdemKeys : i[1] = StableId(o.t) /\ r = IdemRow(i)
      /\ \A r \in DOMAIN gone : gone[r] = Absent
  BY DEF Deleted, LogRows
<1>6. /\ DOMAIN moved = {LogRow(o.d, v) : v \in versions}
      /\ \A v \in versions : moved[LogRow(o.d, v)] = s[LogRow(o.t, v)]
  BY RowKeys
<1>7. /\ DOMAIN policies = {PolicyRow(p) : p \in bound}
      /\ \A r \in DOMAIN policies : policies[r] = scope
  OBVIOUS
<1> HIDE DEF gone, moved, policies
<1> DEFINE rows == Put(TableRowOf(o.t), Absent) ++ Put(TableRowOf(o.d), s[TableRowOf(o.t)])
           logs == rows ++ moved
           most == logs ++ gone
<1>8. /\ DOMAIN rows = {TableRowOf(o.t), TableRowOf(o.d)}
      /\ rows[TableRowOf(o.t)] = Absent /\ rows[TableRowOf(o.d)] = s[TableRowOf(o.t)]
  BY <1>3, RowKeys DEF Put, ++
<1>9. W = most ++ policies
  BY <1>4
<1> HIDE DEF rows
<1>10. /\ DOMAIN logs = DOMAIN rows \cup DOMAIN moved
       /\ \A r \in DOMAIN rows : logs[r] = rows[r]
       /\ \A r \in DOMAIN moved : r \notin DOMAIN rows => logs[r] = moved[r]
  BY DEF ++
<1> HIDE DEF logs
<1>11. /\ DOMAIN most = DOMAIN logs \cup DOMAIN gone
       /\ \A r \in DOMAIN logs : most[r] = logs[r]
       /\ \A r \in DOMAIN gone : r \notin DOMAIN logs => most[r] = gone[r]
  BY DEF ++
<1> HIDE DEF most
<1>12. /\ DOMAIN W = DOMAIN most \cup DOMAIN policies
       /\ \A r \in DOMAIN most : W[r] = most[r]
       /\ \A r \in DOMAIN policies : r \notin DOMAIN most => W[r] = policies[r]
  BY <1>9 DEF ++
<1>13. /\ \A r \in DOMAIN moved : r \notin DOMAIN rows
       /\ \A r \in DOMAIN gone : r \notin DOMAIN rows /\ r \notin DOMAIN moved
       /\ \A r \in DOMAIN policies :
             r \notin DOMAIN rows /\ r \notin DOMAIN moved /\ r \notin DOMAIN gone
  BY <1>3, <1>5, <1>6, <1>7, <1>8, RowKeys
<1>14. /\ DOMAIN W = {TableRowOf(o.t), TableRowOf(o.d)} \cup DOMAIN moved \cup DOMAIN gone
                     \cup DOMAIN policies
       /\ W[TableRowOf(o.t)] = Absent /\ W[TableRowOf(o.d)] = s[TableRowOf(o.t)]
       /\ \A r \in DOMAIN moved : W[r] = moved[r]
       /\ \A r \in DOMAIN gone : W[r] = Absent
       /\ \A r \in DOMAIN policies : W[r] = scope
  BY <1>5, <1>7, <1>8, <1>10, <1>11, <1>12, <1>13
<1>15. /\ d[TableRowOf(o.t)] = s[TableRowOf(o.t)] /\ d[TableRowOf(o.d)] = s[TableRowOf(o.d)]
  BY <1>1, <1>14, Reads, RowsThere
<1>16. LogsComplete(s) /\ LogsComplete(d)
  BY DEF Body, Sound
<1>17. d[TableRowOf(o.t)] # Absent /\ d[TableRowOf(o.d)] = Absent
  BY <1>2, <1>15 DEF RenameTableAdmits, TableVisible
<1>18. ASSUME NEW x \in Tables
       PROVE  e[TableRowOf(x)] = IF x = o.t THEN Absent
                                 ELSE IF x = o.d THEN d[TableRowOf(o.t)] ELSE d[TableRowOf(x)]
  BY <1>5, <1>6, <1>7, <1>14, <1>15, Reads, RowKeys, RowsThere
<1>19. ASSUME NEW x \in Tables, NEW v \in 1..MaxVersion
       PROVE  e[LogRow(x, v)] = IF x = o.t THEN Absent
                                ELSE IF x = o.d THEN d[LogRow(o.t, v)] ELSE d[LogRow(x, v)]
  <2>1. d[LogRow(o.t, v)] # Absent <=> s[LogRow(o.t, v)] # Absent
    BY <1>1, <1>15, <1>16, SameRowSameLog
  <2>2. d[LogRow(o.d, v)] = Absent
    BY <1>1, <1>16, <1>17 DEF LogsComplete
  <2>3. CASE x = o.t
    <3>1. CASE s[LogRow(o.t, v)] # Absent
      <4>1. LogRow(o.t, v) \in DOMAIN gone
        BY <1>5, <3>1
      <4> QED BY <1>14, <2>3, <4>1, Reads, RowsThere
    <3>2. CASE s[LogRow(o.t, v)] = Absent
      <4>1. LogRow(o.t, v) \notin DOMAIN W
        BY <1>3, <1>5, <1>6, <1>7, <1>14, <3>2, RowKeys
      <4> QED BY <2>1, <2>3, <3>2, <4>1, Reads, RowsThere
    <3> QED BY <3>1, <3>2
  <2>4. CASE x = o.d
    <3>1. CASE s[LogRow(o.t, v)] # Absent
      <4>1. LogRow(o.t, v) \in DOMAIN gone /\ LogRow(o.d, v) \in DOMAIN moved
        BY <1>5, <1>6, <3>1
      <4>2. d[LogRow(o.t, v)] = s[LogRow(o.t, v)]
        BY <1>1, <1>14, <4>1, Reads, RowsThere
      <4>3. W[LogRow(o.d, v)] = s[LogRow(o.t, v)]
        BY <1>6, <1>14, <3>1, <4>1
      <4> QED BY <1>3, <1>14, <2>4, <4>1, <4>2, <4>3, Reads, RowsThere
    <3>2. CASE s[LogRow(o.t, v)] = Absent
      <4>1. LogRow(o.d, v) \notin DOMAIN W
        BY <1>3, <1>5, <1>6, <1>7, <1>14, <3>2, RowKeys
      <4> QED BY <1>3, <2>1, <2>2, <2>4, <3>2, <4>1, Reads, RowsThere
    <3> QED BY <3>1, <3>2
  <2>5. CASE x # o.t /\ x # o.d
    <3>1. LogRow(x, v) \notin DOMAIN W
      BY <1>5, <1>6, <1>7, <1>14, <2>5, RowKeys
    <3> QED BY <2>5, <3>1, Reads, RowsThere
  <2> QED BY <2>3, <2>4, <2>5
<1>20. Forgotten(d, e, {o.t, o.d})
  <2>1. ASSUME NEW i \in IdemKeys, e[IdemRow(i)] # Absent
        PROVE  /\ e[IdemRow(i)] = d[IdemRow(i)]
               /\ d[IdemRow(i)].table \notin {o.t, o.d}
    <3>1. IdemRow(i) \notin DOMAIN gone
      BY <1>14, <2>1, Reads, RowsThere
    <3>2. IdemRow(i) \notin DOMAIN W
      BY <1>6, <1>7, <1>14, <3>1, RowKeys
    <3>3. e[IdemRow(i)] = d[IdemRow(i)]
      BY <3>2, Reads, RowsThere
    <3>4. ASSUME d[IdemRow(i)].table \in {o.t, o.d} PROVE FALSE
      <4>1. TableRowOf(d[IdemRow(i)].table) \notin D
        BY <1>14, <3>4 DEF Body
      <4>2. s[IdemRow(i)] = d[IdemRow(i)]
        BY <2>1, <3>3, <4>1 DEF Body, KeysSeen
      <4>3. i[1] = StableId(o.t)
        BY <1>2, <2>1, <3>3, <3>4, <4>2 DEF RenameTableAdmits, IdempotencyAllowsRename
      <4> QED BY <1>5, <2>1, <3>1, <3>3, <4>2, <4>3
    <3> QED BY <3>3, <3>4
  <2>2. ASSUME NEW i \in IdemKeys, d[IdemRow(i)].table \notin {o.t, o.d}
        PROVE  e[IdemRow(i)] = d[IdemRow(i)]
    <3>1. CASE IdemRow(i) \in DOMAIN W
      <4>1. IdemRow(i) \in DOMAIN gone
        BY <1>6, <1>7, <1>14, <3>1, RowKeys
      <4>2. s[IdemRow(i)] # Absent /\ i[1] = StableId(o.t)
        BY <1>5, <4>1, RowKeys
      <4>3. s[IdemRow(i)].table = o.t
        BY <1>2, <4>2 DEF RenameTableAdmits, IdempotencyAllowsRename
      <4>4. s[IdemRow(i)] = d[IdemRow(i)]
        BY <3>1, Reads, RowsThere
      <4> QED BY <2>2, <4>3, <4>4
    <3>2. CASE IdemRow(i) \notin DOMAIN W
      BY <3>2, Reads, RowsThere
    <3> QED BY <3>1, <3>2
  <2> QED BY <2>1, <2>2 DEF Forgotten
<1>21. Renamed(d, e, o.t, o.d)
  BY <1>17, <1>18, <1>19, <1>20 DEF Renamed
<1>22. SideOK(d)
  BY SoundParts DEF Body, SideOK
<1>23. SameNamespaces(d, e) /\ SameHidden(d, e)
  BY <1>5, <1>6, <1>7, <1>14, Reads, RowKeys, RowsThere DEF SameNamespaces, SameHidden
<1>24. OthersOK(e)
  <2>1. scope \in PolicyScope
    <3>1. o.d[1] \in Namespaces /\ o.d[2] \in Names
      BY <1>1 DEF Tables
    <3> QED BY <3>1, SentinelAssumption DEF PolicyScope
  <2> HIDE DEF scope
  <2>2. \A v \in Views : e[ViewRow(v)] = d[ViewRow(v)]
    BY <1>5, <1>6, <1>7, <1>14, Reads, RowKeys, RowsThere
  <2>3. ASSUME NEW p \in Policies PROVE e[PolicyRow(p)] \in {d[PolicyRow(p)], scope}
    <3>1. CASE PolicyRow(p) \in DOMAIN policies
      BY <1>14, <3>1, Reads, RowsThere
    <3>2. CASE PolicyRow(p) \notin DOMAIN policies
      <4>1. PolicyRow(p) \notin DOMAIN W
        BY <1>5, <1>6, <1>14, <3>2, RowKeys
      <4> QED BY <4>1, Reads, RowsThere
    <3> QED BY <3>1, <3>2
  <2> QED BY <1>22, <2>1, <2>2, <2>3 DEF SideOK, OthersOK
<1> QED
  BY <1>1, <1>21, <1>22, <1>23, <1>24
     DEF SideOK, NamespacesOK, HiddenOK, SameNamespaces, SameHidden

\* The same for the tables that a namespace drop retires.
LEMMA DropNamespaceBody ==
    ASSUME NEW s, NEW D, NEW d, NEW o, NEW W, NEW e, Body(s, D, d, o, W, e),
           o.kind = "drop_namespace"
    PROVE  (\E S \in SUBSET Tables : Retired(d, e, S)) /\ SideOK(e)
<1> DEFINE S == {t \in Tables : t[1] = o.n /\ s[SoftDeleteRow(t)] # Absent}
           keys == {i \in IdemKeys : s[IdemRow(i)] # Absent /\ s[IdemRow(i)].table \in S}
<1>1. o.n \in Namespaces
  BY DEF Body, OpOK, Ops
<1>2. W = DropNamespaceWrites(s, o) /\ DropNamespaceAdmits(s, o)
  BY DEF Body, Writes, Admits
<1>3. W = Deleted(s, {NamespaceRow(o.n), PropertiesRow(o.n)} \cup {IdemRow(i) : i \in keys}
                     \cup RowsOf(S))
  BY <1>2 DEF DropNamespaceWrites
<1>4. \A t \in S : s[TableRowOf(t)] # Absent
  BY <1>2 DEF DropNamespaceAdmits
<1> HIDE DEF S, keys
<1>5. /\ \A r : r \in DOMAIN W <=>
            /\ s[r] # Absent
            /\ \/ r = NamespaceRow(o.n) \/ r = PropertiesRow(o.n)
               \/ \E i \in keys : r = IdemRow(i)
               \/ \E t \in S : r = TableRowOf(t) \/ r = SoftDeleteRow(t)
               \/ \E t \in S : \E v \in 1..MaxVersion : r = LogRow(t, v)
      /\ \A r \in DOMAIN W : W[r] = Absent
  BY <1>3 DEF Deleted, RowsOf
<1>6. S \subseteq Tables /\ keys \subseteq IdemKeys
  BY DEF S, keys
<1>7. LogsComplete(s) /\ LogsComplete(d)
  BY DEF Body, Sound
<1>8. \A t \in S : TableRowOf(t) \in DOMAIN W /\ d[TableRowOf(t)] = s[TableRowOf(t)]
  BY <1>4, <1>5, <1>6, Reads, RowsThere
<1>9. ASSUME NEW x \in Tables
      PROVE  e[TableRowOf(x)] = IF x \in S THEN Absent ELSE d[TableRowOf(x)]
  <2>1. CASE x \in S
    BY <1>5, <1>8, <2>1, Reads, RowsThere
  <2>2. CASE x \notin S
    <3>1. TableRowOf(x) \notin DOMAIN W
      BY <1>5, <2>2, RowKeys
    <3> QED BY <2>2, <3>1, Reads, RowsThere
  <2> QED BY <2>1, <2>2
<1>10. ASSUME NEW x \in Tables, NEW v \in 1..MaxVersion
       PROVE  e[LogRow(x, v)] = IF x \in S THEN Absent ELSE d[LogRow(x, v)]
  <2>1. CASE x \in S /\ s[LogRow(x, v)] # Absent
    <3>1. LogRow(x, v) \in DOMAIN W
      BY <1>5, <2>1
    <3> QED BY <1>5, <2>1, <3>1, Reads, RowsThere
  <2>2. CASE x \in S /\ s[LogRow(x, v)] = Absent
    <3>1. d[LogRow(x, v)] = Absent
      BY <1>7, <1>8, <2>2, SameRowSameLog
    <3>2. LogRow(x, v) \notin DOMAIN W
      BY <1>5, <2>2
    <3> QED BY <2>2, <3>1, <3>2, Reads, RowsThere
  <2>3. CASE x \notin S
    <3>1. LogRow(x, v) \notin DOMAIN W
      BY <1>5, <2>3, RowKeys
    <3> QED BY <2>3, <3>1, Reads, RowsThere
  <2> QED BY <2>1, <2>2, <2>3
<1>11. Forgotten(d, e, S)
  <2>1. ASSUME NEW i \in IdemKeys, e[IdemRow(i)] # Absent
        PROVE  e[IdemRow(i)] = d[IdemRow(i)] /\ d[IdemRow(i)].table \notin S
    <3>1. IdemRow(i) \notin DOMAIN W
      BY <1>5, <2>1, Reads, RowsThere
    <3>2. e[IdemRow(i)] = d[IdemRow(i)]
      BY <3>1, Reads, RowsThere
    <3>3. ASSUME d[IdemRow(i)].table \in S PROVE FALSE
      <4>1. TableRowOf(d[IdemRow(i)].table) \notin D
        BY <1>8, <3>3 DEF Body
      <4>2. s[IdemRow(i)] = d[IdemRow(i)]
        BY <2>1, <3>2, <4>1 DEF Body, KeysSeen
      <4>3. i \in keys
        BY <2>1, <3>2, <3>3, <4>2 DEF keys
      <4> QED BY <1>5, <2>1, <3>1, <3>2, <4>2, <4>3
    <3> QED BY <3>2, <3>3
  <2>2. ASSUME NEW i \in IdemKeys, d[IdemRow(i)].table \notin S
        PROVE  e[IdemRow(i)] = d[IdemRow(i)]
    <3>1. CASE IdemRow(i) \in DOMAIN W
      <4>1. i \in keys
        BY <1>5, <1>6, <3>1, RowKeys
      <4>2. s[IdemRow(i)] = d[IdemRow(i)]
        BY <3>1, Reads, RowsThere
      <4> QED BY <2>2, <4>1, <4>2 DEF keys
    <3>2. CASE IdemRow(i) \notin DOMAIN W
      BY <3>2, Reads, RowsThere
    <3> QED BY <3>1, <3>2
  <2> QED BY <2>1, <2>2 DEF Forgotten
<1>12. Retired(d, e, S)
  BY <1>9, <1>10, <1>11 DEF Retired
<1>13. SideOK(d) /\ NamespacesOK(s)
  BY SoundParts DEF Body, SideOK
<1>14. HiddenOK(e)
  <2> SUFFICES ASSUME NEW t \in Tables PROVE e[SoftDeleteRow(t)] \in TableRow \cup {Absent}
    BY DEF HiddenOK
  <2>1. e[SoftDeleteRow(t)] \in {d[SoftDeleteRow(t)], Absent}
    BY <1>5, Reads, RowsThere
  <2> QED BY <1>13, <2>1 DEF SideOK, HiddenOK
<1>15. SameOthers(d, e)
  BY <1>5, Reads, RowKeys, RowsThere DEF SameOthers
<1>16. NamespacesOK(e)
  <2> SUFFICES ASSUME NEW n \in Namespaces
               PROVE  /\ e[NamespaceRow(n)] \in {Present, Absent}
                      /\ e[PropertiesRow(n)] = e[NamespaceRow(n)]
    BY DEF NamespacesOK
  <2>1. CASE n = o.n /\ s[NamespaceRow(n)] # Absent
    <3>1. NamespaceRow(n) \in DOMAIN W /\ PropertiesRow(n) \in DOMAIN W
      BY <1>5, <1>13, <2>1 DEF NamespacesOK
    <3> QED BY <1>5, <3>1, Reads, RowsThere
  <2>2. CASE ~(n = o.n /\ s[NamespaceRow(n)] # Absent)
    <3>1. NamespaceRow(n) \notin DOMAIN W /\ PropertiesRow(n) \notin DOMAIN W
      BY <1>5, <1>13, <2>2, RowKeys DEF NamespacesOK
    <3> QED BY <1>13, <3>1, Reads, RowsThere DEF SideOK, NamespacesOK
  <2> QED BY <2>1, <2>2
<1>17. SideOK(e)
  BY <1>13, <1>14, <1>15, <1>16 DEF SideOK, OthersOK, SameOthers
<1> QED BY <1>6, <1>12, <1>17

-----------------------------------------------------------------------------
(* Each way of changing pointers, logs and keys keeps them sound.           *)

PointersSound(d) == PointersOK(d) /\ LogsComplete(d) /\ KeysFiled(d)

\* A record stays filed when it, its table's row and its table's log stay.
LEMMA KeyStays ==
    ASSUME NEW d, NEW e, PointersSound(d), NEW i \in IdemKeys,
           d[IdemRow(i)] # Absent, e[IdemRow(i)] = d[IdemRow(i)],
           e[TableRowOf(d[IdemRow(i)].table)] = d[TableRowOf(d[IdemRow(i)].table)],
           \A v \in 1..MaxVersion :
              e[LogRow(d[IdemRow(i)].table, v)] = d[LogRow(d[IdemRow(i)].table, v)]
    PROVE  KeyFiled(e, i)
<1>1. KeyFiled(d, i) /\ d[IdemRow(i)].table \in Tables
  BY DEF PointersSound, KeysFiled, PointersOK, ReplayRow
<1>2. d[TableRowOf(d[IdemRow(i)].table)].version \in 0..MaxVersion
  BY <1>1 DEF KeyFiled, PointersSound, LogsComplete, PointersOK, TableRow
<1> QED BY <1>1, <1>2, TursoAssumption DEF KeyFiled

LEMMA KeptSound ==
    ASSUME NEW d, NEW e, PointersSound(d), PointersKept(d, e) PROVE PointersSound(e)
<1>1. PointersOK(e)
  BY DEF PointersSound, PointersKept, PointersOK
<1>2. LogsComplete(e)
  BY DEF PointersSound, PointersKept, LogsComplete
<1>3. ASSUME NEW i \in IdemKeys, e[IdemRow(i)] # Absent PROVE KeyFiled(e, i)
  <2>1. d[IdemRow(i)].table \in Tables
    BY <1>3 DEF PointersKept, PointersSound, PointersOK, ReplayRow
  <2> QED BY <1>3, <2>1, KeyStays DEF PointersKept
<1> QED BY <1>1, <1>2, <1>3 DEF PointersSound, KeysFiled

LEMMA CreatedSound ==
    ASSUME NEW d, NEW e, PointersSound(d), NEW t \in Tables, NEW loc \in MetadataLocations,
           Created(d, e, t, loc)
    PROVE  PointersSound(e)
<1>1. /\ NewTable(loc) \in TableRow /\ NewTable(loc) # Absent
      /\ NewTable(loc).version = 0
  BY AbsentAssumption DEF NewTable, TableRow
<1>2. PointersOK(e)
  BY <1>1 DEF PointersSound, Created, LogsKept, KeysKept, PointersOK
<1>3. LogsComplete(e)
  <2>1. ASSUME NEW u \in Tables, NEW v \in 1..MaxVersion
        PROVE  /\ e[TableRowOf(u)] # Absent => e[TableRowOf(u)].version <= MaxVersion
               /\ e[LogRow(u, v)] # Absent <=>
                     e[TableRowOf(u)] # Absent /\ v <= e[TableRowOf(u)].version
    BY <1>1, TursoAssumption DEF PointersSound, Created, LogsKept, LogsComplete
  <2>2. ASSUME NEW u \in Tables, e[TableRowOf(u)] # Absent
        PROVE  e[TableRowOf(u)].version <= MaxVersion
    BY <1>1, <2>2, TursoAssumption DEF PointersSound, Created, LogsKept, LogsComplete
  <2> QED BY <2>1, <2>2 DEF LogsComplete
<1>4. ASSUME NEW i \in IdemKeys, e[IdemRow(i)] # Absent PROVE KeyFiled(e, i)
  <2>1. e[IdemRow(i)] = d[IdemRow(i)] /\ d[IdemRow(i)].table \in Tables
    BY <1>4 DEF Created, KeysKept, PointersSound, PointersOK, ReplayRow
  <2>2. d[IdemRow(i)].table # t
    BY <1>4, <2>1 DEF PointersSound, KeysFiled, KeyFiled, Created
  <2> QED BY <1>4, <2>1, <2>2, KeyStays DEF Created, LogsKept
<1> QED BY <1>2, <1>3, <1>4 DEF PointersSound, KeysFiled

LEMMA RenamedSound ==
    ASSUME NEW d, NEW e, PointersSound(d), NEW t \in Tables, NEW u \in Tables,
           Renamed(d, e, t, u)
    PROVE  PointersSound(e)
<1>1. t # u
  BY DEF Renamed
<1>2. PointersOK(e)
  BY DEF PointersSound, Renamed, Forgotten, PointersOK
<1>3. LogsComplete(e)
  BY <1>1 DEF PointersSound, Renamed, LogsComplete
<1>4. ASSUME NEW i \in IdemKeys, e[IdemRow(i)] # Absent PROVE KeyFiled(e, i)
  <2>1. /\ e[IdemRow(i)] = d[IdemRow(i)] /\ d[IdemRow(i)].table \in Tables
        /\ d[IdemRow(i)].table # t /\ d[IdemRow(i)].table # u
    BY <1>4 DEF Renamed, Forgotten, PointersSound, PointersOK, ReplayRow
  <2> QED BY <1>4, <2>1, KeyStays DEF Renamed
<1> QED BY <1>2, <1>3, <1>4 DEF PointersSound, KeysFiled

LEMMA RetiredSound ==
    ASSUME NEW d, NEW e, PointersSound(d), NEW S, Retired(d, e, S)
    PROVE  PointersSound(e)
<1>1. PointersOK(e)
  BY DEF PointersSound, Retired, Forgotten, PointersOK
<1>2. LogsComplete(e)
  BY DEF PointersSound, Retired, LogsComplete
<1>3. ASSUME NEW i \in IdemKeys, e[IdemRow(i)] # Absent PROVE KeyFiled(e, i)
  <2>1. /\ e[IdemRow(i)] = d[IdemRow(i)] /\ d[IdemRow(i)].table \in Tables
        /\ d[IdemRow(i)].table \notin S
    BY <1>3 DEF Retired, Forgotten, PointersSound, PointersOK, ReplayRow
  <2> QED BY <1>3, <2>1, KeyStays DEF Retired
<1> QED BY <1>1, <1>2, <1>3 DEF PointersSound, KeysFiled

\* The calls of commit_table.
CommitOp ==
    [kind : {"commit_table"}, t : Tables, loaded : TableRow,
     loc : MetadataLocations, key : Keys \cup {NoKey}, request : Requests]

LEMMA CommittedSound ==
    ASSUME NEW d, NEW e, PointersSound(d), NEW o \in CommitOp,
           o.loaded.version < MaxVersion, Committed(d, e, o)
    PROVE  PointersSound(e)
<1> DEFINE row == d[TableRowOf(o.t)]
           new == Advanced(row, o.loc)
           rec == CommitRecordOf(row, o.loc, o.key, o.request)
           n   == row.version + 1
           replay == [table |-> o.t, request |-> o.request, response |-> new]
<1>1. /\ o.t \in Tables /\ o.loc \in MetadataLocations /\ o.key \in Keys \cup {NoKey}
      /\ o.request \in Requests
      /\ row \in TableRow /\ row.version \in Nat /\ row # Absent /\ n \in 1..MaxVersion
  BY AbsentAssumption, TursoAssumption DEF Committed, CommitOp, TableRow
<1>2. new \in TableRow /\ new # Absent /\ new.version = n /\ new.location = o.loc
  BY <1>1, AbsentAssumption DEF Advanced, TableRow
<1>3. rec \in CommitRecord /\ rec # Absent
  BY <1>1, AbsentAssumption DEF CommitRecordOf, CommitRecord, TableRow
<1>4. rec.new = o.loc /\ rec.key = o.key /\ rec.request = o.request
  BY DEF CommitRecordOf
<1>5. replay \in ReplayRow /\ replay # Absent
  BY <1>1, <1>2, AbsentAssumption DEF ReplayRow
<1>6. /\ replay.table = o.t /\ replay.request = o.request
      /\ replay.response.version = n /\ replay.response.location = o.loc
  BY <1>2
<1>7. \A u \in Tables : e[TableRowOf(u)] = IF u = o.t THEN new ELSE d[TableRowOf(u)]
  BY DEF Committed
<1>8. \A u \in Tables : \A v \in 1..MaxVersion :
         e[LogRow(u, v)] = IF u = o.t /\ v = n THEN rec ELSE d[LogRow(u, v)]
  BY DEF Committed
<1>9. \A i \in IdemKeys :
         e[IdemRow(i)] = IF o.key # NoKey /\ i = IdemKey(o.t, o.key)
                         THEN replay ELSE d[IdemRow(i)]
  BY DEF Committed
<1>10. o.key # NoKey => d[IdemRow(IdemKey(o.t, o.key))] = Absent
  BY DEF Committed
<1> HIDE DEF new, rec, replay, row
<1>11. PointersOK(e)
  BY <1>2, <1>3, <1>5, <1>7, <1>8, <1>9 DEF PointersSound, PointersOK
<1>12. LogsComplete(e)
  <2>1. ASSUME NEW u \in Tables, e[TableRowOf(u)] # Absent
        PROVE  e[TableRowOf(u)].version <= MaxVersion
    BY <1>1, <1>2, <1>7, <2>1 DEF PointersSound, LogsComplete
  <2>2. ASSUME NEW u \in Tables, NEW v \in 1..MaxVersion
        PROVE  e[LogRow(u, v)] # Absent <=>
                  e[TableRowOf(u)] # Absent /\ v <= e[TableRowOf(u)].version
    <3>1. CASE u = o.t
      <4>1. d[LogRow(u, v)] # Absent <=> v <= row.version
        BY <1>1, <3>1 DEF PointersSound, LogsComplete, row
      <4> QED BY <1>1, <1>2, <1>3, <1>7, <1>8, <3>1, <4>1
    <3>2. CASE u # o.t
      BY <1>7, <1>8, <3>2 DEF PointersSound, LogsComplete
    <3> QED BY <3>1, <3>2
  <2> QED BY <2>1, <2>2 DEF LogsComplete
<1>13. ASSUME NEW i \in IdemKeys, e[IdemRow(i)] # Absent PROVE KeyFiled(e, i)
  <2>1. CASE o.key # NoKey /\ i = IdemKey(o.t, o.key)
    <3>1. i[1] = StableId(o.t) /\ i[2] = o.key
      BY <2>1 DEF IdemKey
    <3>2. e[IdemRow(i)] = replay /\ e[TableRowOf(o.t)] = new /\ e[LogRow(o.t, n)] = rec
      BY <1>1, <1>7, <1>8, <1>9, <2>1
    <3> QED BY <1>1, <1>2, <1>4, <1>6, <3>1, <3>2 DEF KeyFiled
  <2>2. CASE ~(o.key # NoKey /\ i = IdemKey(o.t, o.key))
    <3>1. e[IdemRow(i)] = d[IdemRow(i)]
      BY <1>9, <2>2
    <3>2. d[IdemRow(i)].table \in Tables /\ KeyFiled(d, i)
      BY <1>13, <3>1 DEF PointersSound, PointersOK, KeysFiled, ReplayRow
    <3>3. CASE d[IdemRow(i)].table # o.t
      BY <1>7, <1>8, <1>13, <3>1, <3>2, <3>3, KeyStays
    <3>4. CASE d[IdemRow(i)].table = o.t
      <4> DEFINE v == d[IdemRow(i)].response.version
      <4>1. /\ i[1] = StableId(o.t) /\ v \in 1..row.version
            /\ d[LogRow(o.t, v)].new = d[IdemRow(i)].response.location
            /\ d[LogRow(o.t, v)].key = i[2]
            /\ d[LogRow(o.t, v)].request = d[IdemRow(i)].request
        BY <3>2, <3>4 DEF KeyFiled, row
      <4>2. v \in 1..n /\ v \in 1..MaxVersion /\ v # n
        BY <1>1, <4>1, TursoAssumption
      <4>3. e[LogRow(o.t, v)] = d[LogRow(o.t, v)]
        BY <1>1, <1>8, <4>2
      <4>4. e[TableRowOf(o.t)].version = n /\ e[TableRowOf(o.t)] # Absent
        BY <1>1, <1>2, <1>4, <1>7
      <4> HIDE DEF n
      <4> QED BY <3>1, <3>4, <4>1, <4>2, <4>3, <4>4 DEF KeyFiled
    <3> QED BY <3>3, <3>4
  <2> QED BY <2>1, <2>2
<1> QED BY <1>11, <1>12, <1>13 DEF PointersSound, KeysFiled

\* What the commit of a transaction does to the pointers.
Effect(d, e, o) ==
    \/ PointersKept(d, e)
    \/ /\ o.kind = "create_table" /\ o.t \in Tables /\ o.loc \in MetadataLocations
       /\ Created(d, e, o.t, o.loc)
    \/ o \in CommitOp /\ o.loaded.version < MaxVersion /\ Committed(d, e, o)
    \/ /\ o.kind = "rename_table" /\ o.t \in Tables /\ o.d \in Tables
       /\ Renamed(d, e, o.t, o.d)
    \/ \E S \in SUBSET Tables : Retired(d, e, S)

LEMMA BodyEffect ==
    ASSUME NEW s, NEW D, NEW d, NEW o, NEW W, NEW e, Body(s, D, d, o, W, e)
    PROVE  Effect(d, e, o) /\ SideOK(e)
<1>1. o \in Ops
  BY DEF Body, OpOK
<1>2. CASE o.kind = "create_namespace"
  BY <1>2, CreateNamespaceBody DEF Effect
<1>3. CASE o.kind = "update_namespace_properties"
  BY <1>3, UpdatePropertiesBody DEF Effect
<1>4. CASE o.kind = "drop_namespace"
  BY <1>4, DropNamespaceBody DEF Effect
<1>5. CASE o.kind = "create_table"
  <2>1. o.t \in Tables /\ o.loc \in MetadataLocations
    BY <1>1, <1>5 DEF Ops
  <2> QED BY <1>5, <2>1, CreateTableBody DEF Effect
<1>6. CASE o.kind = "commit_table"
  <2>1. o \in CommitOp
    BY <1>1, <1>6 DEF Ops, CommitOp
  <2> QED BY <1>6, <2>1, CommitTableBody DEF Effect, Body, OpOK
<1>7. CASE o.kind = "rename_table"
  BY <1>7, RenameTableBody DEF Effect
<1>8. CASE o.kind \in {"soft_delete_table", "restore_table"}
  BY <1>8, SoftDeleteBody DEF Effect
<1>9. CASE o.kind \in {"upsert_view", "drop_view"}
  BY <1>9, ViewBody DEF Effect
<1>10. CASE o.kind = "upsert_policy_binding"
  BY <1>10, PolicyBody DEF Effect
<1> QED BY <1>1, <1>2, <1>3, <1>4, <1>5, <1>6, <1>7, <1>8, <1>9, <1>10 DEF Ops

LEMMA BodySound ==
    ASSUME NEW s, NEW D, NEW d, NEW o, NEW W, NEW e, Body(s, D, d, o, W, e)
    PROVE  Sound(e)
<1>1. PointersSound(d)
  BY SoundParts DEF Body, PointersSound
<1>2. Effect(d, e, o) /\ SideOK(e)
  BY BodyEffect
<1>3. PointersSound(e)
  BY <1>1, <1>2, KeptSound, CreatedSound, CommittedSound, RenamedSound, RetiredSound DEF Effect
<1>4. DOMAIN e = Rows
  BY DEF Body
<1> QED BY <1>2, <1>3, <1>4, SoundParts DEF PointersSound, SideOK

\* A transaction that files a record under a key writes the row of the table.
LEMMA BodyKeys ==
    ASSUME NEW s, NEW D, NEW d, NEW o, NEW W, NEW e, Body(s, D, d, o, W, e),
           NEW i \in IdemKeys, e[IdemRow(i)] # Absent, e[IdemRow(i)] # d[IdemRow(i)]
    PROVE  d[IdemRow(i)] = Absent /\ TableRowOf(e[IdemRow(i)].table) \in DOMAIN W
<1>1. Effect(d, e, o)
  BY BodyEffect
<1>2. o \in CommitOp /\ Committed(d, e, o)
  BY <1>1 DEF Effect, PointersKept, Created, KeysKept, Renamed, Retired, Forgotten
<1>3. TableRowOf(o.t) \in DOMAIN W
  BY <1>2, CommitTableBody DEF CommitOp
<1>4. /\ e[IdemRow(i)] = [table |-> o.t, request |-> o.request,
                          response |-> Advanced(d[TableRowOf(o.t)], o.loc)]
      /\ d[IdemRow(i)] = Absent
  BY <1>2 DEF Committed
<1> QED BY <1>3, <1>4

-----------------------------------------------------------------------------
(* Callers.                                                                 *)

\* A caller is idle, waiting for its transaction, or in it.
QueuedTx(x) ==
    \E op, n : x = [phase |-> "queued", op |-> op, attempt |-> n]

RunningTx(x) ==
    \E op, n, s, D : x = [phase |-> "running", op |-> op, attempt |-> n,
                          snap |-> s, dirty |-> D]

Shape(x) == x = Idle \/ QueuedTx(x) \/ RunningTx(x)

\* The snapshot s agrees with d in every row that is not dirty.
Sees(s, D, d) == \A r \in Rows \ D : s[r] = d[r]

\* What a caller in state x may rely on when the database is d and the
\* workload is w.
CallOK(x, d, w) ==
    /\ Shape(x)
    /\ x # Idle => OpOK(x.op) /\ x.attempt \in 1..w.attempts
    /\ x.phase = "running" =>
          /\ Sound(x.snap)
          /\ x.dirty \subseteq Rows
          /\ Sees(x.snap, x.dirty, d)
          /\ KeysSeen(x.snap, x.dirty, d)

\* The inductive invariant.
IInv ==
    /\ workload \in Workloads
    /\ Sound(db)
    /\ tx = [c \in Clients |-> tx[c]]
    /\ \A c \in Clients : CallOK(tx[c], db, workload)

LEMMA IdleCall == \A d, w : CallOK(Idle, d, w)
BY DEF CallOK, Shape, Idle

LEMMA QueuedCall ==
    ASSUME NEW op, NEW n, NEW d, NEW w, OpOK(op), n \in 1..w.attempts
    PROVE  CallOK([phase |-> "queued", op |-> op, attempt |-> n], d, w)
<1> DEFINE x == [phase |-> "queued", op |-> op, attempt |-> n]
<1>1. QueuedTx(x)
  BY Zenon DEF QueuedTx
<1>2. x.phase = "queued" /\ x.op = op /\ x.attempt = n
  OBVIOUS
<1> QED BY <1>1, <1>2 DEF CallOK, Shape

LEMMA RunningCall ==
    ASSUME NEW op, NEW n, NEW s, NEW D, NEW d, NEW w,
           OpOK(op), n \in 1..w.attempts, Sound(s), D \subseteq Rows,
           Sees(s, D, d), KeysSeen(s, D, d)
    PROVE  CallOK([phase |-> "running", op |-> op, attempt |-> n,
                   snap |-> s, dirty |-> D], d, w)
<1> DEFINE x == [phase |-> "running", op |-> op, attempt |-> n,
                 snap |-> s, dirty |-> D]
<1>1. RunningTx(x)
  BY Zenon DEF RunningTx
<1>2. x.phase = "running" /\ x.op = op /\ x.attempt = n /\ x.snap = s /\ x.dirty = D
  OBVIOUS
<1> HIDE DEF x
<1>3. CallOK(x, d, w)
  BY <1>1, <1>2 DEF CallOK, Shape
<1> QED BY <1>3 DEF x

LEMMA InitIInv == Init => IInv
<1> SUFFICES ASSUME Init PROVE IInv
  OBVIOUS
<1>1. \A r \in Rows : db[r] = Absent
  BY DEF Init
<1>2. NamespacesOK(db) /\ HiddenOK(db) /\ OthersOK(db) /\ PointersOK(db)
  BY <1>1, RowsThere DEF NamespacesOK, HiddenOK, OthersOK, PointersOK
<1>3. LogsComplete(db) /\ KeysFiled(db)
  BY <1>1, RowsThere DEF LogsComplete, KeysFiled
<1>4. Sound(db)
  BY <1>2, <1>3, SoundParts DEF Init
<1> QED BY <1>4, IdleCall DEF Init, IInv

\* A step that changes one caller and no row.
LEMMA OneCallerStep ==
    ASSUME IInv, NEW c \in Clients, NEW new, db' = db, workload' = workload,
           tx' = [tx EXCEPT ![c] = new], CallOK(new, db, workload)
    PROVE  IInv'
<1>1. \A d \in Clients : tx'[d] = IF d = c THEN new ELSE tx[d]
  BY DEF IInv
<1>2. tx' = [d \in Clients |-> tx'[d]]
  BY DEF IInv
<1>3. \A d \in Clients : CallOK(tx'[d], db', workload')
  BY <1>1 DEF IInv
<1> QED BY <1>2, <1>3 DEF IInv

LEMMA EnqueueStep ==
    ASSUME IInv, NEW c \in Clients, NEW op, OpOK(op), Enqueue(c, op) PROVE IInv'
<1>1. 1 \in 1..workload.attempts
  BY TursoAssumption DEF IInv
<1> QED BY <1>1, OneCallerStep, QueuedCall DEF Enqueue

LEMMA SubmitStep ==
    ASSUME IInv, NEW c \in Clients, Submit(c) PROVE IInv'
<1>1. /\ workload.locations \subseteq MetadataLocations
      /\ workload.requests \subseteq Requests
      /\ workload.versions \in 0..MaxVersion
  BY TursoAssumption DEF IInv
<1>2. CASE SubmitNamespace(c) \/ SubmitDropNamespace(c)
  <2>1. PICK n \in Namespaces, kind \in {"create_namespace", "update_namespace_properties",
                                         "drop_namespace"} :
           Enqueue(c, [kind |-> kind, n |-> n])
    BY <1>2 DEF SubmitNamespace, SubmitDropNamespace
  <2>2. OpOK([kind |-> kind, n |-> n])
    BY DEF OpOK, Ops
  <2> QED BY <2>1, <2>2, EnqueueStep
<1>3. CASE SubmitCreateTable(c)
  <2>1. PICK t \in Tables, loc \in workload.locations :
           Enqueue(c, [kind |-> "create_table", t |-> t, loc |-> loc])
    BY <1>3 DEF SubmitCreateTable
  <2>2. OpOK([kind |-> "create_table", t |-> t, loc |-> loc])
    BY <1>1 DEF OpOK, Ops
  <2> QED BY <2>1, <2>2, EnqueueStep
<1>4. CASE SubmitCommitTable(c)
  <2>1. PICK t \in Tables, loc \in workload.locations, key \in Keys \cup {NoKey},
             request \in workload.requests :
           /\ TableVisible(db, t)
           /\ db[TableRowOf(t)].version < workload.versions
           /\ Enqueue(c, [kind |-> "commit_table", t |-> t, loaded |-> db[TableRowOf(t)],
                          loc |-> loc, key |-> key, request |-> request])
    BY <1>4 DEF SubmitCommitTable
  <2>2. db[TableRowOf(t)] \in TableRow
    BY <2>1, SoundParts DEF IInv, PointersOK, TableVisible
  <2>3. db[TableRowOf(t)].version < MaxVersion
    BY <1>1, <2>1, <2>2, TursoAssumption DEF TableRow
  <2>4. OpOK([kind |-> "commit_table", t |-> t, loaded |-> db[TableRowOf(t)],
              loc |-> loc, key |-> key, request |-> request])
    BY <1>1, <2>2, <2>3 DEF OpOK, Ops
  <2> QED BY <2>1, <2>4, EnqueueStep
<1>5. CASE SubmitRenameTable(c)
  <2>1. PICK t, d \in Tables : Enqueue(c, [kind |-> "rename_table", t |-> t, d |-> d])
    BY <1>5 DEF SubmitRenameTable
  <2>2. OpOK([kind |-> "rename_table", t |-> t, d |-> d])
    BY DEF OpOK, Ops
  <2> QED BY <2>1, <2>2, EnqueueStep
<1>6. CASE SubmitLifecycle(c)
  <2>1. PICK t \in Tables, kind \in {"soft_delete_table", "restore_table"} :
           Enqueue(c, [kind |-> kind, t |-> t])
    BY <1>6 DEF SubmitLifecycle
  <2>2. OpOK([kind |-> kind, t |-> t])
    BY DEF OpOK, Ops
  <2> QED BY <2>1, <2>2, EnqueueStep
<1>7. CASE SubmitView(c)
  <2>1. PICK v \in Views, kind \in {"upsert_view", "drop_view"} :
           Enqueue(c, [kind |-> kind, v |-> v])
    BY <1>7 DEF SubmitView
  <2>2. OpOK([kind |-> kind, v |-> v])
    BY DEF OpOK, Ops
  <2> QED BY <2>1, <2>2, EnqueueStep
<1>8. CASE SubmitPolicy(c)
  <2>1. PICK p \in Policies, scope \in PolicyScope :
           Enqueue(c, [kind |-> "upsert_policy_binding", p |-> p, scope |-> scope])
    BY <1>8 DEF SubmitPolicy
  <2>2. OpOK([kind |-> "upsert_policy_binding", p |-> p, scope |-> scope])
    BY DEF OpOK, Ops
  <2> QED BY <2>1, <2>2, EnqueueStep
<1> QED BY <1>2, <1>3, <1>4, <1>5, <1>6, <1>7, <1>8 DEF Submit

\* A transaction stages rows of the schema.
LEMMA WritesRows ==
    ASSUME NEW s, NEW o, OpOK(o), Sound(s), Admits(s, o)
    PROVE  DOMAIN Writes(s, o) \subseteq Rows
<1>1. o \in Ops
  BY DEF OpOK
<1>2. CASE o.kind = "create_namespace"
  BY <1>1, <1>2, RowsThere DEF Writes, Ops, CreateNamespaceWrites, Put, ++
<1>3. CASE o.kind = "update_namespace_properties"
  BY <1>1, <1>3, RowsThere DEF Writes, Ops, UpdatePropertiesWrites, Put
<1>4. CASE o.kind = "drop_namespace"
  <2>1. o.n \in Namespaces
    BY <1>1, <1>4 DEF Ops
  <2> DEFINE S == {t \in Tables : t[1] = o.n /\ s[SoftDeleteRow(t)] # Absent}
             keys == {i \in IdemKeys : s[IdemRow(i)] # Absent /\ s[IdemRow(i)].table \in S}
             R == {NamespaceRow(o.n), PropertiesRow(o.n)} \cup {IdemRow(i) : i \in keys}
                  \cup RowsOf(S)
  <2>2. Writes(s, o) = Deleted(s, R)
    BY <1>4 DEF Writes, DropNamespaceWrites
  <2>3. RowsOf(S) \subseteq Rows
    BY RowsThere DEF RowsOf
  <2>4. R \subseteq Rows
    BY <2>1, <2>3, RowsThere
  <2> QED BY <2>2, <2>4 DEF Deleted
<1>5. CASE o.kind = "create_table"
  BY <1>1, <1>5, RowsThere DEF Writes, Ops, CreateTableWrites, Put
<1>6. CASE o.kind = "commit_table"
  <2> DEFINE row == s[TableRowOf(o.t)]
             new == Advanced(row, o.loc)
             rec == CommitRecordOf(row, o.loc, o.key, o.request)
             replay == [table |-> o.t, request |-> o.request, response |-> new]
  <2>1. /\ o.t \in Tables /\ o.loaded \in TableRow /\ o.loaded.version < MaxVersion
        /\ o.key \in Keys \cup {NoKey}
    BY <1>1, <1>6 DEF OpOK, Ops
  <2>2. row.version = o.loaded.version
    BY <1>6 DEF Admits, CommitTableAdmits
  <2>3. new.version \in 1..MaxVersion
    BY <2>1, <2>2, TursoAssumption DEF Advanced, TableRow
  <2>4. o.key # NoKey => IdemKey(o.t, o.key) \in IdemKeys
    BY <2>1 DEF IdemKeys
  <2>5. Writes(s, o) = Put(TableRowOf(o.t), new) ++ Put(LogRow(o.t, new.version), rec)
            ++ (IF o.key = NoKey THEN <<>> ELSE Put(IdemRow(IdemKey(o.t, o.key)), replay))
    BY <1>6 DEF Writes, CommitTableWrites
  <2> HIDE DEF rec, replay, new
  <2> QED BY <2>1, <2>3, <2>4, <2>5, RowsThere DEF Put, ++
<1>7. CASE o.kind = "rename_table"
  <2> DEFINE versions == {v \in 1..MaxVersion : s[LogRow(o.t, v)] # Absent}
             keys == {i \in IdemKeys : i[1] = StableId(o.t)}
             bound == {p \in Policies :
                          s[PolicyRow(p)] = [namespace |-> o.t[1], table |-> o.t[2]]}
             moved == [r \in {LogRow(o.d, v) : v \in versions} |-> s[LogRow(o.t, r[3])]]
             gone == Deleted(s, LogRows(o.t) \cup {IdemRow(i) : i \in keys})
             policies == [r \in {PolicyRow(p) : p \in bound} |->
                             [namespace |-> o.d[1], table |-> o.d[2]]]
  <2>1. o.t \in Tables /\ o.d \in Tables
    BY <1>1, <1>7 DEF Ops
  <2>2. Writes(s, o) = Put(TableRowOf(o.t), Absent)
                       ++ Put(TableRowOf(o.d), s[TableRowOf(o.t)])
                       ++ moved ++ gone ++ policies
    BY <1>7 DEF Writes, RenameTableWrites
  <2>3. DOMAIN moved \subseteq Rows
    BY <2>1, RowsThere
  <2>4. DOMAIN gone \subseteq Rows
    BY <2>1, RowsThere DEF Deleted, LogRows
  <2>5. DOMAIN policies \subseteq Rows
    BY RowsThere
  <2> HIDE DEF moved, gone, policies
  <2> QED BY <2>1, <2>2, <2>3, <2>4, <2>5, RowsThere DEF Put, ++
<1>8. CASE o.kind = "soft_delete_table"
  BY <1>1, <1>8, RowsThere DEF Writes, Ops, SoftDeleteTableWrites, Put
<1>9. CASE o.kind = "restore_table"
  BY <1>1, <1>9, RowsThere DEF Writes, Ops, RestoreTableWrites, Deleted
<1>10. CASE o.kind = "upsert_view"
  BY <1>1, <1>10, RowsThere DEF Writes, Ops, UpsertViewWrites, Put
<1>11. CASE o.kind = "drop_view"
  BY <1>1, <1>11, RowsThere DEF Writes, Ops, DropViewWrites, Deleted
<1>12. CASE o.kind = "upsert_policy_binding"
  BY <1>1, <1>12, RowsThere DEF Writes, Ops, UpsertPolicyWrites, Put
<1> QED
  BY <1>1, <1>2, <1>3, <1>4, <1>5, <1>6, <1>7, <1>8, <1>9, <1>10, <1>11, <1>12 DEF Ops

\* Seen from the transaction that commits, what its body read and staged.
LEMMA CommitBody ==
    ASSUME IInv, NEW c \in Clients, Commit(c)
    PROVE  Body(tx[c].snap, tx[c].dirty, db, tx[c].op, Writes(tx[c].snap, tx[c].op), db')
<1>1. tx[c].phase = "running" /\ Admits(tx[c].snap, tx[c].op)
  BY DEF Commit
<1>2. tx[c] # Idle
  BY <1>1 DEF Idle
<1>3. /\ Sound(tx[c].snap) /\ OpOK(tx[c].op)
      /\ Sees(tx[c].snap, tx[c].dirty, db) /\ KeysSeen(tx[c].snap, tx[c].dirty, db)
  BY <1>1, <1>2 DEF IInv, CallOK
<1> DEFINE W == Writes(tx[c].snap, tx[c].op)
<1>4. /\ DOMAIN W \cap tx[c].dirty = {}
      /\ db' = [r \in Rows |-> IF r \in DOMAIN W THEN W[r] ELSE db[r]]
  BY DEF Commit, Unconflicted, Applied
<1> HIDE DEF W
<1>5. Sound(db)
  BY DEF IInv
<1> QED BY <1>1, <1>3, <1>4, <1>5 DEF Body, Sees, W

\* COMMIT marks what it writes as dirty for everybody who is running.
LEMMA CommitStep ==
    ASSUME IInv, NEW c \in Clients, Commit(c) PROVE IInv'
<1> DEFINE W == Writes(tx[c].snap, tx[c].op)
<1>1. \A d \in Clients :
         tx'[d] = IF d = c THEN Idle
                  ELSE IF tx[d].phase = "running"
                  THEN [tx[d] EXCEPT !.dirty = @ \cup DOMAIN W] ELSE tx[d]
  BY DEF Commit
<1>2. \A r \in Rows : r \notin DOMAIN W => db'[r] = db[r]
  BY DEF Commit, Applied
<1>3. Body(tx[c].snap, tx[c].dirty, db, tx[c].op, W, db')
  BY CommitBody
<1>4. DOMAIN W \subseteq Rows
  BY <1>3, WritesRows DEF Body
<1> HIDE DEF W
<1>5. Sound(db')
  BY <1>3, BodySound
<1>6. ASSUME NEW d \in Clients PROVE CallOK(tx'[d], db', workload')
  <2>1. CASE d = c
    BY <1>1, <2>1, IdleCall
  <2>2. CASE d # c /\ tx[d].phase = "running"
    <3>1. RunningTx(tx[d])
      BY <2>2 DEF IInv, CallOK, Shape, QueuedTx, Idle
    <3>2. PICK op, n, s, D : tx[d] = [phase |-> "running", op |-> op, attempt |-> n,
                                      snap |-> s, dirty |-> D]
      BY <3>1, Zenon DEF RunningTx
    <3>3. tx'[d] = [phase |-> "running", op |-> op, attempt |-> n,
                    snap |-> s, dirty |-> D \cup DOMAIN W]
      BY <1>1, <2>2, <3>2
    <3>4. /\ OpOK(op) /\ n \in 1..workload.attempts /\ Sound(s) /\ D \subseteq Rows
          /\ Sees(s, D, db) /\ KeysSeen(s, D, db)
      BY <2>2, <3>2 DEF IInv, CallOK, Idle
    <3>5. Sees(s, D \cup DOMAIN W, db')
      BY <1>2, <3>4 DEF Sees
    <3>6. KeysSeen(s, D \cup DOMAIN W, db')
      <4> SUFFICES ASSUME NEW i \in IdemKeys, db'[IdemRow(i)] # Absent,
                          TableRowOf(db'[IdemRow(i)].table) \notin D \cup DOMAIN W
                   PROVE  s[IdemRow(i)] = db'[IdemRow(i)]
        BY DEF KeysSeen
      <4>1. db'[IdemRow(i)] = db[IdemRow(i)]
        BY <1>3, BodyKeys
      <4> QED BY <3>4, <4>1 DEF KeysSeen
    <3>7. workload' = workload
      BY DEF Commit
    <3> QED BY <1>4, <3>3, <3>4, <3>5, <3>6, <3>7, RunningCall
  <2>3. CASE d # c /\ tx[d].phase # "running"
    <3>1. tx'[d] = tx[d] /\ workload' = workload
      BY <1>1, <2>3 DEF Commit
    <3> QED BY <2>3, <3>1 DEF IInv, CallOK
  <2> QED BY <2>1, <2>2, <2>3
<1>7. tx' = [d \in Clients |-> tx'[d]]
  BY DEF Commit
<1> QED BY <1>5, <1>6, <1>7 DEF IInv, Commit

LEMMA StepIInv == IInv /\ [Next]_vars => IInv'
<1> SUFFICES ASSUME IInv, [Next]_vars PROVE IInv'
  OBVIOUS
<1>1. ASSUME NEW c \in Clients, tx[c].phase \in {"queued", "running"}
      PROVE  OpOK(tx[c].op) /\ tx[c].attempt \in 1..workload.attempts
  BY <1>1 DEF IInv, CallOK, Idle
<1>2. ASSUME NEW c \in Clients, Begin(c) PROVE IInv'
  <2>1. Sees(db, {}, db) /\ KeysSeen(db, {}, db) /\ Sound(db)
    BY DEF Sees, KeysSeen, IInv
  <2>2. CallOK([phase |-> "running", op |-> tx[c].op, attempt |-> tx[c].attempt,
                snap |-> db, dirty |-> {}], db, workload)
    BY <1>1, <1>2, <2>1, RunningCall DEF Begin
  <2> QED BY <1>2, <2>2, OneCallerStep DEF Begin
<1>3. ASSUME NEW c \in Clients, Refuse(c) \/ GiveUp(c) \/ Cancel(c) PROVE IInv'
  BY <1>3, OneCallerStep, IdleCall DEF Refuse, GiveUp, Cancel
<1>4. ASSUME NEW c \in Clients, Rollback(c) PROVE IInv'
  <2>1. OpOK(tx[c].op) /\ tx[c].attempt \in 1..workload.attempts
    BY <1>1, <1>4 DEF Rollback
  <2>2. workload.attempts \in Nat
    BY TursoAssumption DEF IInv
  <2>3. tx[c].attempt + 1 \in 1..workload.attempts
    BY <1>4, <2>1, <2>2 DEF Rollback
  <2>4. CallOK([phase |-> "queued", op |-> tx[c].op, attempt |-> tx[c].attempt + 1],
               db, workload)
    BY <2>1, <2>3, QueuedCall
  <2> QED BY <1>4, <2>4, OneCallerStep DEF Rollback
<1>5. CASE UNCHANGED vars
  BY <1>5 DEF vars, IInv
<1> QED
  BY <1>2, <1>3, <1>4, <1>5, SubmitStep, CommitStep DEF Next, Step

LEMMA Invariant == Spec => []IInv
BY InitIInv, StepIInv, PTL DEF Spec

-----------------------------------------------------------------------------
\* What makes write_txn's conflict detection sufficient: a body reads the
\* current value of every row that nobody has committed since it began, so
\* a COMMIT that finds none of its rows dirty replaces what the body read.
THEOREM SnapshotsAreCurrent == Spec => []SnapshotCurrentUnlessDirty
<1>1. IInv => SnapshotCurrentUnlessDirty
  BY DEF IInv, CallOK, Sees, SnapshotCurrentUnlessDirty
<1> QED BY <1>1, Invariant, PTL

\* update_namespace_properties racing drop_namespace leaves no properties row
\* behind that would make the next create_namespace fail.
THEOREM PropertiesGoWithNamespaces == Spec => []PropertiesFollowNamespace
<1>1. IInv => PropertiesFollowNamespace
  BY DEF IInv, Sound, PropertiesFollow, PropertiesFollowNamespace
<1> QED BY <1>1, Invariant, PTL

\* Only COMMIT touches the database.
LEMMA OnlyCommitWrites ==
    ASSUME IInv, [Next]_vars
    PROVE  \/ UNCHANGED <<db, outbox, named>>
           \/ \E c \in Clients : Commit(c)
BY DEF Next, vars, Submit, Step, Begin, Refuse, Rollback, GiveUp, Cancel, Enqueue,
       SubmitNamespace, SubmitDropNamespace, SubmitCreateTable, SubmitCommitTable,
       SubmitRenameTable, SubmitLifecycle, SubmitView, SubmitPolicy

\* A table's pointer moves only by a commit_table whose caller planned it
\* from the row that it replaces, whatever commits, renames, drops and
\* re-creations came between its load and its COMMIT.
THEOREM NoUpdateIsLost == Spec => NoLostUpdate
<1> DEFINE A == \A t \in Tables :
          LET old == db[TableRowOf(t)]
              new == db'[TableRowOf(t)]
          IN  old # Absent /\ new # Absent /\ old # new =>
                 \E c \in Clients :
                    /\ tx[c].phase = "running" /\ tx'[c] = Idle
                    /\ tx[c].op.kind = "commit_table"
                    /\ tx[c].op.t = t
                    /\ tx[c].op.loaded = old
<1>1. IInv /\ [Next]_vars => A
  <2> SUFFICES ASSUME IInv, [Next]_vars, NEW t \in Tables,
                      db[TableRowOf(t)] # Absent, db'[TableRowOf(t)] # Absent,
                      db[TableRowOf(t)] # db'[TableRowOf(t)]
               PROVE  \E c \in Clients :
                         /\ tx[c].phase = "running" /\ tx'[c] = Idle
                         /\ tx[c].op.kind = "commit_table"
                         /\ tx[c].op.t = t
                         /\ tx[c].op.loaded = db[TableRowOf(t)]
    OBVIOUS
  <2>1. PICK c \in Clients : Commit(c)
    BY OnlyCommitWrites
  <2>2. Effect(db, db', tx[c].op)
    BY <2>1, CommitBody, BodyEffect
  <2>3. tx[c].op \in CommitOp /\ Committed(db, db', tx[c].op)
    BY <2>2 DEF Effect, PointersKept, Created, Renamed, Retired
  <2>4. tx[c].op.kind = "commit_table" /\ tx[c].op.t = t
    BY <2>3 DEF CommitOp, Committed
  <2>5. tx[c].op.loaded = db[TableRowOf(t)]
    BY <2>3, <2>4 DEF Committed
  <2>6. tx[c].phase = "running" /\ tx'[c] = Idle
    BY <2>1 DEF Commit
  <2> QED BY <2>4, <2>5, <2>6
<1>2. IInv /\ [Next]_vars => [A]_vars
  BY <1>1
<1> QED BY <1>2, Invariant, PTL DEF Spec, NoLostUpdate

\* The answer stored under an idempotency key is never replaced by another:
\* of two concurrent commits with one key at most one files a record.
THEOREM AnswersStayTheSame == Spec => AnswersAreStable
<1> DEFINE A == \A i \in IdemKeys :
          db[IdemRow(i)] # Absent /\ db'[IdemRow(i)] # Absent =>
             db'[IdemRow(i)] = db[IdemRow(i)]
<1>1. IInv /\ [Next]_vars => A
  <2> SUFFICES ASSUME IInv, [Next]_vars, NEW i \in IdemKeys,
                      db[IdemRow(i)] # Absent, db'[IdemRow(i)] # Absent,
                      db'[IdemRow(i)] # db[IdemRow(i)]
               PROVE  FALSE
    OBVIOUS
  <2>1. PICK c \in Clients : Commit(c)
    BY OnlyCommitWrites
  <2> QED BY <2>1, CommitBody, BodyKeys
<1>2. IInv /\ [Next]_vars => [A]_vars
  BY <1>1
<1> QED BY <1>2, Invariant, PTL DEF Spec, AnswersAreStable

-----------------------------------------------------------------------------
(* Types and evidence.                                                      *)

LEMMA EventsType ==
    ASSUME NEW s, NEW o, OpOK(o), Sound(s), Admits(s, o)
    PROVE  Events(s, o) \subseteq LifecycleEvent
<1>1. o \in Ops /\ PointersOK(s)
  BY SoundParts DEF OpOK
<1>2. \A row \in TableRow : \A t \in Tables :
         \A type \in {"table.commit", "table.renamed", "table.deleted", "table.restored"} :
            Event(type, t, row) \in LifecycleEvent
  BY DEF Event, LifecycleEvent, TableRow
<1>3. CASE o.kind = "commit_table"
  <2>1. o.t \in Tables /\ o.loc \in MetadataLocations
    BY <1>1, <1>3 DEF Ops
  <2>2. s[TableRowOf(o.t)] \in TableRow
    BY <1>1, <1>3, <2>1 DEF Admits, CommitTableAdmits, TableVisible, PointersOK
  <2>3. Advanced(s[TableRowOf(o.t)], o.loc) \in TableRow
    BY <2>1, <2>2 DEF Advanced, TableRow
  <2>4. Events(s, o) = {Event("table.commit", o.t, Advanced(s[TableRowOf(o.t)], o.loc))}
    BY <1>3, Zenon DEF Events
  <2> QED BY <1>2, <2>1, <2>3, <2>4
<1>4. CASE o.kind = "rename_table"
  <2>1. o.t \in Tables /\ o.d \in Tables
    BY <1>1, <1>4 DEF Ops
  <2>2. s[TableRowOf(o.t)] \in TableRow
    BY <1>1, <1>4, <2>1 DEF Admits, RenameTableAdmits, TableVisible, PointersOK
  <2>3. Events(s, o) = {Event("table.renamed", o.d, s[TableRowOf(o.t)])}
    BY <1>4, Zenon DEF Events
  <2> QED BY <1>2, <2>1, <2>2, <2>3
<1>5. CASE o.kind = "soft_delete_table"
  <2>1. o.t \in Tables
    BY <1>1, <1>5 DEF Ops
  <2>2. s[TableRowOf(o.t)] \in TableRow
    BY <1>1, <1>5, <2>1 DEF Admits, SoftDeleteTableAdmits, TableVisible, PointersOK
  <2>3. Events(s, o) = {Event("table.deleted", o.t, s[TableRowOf(o.t)])}
    BY <1>5, Zenon DEF Events
  <2> QED BY <1>2, <2>1, <2>2, <2>3
<1>6. CASE o.kind = "restore_table"
  <2>1. o.t \in Tables
    BY <1>1, <1>6 DEF Ops
  <2>2. s[TableRowOf(o.t)] \in TableRow
    BY <1>1, <1>6, <2>1 DEF Admits, RestoreTableAdmits, PointersOK
  <2>3. Events(s, o) = {Event("table.restored", o.t, s[TableRowOf(o.t)])}
    BY <1>6, Zenon DEF Events
  <2> QED BY <1>2, <2>1, <2>2, <2>3
<1>7. CASE ~(o.kind \in {"commit_table", "rename_table", "soft_delete_table", "restore_table"})
  <2>1. Events(s, o) = {}
    BY <1>7 DEF Events
  <2> QED BY <2>1
<1> QED BY <1>3, <1>4, <1>5, <1>6, <1>7

\* Every row has its table's shape, in the database and in every snapshot,
\* no caller exceeds its attempts, and the outbox holds lifecycle events.
THEOREM TypeCorrect == Spec => []TypeOK
<1> DEFINE T == outbox \subseteq LifecycleEvent /\ named \in [Tables -> Nat]
<1>1. Init => T
  BY DEF Init
<1>2. IInv /\ T /\ [Next]_vars => T'
  <2> SUFFICES ASSUME IInv, T, [Next]_vars PROVE T'
    OBVIOUS
  <2>1. ASSUME NEW c \in Clients, Commit(c)
        PROVE  outbox' \subseteq LifecycleEvent /\ named' \in [Tables -> Nat]
    <3>1. Events(tx[c].snap, tx[c].op) \subseteq LifecycleEvent
      BY <2>1, CommitBody, EventsType DEF Body
    <3>2. PointersOK(db')
      BY <2>1, CommitBody, BodySound, SoundParts
    <3>3. named' = NamedAfter(db', tx[c].op)
      BY <2>1 DEF Commit
    <3>4. named' \in [Tables -> Nat]
      BY <3>2, <3>3 DEF NamedAfter, PointersOK, TableRow
    <3> QED BY <2>1, <3>1, <3>4 DEF Commit
  <2> QED BY <2>1, OnlyCommitWrites
<1>3. IInv /\ T => TypeOK
  <2> SUFFICES ASSUME IInv, T PROVE TypeOK
    OBVIOUS
  <2>1. DOMAIN tx = Clients
    BY DEF IInv
  <2>2. ASSUME NEW c \in Clients, tx[c] # Idle
        PROVE  /\ tx[c].phase \in {"queued", "running"}
               /\ tx[c].op \in Ops
               /\ tx[c].attempt \in 1..workload.attempts
               /\ tx[c].phase = "running" =>
                     RowTypeOK(tx[c].snap) /\ tx[c].dirty \subseteq Rows
    <3>1. CallOK(tx[c], db, workload)
      BY DEF IInv
    <3>2. tx[c].phase \in {"queued", "running"}
      <4>1. CASE QueuedTx(tx[c])
        BY <4>1 DEF QueuedTx
      <4>2. CASE RunningTx(tx[c])
        BY <4>2 DEF RunningTx
      <4> QED BY <2>2, <3>1, <4>1, <4>2 DEF CallOK, Shape
    <3> QED BY <2>2, <3>1, <3>2 DEF CallOK, OpOK, Sound
  <2> QED BY <2>1, <2>2 DEF TypeOK, IInv, Sound
<1> QED BY <1>1, <1>2, <1>3, Invariant, PTL DEF Spec

-----------------------------------------------------------------------------
(* The pointer log as a sequence.                                           *)

Version(d, t) == IF d[TableRowOf(t)] = Absent THEN 0 ELSE d[TableRowOf(t)].version

Log(d, t) == [v \in 1..Version(d, t) |-> d[LogRow(t, v)]]

LEMMA LogIsSequence ==
    ASSUME NEW d, PointersSound(d), NEW t \in Tables
    PROVE  /\ Version(d, t) \in 0..MaxVersion
           /\ Log(d, t) \in Seq(CommitRecord)
           /\ Len(Log(d, t)) = Version(d, t)
           /\ DOMAIN Log(d, t) = 1..Version(d, t)
           /\ \A v \in 1..Version(d, t) : v \in 1..MaxVersion /\ Log(d, t)[v] = d[LogRow(t, v)]
<1>1. Version(d, t) \in 0..MaxVersion
  BY TursoAssumption DEF Version, PointersSound, PointersOK, LogsComplete, TableRow
<1> DEFINE n == Version(d, t)
<1> HIDE DEF n
<1>2. \A v \in 1..n : v \in 1..MaxVersion /\ d[LogRow(t, v)] \in CommitRecord
  BY <1>1, TursoAssumption DEF Version, PointersSound, PointersOK, LogsComplete, n
<1>3. [v \in 1..n |-> d[LogRow(t, v)]] \in Seq(CommitRecord)
  BY <1>1, <1>2 DEF n
<1>4. Len([v \in 1..n |-> d[LogRow(t, v)]]) = n
  BY <1>1, <1>3 DEF n
<1> QED BY <1>1, <1>2, <1>3, <1>4 DEF Log, n

HistoryOf(d, t) ==
    LET written == {v \in 1..MaxVersion : d[LogRow(t, v)] # Absent}
    IN  [v \in 1..Cardinality(written) |-> d[LogRow(t, v)]]

\* The versions of a sound log are an interval, so its records are its first
\* Version(d, t) rows.
LEMMA HistoryIsLog ==
    ASSUME NEW d, PointersSound(d), NEW t \in Tables
    PROVE  HistoryOf(d, t) = Log(d, t)
<1>1. Version(d, t) \in 0..MaxVersion
  BY LogIsSequence
<1>2. {v \in 1..MaxVersion : d[LogRow(t, v)] # Absent} = 1..Version(d, t)
  BY <1>1, TursoAssumption DEF PointersSound, PointersOK, LogsComplete, Version, TableRow
<1>3. Cardinality(1..Version(d, t)) = Version(d, t)
  BY <1>1, FS_Interval
<1> QED BY <1>2, <1>3 DEF HistoryOf, Log

LEMMA Histories ==
    ASSUME IInv, NEW t \in Tables
    PROVE  History(t) = Log(db, t)
<1>1. PointersSound(db)
  BY SoundParts DEF IInv, PointersSound
<1>2. History(t) = HistoryOf(db, t)
  BY DEF History, HistoryOf
<1> QED BY <1>1, <1>2, HistoryIsLog

\* A repeated request is answered with what its commit did to the table in
\* its present life.
THEOREM RepliesAreHistory == Spec => []ReplayIsHistory
<1>1. IInv => ReplayIsHistory
  <2> SUFFICES ASSUME IInv, NEW i \in IdemKeys, db[IdemRow(i)] # Absent
               PROVE  LET replay == db[IdemRow(i)]
                          v      == replay.response.version
                      IN  /\ v \in DOMAIN History(replay.table)
                          /\ History(replay.table)[v].new = replay.response.location
                          /\ History(replay.table)[v].key = i[2]
                          /\ History(replay.table)[v].request = replay.request
    BY DEF ReplayIsHistory
  <2>1. PointersSound(db)
    BY SoundParts DEF IInv, PointersSound
  <2>2. db[IdemRow(i)].table \in Tables /\ KeyFiled(db, i)
    BY <2>1 DEF PointersSound, PointersOK, KeysFiled, ReplayRow
  <2>3. History(db[IdemRow(i)].table) = Log(db, db[IdemRow(i)].table)
    BY <2>2, Histories
  <2> QED BY <2>1, <2>2, <2>3, LogIsSequence DEF KeyFiled, Version
<1> QED BY <1>1, Invariant, PTL

\* The other direction: record v of a table's log is what its key's record
\* says.  It holds for the commits that the table got under its present name.
EntryFiled(d, t, v) ==
    LET key    == d[LogRow(t, v)].key
        replay == d[IdemRow(IdemKey(t, key))]
    IN  key # NoKey => /\ replay # Absent
                       /\ replay.table = t
                       /\ replay.response.version = v

EntriesFiled(d, m) ==
    \A t \in Tables :
       /\ m[t] \in Nat
       /\ d[TableRowOf(t)] # Absent =>
             \A v \in 1..MaxVersion :
                m[t] < v /\ v <= d[TableRowOf(t)].version => EntryFiled(d, t, v)

LEMMA EntryStays ==
    ASSUME NEW d, NEW e, NEW t, NEW v, EntryFiled(d, t, v),
           e[LogRow(t, v)] = d[LogRow(t, v)],
           d[LogRow(t, v)].key # NoKey =>
              e[IdemRow(IdemKey(t, d[LogRow(t, v)].key))] =
                 d[IdemRow(IdemKey(t, d[LogRow(t, v)].key))]
    PROVE  EntryFiled(e, t, v)
BY DEF EntryFiled

\* The commit of one transaction files what it logs, and takes no record away
\* from a table that keeps its name.
LEMMA EffectFiles ==
    ASSUME NEW d, NEW e, NEW o, NEW m, PointersSound(d), Effect(d, e, o),
           EntriesFiled(d, m), NEW t \in Tables, e[TableRowOf(t)] # Absent,
           ~(o.kind = "rename_table" /\ t = o.d),
           NEW v \in 1..MaxVersion, m[t] < v, v <= e[TableRowOf(t)].version
    PROVE  EntryFiled(e, t, v)
<1> DEFINE key == d[LogRow(t, v)].key
           i   == IdemKey(t, key)
<1>1. ASSUME d[TableRowOf(t)] # Absent, v <= d[TableRowOf(t)].version
      PROVE  /\ EntryFiled(d, t, v)
             /\ key # NoKey => i \in IdemKeys /\ d[IdemRow(i)] # Absent /\ d[IdemRow(i)].table = t
  <2>1. d[LogRow(t, v)] \in CommitRecord
    BY <1>1 DEF PointersSound, PointersOK, LogsComplete
  <2>2. key # NoKey => i \in IdemKeys
    BY <2>1 DEF CommitRecord, IdemKeys
  <2>3. EntryFiled(d, t, v)
    BY <1>1 DEF EntriesFiled
  <2> QED BY <2>2, <2>3 DEF EntryFiled
<1>2. ASSUME e[TableRowOf(t)] = d[TableRowOf(t)], e[LogRow(t, v)] = d[LogRow(t, v)],
             \A j \in IdemKeys : d[IdemRow(j)] # Absent /\ d[IdemRow(j)].table = t =>
                                    e[IdemRow(j)] = d[IdemRow(j)]
      PROVE  EntryFiled(e, t, v)
  BY <1>1, <1>2, EntryStays
<1>3. CASE PointersKept(d, e)
  BY <1>2, <1>3 DEF PointersKept
<1>4. CASE o.t \in Tables /\ o.loc \in MetadataLocations /\ Created(d, e, o.t, o.loc)
  <2>1. CASE t = o.t
    <3>1. e[TableRowOf(t)].version = 0
      BY <1>4, <2>1 DEF Created, NewTable
    <3> QED BY <3>1
  <2>2. CASE t # o.t
    BY <1>2, <1>4, <2>2 DEF Created, LogsKept, KeysKept
  <2> QED BY <2>1, <2>2
<1>5. CASE o \in CommitOp /\ o.loaded.version < MaxVersion /\ Committed(d, e, o)
  <2> DEFINE row == d[TableRowOf(o.t)]
             replay == [table |-> o.t, request |-> o.request, response |-> Advanced(row, o.loc)]
             rec == CommitRecordOf(row, o.loc, o.key, o.request)
  <2>1. o.t \in Tables /\ row \in TableRow /\ row.version \in Nat /\ row # Absent
    BY <1>5, AbsentAssumption DEF CommitOp, Committed, TableRow
  <2>2. Advanced(row, o.loc).version = row.version + 1 /\ rec.key = o.key
    BY DEF Advanced, CommitRecordOf
  <2>3. ASSUME NEW j \in IdemKeys, d[IdemRow(j)] # Absent PROVE e[IdemRow(j)] = d[IdemRow(j)]
    BY <1>5, <2>3 DEF Committed
  <2>4. CASE t # o.t
    BY <1>2, <1>5, <2>3, <2>4 DEF Committed
  <2>5. CASE t = o.t /\ v = row.version + 1
    <3>1. e[LogRow(t, v)] = rec
      BY <1>5, <2>5 DEF Committed
    <3>2. ASSUME o.key # NoKey
          PROVE  /\ e[IdemRow(IdemKey(t, o.key))] = replay
                 /\ replay # Absent
      <4>1. IdemKey(t, o.key) \in IdemKeys
        BY <1>5, <3>2 DEF CommitOp, IdemKeys
      <4>2. replay \in ReplayRow
        <5>1. Advanced(row, o.loc) \in TableRow
          BY <1>5, <2>1 DEF CommitOp, Advanced, TableRow
        <5> QED BY <1>5, <2>1, <5>1 DEF CommitOp, ReplayRow
      <4> QED BY <1>5, <2>5, <3>2, <4>1, <4>2, AbsentAssumption DEF Committed
    <3>3. replay.table = t /\ replay.response.version = v
      BY <2>2, <2>5
    <3> HIDE DEF replay, rec
    <3> QED BY <2>2, <3>1, <3>2, <3>3 DEF EntryFiled
  <2>6. CASE t = o.t /\ v # row.version + 1
    <3>1. e[TableRowOf(t)] = Advanced(row, o.loc) /\ e[LogRow(t, v)] = d[LogRow(t, v)]
      BY <1>5, <2>6 DEF Committed
    <3>2. v <= row.version
      BY <2>1, <2>2, <2>6, <3>1
    <3>3. EntryFiled(d, t, v) /\ (key # NoKey => i \in IdemKeys /\ d[IdemRow(i)] # Absent)
      BY <1>1, <2>1, <2>6, <3>2
    <3> QED BY <2>3, <3>1, <3>3, EntryStays
  <2> QED BY <2>4, <2>5, <2>6
<1>6. CASE o.kind = "rename_table" /\ o.t \in Tables /\ o.d \in Tables /\ Renamed(d, e, o.t, o.d)
  <2>1. t # o.t /\ t # o.d
    BY <1>6 DEF Renamed
  <2> QED BY <1>2, <1>6, <2>1 DEF Renamed, Forgotten
<1>7. CASE \E S \in SUBSET Tables : Retired(d, e, S)
  <2>1. PICK S \in SUBSET Tables : Retired(d, e, S)
    BY <1>7
  <2>2. t \notin S
    BY <2>1 DEF Retired
  <2> QED BY <1>2, <2>1, <2>2 DEF Retired, Forgotten
<1> QED BY <1>3, <1>4, <1>5, <1>6, <1>7 DEF Effect

LEMMA CommitFiles ==
    ASSUME IInv, EntriesFiled(db, named), NEW c \in Clients, Commit(c)
    PROVE  EntriesFiled(db', named')
<1> DEFINE o == tx[c].op
<1>1. PointersSound(db)
  BY SoundParts DEF IInv, PointersSound
<1>2. Effect(db, db', o) /\ Sound(db')
  BY CommitBody, BodyEffect, BodySound
<1>3. PointersSound(db')
  BY <1>2, SoundParts DEF PointersSound
<1>4. \A t \in Tables :
         named'[t] = IF db'[TableRowOf(t)] = Absent THEN 0
                     ELSE IF o.kind = "rename_table" /\ t = o.d THEN db'[TableRowOf(t)].version
                     ELSE named[t]
  BY DEF Commit, NamedAfter
<1> HIDE DEF o
<1> SUFFICES ASSUME NEW t \in Tables
             PROVE  /\ named'[t] \in Nat
                    /\ db'[TableRowOf(t)] # Absent =>
                          \A v \in 1..MaxVersion :
                             named'[t] < v /\ v <= db'[TableRowOf(t)].version =>
                                EntryFiled(db', t, v)
  BY DEF EntriesFiled
<1>5. CASE db'[TableRowOf(t)] = Absent
  BY <1>4, <1>5
<1>6. CASE db'[TableRowOf(t)] # Absent /\ o.kind = "rename_table" /\ t = o.d
  BY <1>3, <1>4, <1>6 DEF PointersSound, PointersOK, TableRow
<1>7. CASE db'[TableRowOf(t)] # Absent /\ ~(o.kind = "rename_table" /\ t = o.d)
  <2>1. named'[t] = named[t] /\ named[t] \in Nat
    BY <1>4, <1>7 DEF EntriesFiled
  <2> QED BY <1>1, <1>2, <1>7, <2>1, EffectFiles
<1> QED BY <1>5, <1>6, <1>7

\* No two commits that a table got under its present name carry one key,
\* whatever transactions of it race, are rolled back and run again: each of
\* them writes the row of the table, and finds the records of the others.
THEOREM KeysCommitOnce == Spec => []KeyCommitsOnce
<1>1. Init => EntriesFiled(db, named)
  BY RowsThere DEF Init, EntriesFiled
<1>2. IInv /\ EntriesFiled(db, named) /\ [Next]_vars => EntriesFiled(db, named)'
  <2> SUFFICES ASSUME IInv, EntriesFiled(db, named), [Next]_vars
               PROVE  EntriesFiled(db', named')
    OBVIOUS
  <2> QED BY CommitFiles, OnlyCommitWrites
<1>3. IInv /\ EntriesFiled(db, named) => KeyCommitsOnce
  <2> SUFFICES ASSUME IInv, EntriesFiled(db, named), NEW t \in Tables,
                      NEW v \in (named[t] + 1)..Len(History(t)),
                      NEW w \in (named[t] + 1)..Len(History(t)),
                      History(t)[v].key # NoKey, History(t)[v].key = History(t)[w].key
               PROVE  v = w
    BY DEF KeyCommitsOnce
  <2>1. PointersSound(db) /\ History(t) = Log(db, t) /\ named[t] \in Nat
    BY SoundParts, Histories DEF IInv, PointersSound, EntriesFiled
  <2>2. Len(History(t)) = Version(db, t) /\ Version(db, t) \in 0..MaxVersion
    BY <2>1, LogIsSequence
  <2>3. v \in 1..Version(db, t) /\ w \in 1..Version(db, t) /\ named[t] < v /\ named[t] < w
    BY <2>1, <2>2, TursoAssumption
  <2>4. /\ History(t)[v] = db[LogRow(t, v)] /\ History(t)[w] = db[LogRow(t, w)]
        /\ v \in 1..MaxVersion /\ w \in 1..MaxVersion
    BY <2>1, <2>3, LogIsSequence
  <2>5. EntryFiled(db, t, v) /\ EntryFiled(db, t, w)
    BY <2>3, <2>4 DEF EntriesFiled, Version
  <2> QED BY <2>4, <2>5 DEF EntryFiled
<1> QED BY <1>1, <1>2, <1>3, Invariant, PTL DEF Spec

\* Every record of d's logs was announced in the outbox O.
Announced(d, O) ==
    \A t \in Tables : \A v \in 1..MaxVersion :
       d[LogRow(t, v)] # Absent =>
          \E e \in O : /\ e.type = "table.commit"
                       /\ e.version = v
                       /\ e.location = d[LogRow(t, v)].new

LEMMA CommitAnnounces ==
    ASSUME NEW s, NEW D, NEW d, NEW o, NEW W, NEW e, Body(s, D, d, o, W, e),
           NEW O, Announced(d, O)
    PROVE  Announced(e, O \cup Events(s, o))
<1>1. Effect(d, e, o)
  BY BodyEffect
<1>2. CASE o \in CommitOp /\ Committed(d, e, o)
  <2> DEFINE row == d[TableRowOf(o.t)]
             ev == Event("table.commit", o.t, Advanced(row, o.loc))
  <2>1. o.kind = "commit_table" /\ o.t \in Tables
    BY <1>2 DEF CommitOp
  <2>2. s[TableRowOf(o.t)] = row
    BY <2>1, CommitTableBody, Reads, RowsThere
  <2>3. ev \in Events(s, o)
    BY <2>1, <2>2, Zenon DEF Events
  <2>4. ev.type = "table.commit" /\ ev.version = row.version + 1 /\ ev.location = o.loc
    BY DEF Event, Advanced
  <2>5. CommitRecordOf(row, o.loc, o.key, o.request).new = o.loc
    BY DEF CommitRecordOf
  <2>6. ASSUME NEW t \in Tables, NEW v \in 1..MaxVersion, e[LogRow(t, v)] # Absent
        PROVE  \E x \in O \cup Events(s, o) : /\ x.type = "table.commit"
                                              /\ x.version = v
                                              /\ x.location = e[LogRow(t, v)].new
    <3>1. CASE t = o.t /\ v = row.version + 1
      <4>1. e[LogRow(t, v)] = CommitRecordOf(row, o.loc, o.key, o.request)
        BY <1>2, <3>1 DEF Committed
      <4> HIDE DEF ev
      <4> QED BY <2>3, <2>4, <2>5, <3>1, <4>1
    <3>2. CASE ~(t = o.t /\ v = row.version + 1)
      <4>1. e[LogRow(t, v)] = d[LogRow(t, v)]
        BY <1>2, <3>2 DEF Committed
      <4> QED BY <2>6, <4>1 DEF Announced
    <3> QED BY <3>1, <3>2
  <2> QED BY <2>6 DEF Announced
<1>3. CASE ~(o \in CommitOp /\ Committed(d, e, o))
  <2>1. ASSUME NEW t \in Tables, NEW v \in 1..MaxVersion, e[LogRow(t, v)] # Absent
        PROVE  \E u \in Tables : e[LogRow(t, v)] = d[LogRow(u, v)]
    BY <1>1, <1>3, <2>1 DEF Effect, PointersKept, Created, LogsKept, Renamed, Retired
  <2> QED BY <2>1 DEF Announced
<1> QED BY <1>2, <1>3

\* Every record of a pointer log has its table.commit event in the outbox:
\* the event is inserted by the transaction that inserts the record.
THEOREM EveryCommitEvidenced == Spec => []CommitsEvidenced
<1>1. Init => Announced(db, outbox)
  BY RowsThere DEF Init, Announced
<1>2. IInv /\ Announced(db, outbox) /\ [Next]_vars => Announced(db, outbox)'
  <2> SUFFICES ASSUME IInv, Announced(db, outbox), [Next]_vars
               PROVE  Announced(db', outbox')
    OBVIOUS
  <2>1. ASSUME NEW c \in Clients, Commit(c) PROVE Announced(db', outbox')
    BY <2>1, CommitBody, CommitAnnounces DEF Commit
  <2> QED BY <2>1, OnlyCommitWrites
<1>3. IInv /\ Announced(db, outbox) => CommitsEvidenced
  <2> SUFFICES ASSUME IInv, Announced(db, outbox), NEW t \in Tables,
                      NEW v \in DOMAIN History(t)
               PROVE  \E e \in outbox : /\ e.type = "table.commit"
                                        /\ e.version = v
                                        /\ e.location = History(t)[v].new
    BY DEF CommitsEvidenced
  <2>1. PointersSound(db) /\ History(t) = Log(db, t)
    BY SoundParts, Histories DEF IInv, PointersSound
  <2>2. v \in 1..Version(db, t) /\ v \in 1..MaxVersion /\ History(t)[v] = db[LogRow(t, v)]
    BY <2>1, LogIsSequence
  <2>3. db[LogRow(t, v)] # Absent
    BY <2>1, <2>2, LogIsSequence DEF PointersSound, LogsComplete, Version
  <2> QED BY <2>2, <2>3 DEF Announced
<1> QED BY <1>1, <1>2, <1>3, Invariant, PTL DEF Spec

-----------------------------------------------------------------------------
(* Refinement.                                                              *)

\* The refinement mapping, of any database.
PointersOf(d) == [t \in Tables |-> d[TableRowOf(t)]]

LogsOf(d) == [t \in Tables |-> Log(d, t)]

LEMMA KeptPointers ==
    ASSUME NEW d, NEW e, PointersSound(d), PointersKept(d, e)
    PROVE  PointersOf(e) = PointersOf(d) /\ LogsOf(e) = LogsOf(d)
<1>1. PointersOf(e) = PointersOf(d)
  BY DEF PointersKept, PointersOf
<1>2. ASSUME NEW t \in Tables PROVE Log(e, t) = Log(d, t)
  <2>1. Version(e, t) = Version(d, t)
    BY DEF PointersKept, Version
  <2>2. \A v \in 1..Version(d, t) : e[LogRow(t, v)] = d[LogRow(t, v)]
    BY LogIsSequence DEF PointersKept
  <2> QED BY <2>1, <2>2 DEF Log
<1> QED BY <1>1, <1>2 DEF LogsOf

LEMMA CreatedPointers ==
    ASSUME NEW d, NEW e, PointersSound(d), NEW t \in Tables, NEW loc \in MetadataLocations,
           Created(d, e, t, loc)
    PROVE  /\ PointersOf(d)[t] = Absent
           /\ PointersOf(e) = [PointersOf(d) EXCEPT ![t] = NewTable(loc)]
           /\ LogsOf(e) = LogsOf(d)
<1>1. PointersOf(e) = [PointersOf(d) EXCEPT ![t] = NewTable(loc)]
  BY DEF Created, PointersOf
<1>2. NewTable(loc) # Absent /\ NewTable(loc).version = 0
  BY AbsentAssumption DEF NewTable, TableRow
<1>3. ASSUME NEW u \in Tables PROVE Log(e, u) = Log(d, u)
  <2>1. Version(e, u) = Version(d, u)
    BY <1>2 DEF Created, Version
  <2>2. \A v \in 1..Version(d, u) : e[LogRow(u, v)] = d[LogRow(u, v)]
    BY LogIsSequence DEF Created, LogsKept
  <2> QED BY <2>1, <2>2 DEF Log
<1> QED BY <1>1, <1>3 DEF Created, PointersOf, LogsOf

LEMMA CommittedPointers ==
    ASSUME NEW d, NEW e, PointersSound(d), NEW o \in CommitOp,
           o.loaded.version < MaxVersion, Committed(d, e, o)
    PROVE  LET row == PointersOf(d)[o.t]
           IN  /\ row # Absent
               /\ PointersOf(e) = [PointersOf(d) EXCEPT ![o.t] = Advanced(row, o.loc)]
               /\ LogsOf(e) = [LogsOf(d) EXCEPT ![o.t] =
                                  Append(@, CommitRecordOf(row, o.loc, o.key, o.request))]
<1> DEFINE row == d[TableRowOf(o.t)]
           rec == CommitRecordOf(row, o.loc, o.key, o.request)
           n   == row.version
<1>1. o.t \in Tables /\ row \in TableRow /\ row # Absent /\ n \in Nat
  BY AbsentAssumption DEF CommitOp, Committed, TableRow
<1>2. PointersOf(d)[o.t] = row
  BY <1>1 DEF PointersOf
<1>3. PointersOf(e) = [PointersOf(d) EXCEPT ![o.t] = Advanced(row, o.loc)]
  BY <1>1 DEF Committed, PointersOf
<1>4. PointersSound(e)
  BY CommittedSound
<1>5. rec \in CommitRecord
  BY <1>1 DEF CommitRecordOf, CommitRecord, TableRow, CommitOp
<1>6. Version(d, o.t) = n /\ Version(e, o.t) = n + 1
  <2>1. /\ Advanced(row, o.loc).version = n + 1
        /\ e[TableRowOf(o.t)] = Advanced(row, o.loc)
    BY <1>1 DEF Committed, Advanced
  <2>2. Advanced(row, o.loc) # Absent
    BY <1>1, AbsentAssumption DEF Advanced, TableRow, CommitOp
  <2> QED BY <1>1, <2>1, <2>2 DEF Version
<1>7. Log(e, o.t) = Append(Log(d, o.t), rec)
  <2>1. /\ Log(d, o.t) \in Seq(CommitRecord) /\ Len(Log(d, o.t)) = n
        /\ Log(e, o.t) \in Seq(CommitRecord) /\ Len(Log(e, o.t)) = n + 1
        /\ \A v \in 1..n : v \in 1..MaxVersion /\ Log(d, o.t)[v] = d[LogRow(o.t, v)]
        /\ \A v \in 1..n + 1 : v \in 1..MaxVersion /\ Log(e, o.t)[v] = e[LogRow(o.t, v)]
    BY <1>1, <1>4, <1>6, LogIsSequence
  <2>2. e[LogRow(o.t, n + 1)] = rec /\ \A v \in 1..n : e[LogRow(o.t, v)] = d[LogRow(o.t, v)]
    BY <1>1, <2>1 DEF Committed
  <2> DEFINE g == Append(Log(d, o.t), rec)
  <2> HIDE DEF rec, row, n
  <2>3. /\ g \in Seq(CommitRecord) /\ Len(g) = n + 1
        /\ g[n + 1] = rec /\ \A v \in 1..n : g[v] = Log(d, o.t)[v]
    BY <1>1, <1>5, <2>1
  <2>4. \A v \in 1..n + 1 : Log(e, o.t)[v] = g[v]
    BY <1>1, <2>1, <2>2, <2>3
  <2> HIDE DEF g
  <2>5. Log(e, o.t) = g
    BY <2>1, <2>3, <2>4, SeqEqual
  <2> QED BY <2>5 DEF g
<1>8. ASSUME NEW u \in Tables, u # o.t PROVE Log(e, u) = Log(d, u)
  <2>1. Version(e, u) = Version(d, u)
    BY <1>8 DEF Committed, Version
  <2>2. \A v \in 1..Version(d, u) : e[LogRow(u, v)] = d[LogRow(u, v)]
    BY <1>8, LogIsSequence DEF Committed
  <2> QED BY <2>1, <2>2 DEF Log
<1>9. LogsOf(e) = [LogsOf(d) EXCEPT ![o.t] = Append(@, rec)]
  <2> HIDE DEF rec
  <2> QED BY <1>1, <1>7, <1>8 DEF LogsOf
<1> QED BY <1>1, <1>2, <1>3, <1>9

LEMMA RenamedPointers ==
    ASSUME NEW d, NEW e, PointersSound(d), NEW t \in Tables, NEW u \in Tables,
           Renamed(d, e, t, u)
    PROVE  /\ PointersOf(d)[t] # Absent /\ PointersOf(d)[u] = Absent
           /\ PointersOf(e) = [PointersOf(d) EXCEPT ![t] = Absent, ![u] = PointersOf(d)[t]]
           /\ LogsOf(e) = [LogsOf(d) EXCEPT ![t] = <<>>, ![u] = LogsOf(d)[t]]
<1>1. t # u
  BY DEF Renamed
<1>2. PointersOf(e) = [PointersOf(d) EXCEPT ![t] = Absent, ![u] = PointersOf(d)[t]]
  BY <1>1 DEF Renamed, PointersOf
<1>3. Log(e, t) = <<>>
  <2>1. Version(e, t) = 0
    BY DEF Renamed, Version
  <2>2. 1..0 = {}
    OBVIOUS
  <2> QED BY <2>1, <2>2 DEF Log
<1>4. Log(e, u) = Log(d, t)
  <2>1. Version(e, u) = Version(d, t)
    BY <1>1 DEF Renamed, Version
  <2>2. \A v \in 1..Version(d, t) : e[LogRow(u, v)] = d[LogRow(t, v)]
    BY <1>1, LogIsSequence DEF Renamed
  <2> QED BY <2>1, <2>2 DEF Log
<1>5. ASSUME NEW x \in Tables, x # t, x # u PROVE Log(e, x) = Log(d, x)
  <2>1. Version(e, x) = Version(d, x)
    BY <1>5 DEF Renamed, Version
  <2>2. \A v \in 1..Version(d, x) : e[LogRow(x, v)] = d[LogRow(x, v)]
    BY <1>5, LogIsSequence DEF Renamed
  <2> QED BY <2>1, <2>2 DEF Log
<1>6. LogsOf(e) = [LogsOf(d) EXCEPT ![t] = <<>>, ![u] = LogsOf(d)[t]]
  BY <1>1, <1>3, <1>4, <1>5 DEF LogsOf
<1> QED BY <1>2, <1>6 DEF Renamed, PointersOf

LEMMA RetiredPointers ==
    ASSUME NEW d, NEW e, PointersSound(d), NEW S \in SUBSET Tables, Retired(d, e, S)
    PROVE  /\ PointersOf(e) = [t \in Tables |-> IF t \in S THEN Absent ELSE PointersOf(d)[t]]
           /\ LogsOf(e) = [t \in Tables |-> IF t \in S THEN <<>> ELSE LogsOf(d)[t]]
<1>1. PointersOf(e) = [t \in Tables |-> IF t \in S THEN Absent ELSE PointersOf(d)[t]]
  BY DEF Retired, PointersOf
<1>2. ASSUME NEW t \in Tables PROVE Log(e, t) = IF t \in S THEN <<>> ELSE Log(d, t)
  <2>1. CASE t \in S
    <3>1. Version(e, t) = 0
      BY <2>1 DEF Retired, Version
    <3>2. 1..0 = {}
      OBVIOUS
    <3> QED BY <2>1, <3>1, <3>2 DEF Log
  <2>2. CASE t \notin S
    <3>1. Version(e, t) = Version(d, t)
      BY <2>2 DEF Retired, Version
    <3>2. \A v \in 1..Version(d, t) : e[LogRow(t, v)] = d[LogRow(t, v)]
      BY <2>2, LogIsSequence DEF Retired
    <3> QED BY <2>2, <3>1, <3>2 DEF Log
  <2> QED BY <2>1, <2>2
<1> QED BY <1>1, <1>2 DEF LogsOf

\* TablePointer's vocabulary is the store's.
LEMMA SameVocabulary ==
    /\ Pointers!Tables = Tables
    /\ Pointers!MetadataLocations = MetadataLocations
    /\ Pointers!TableRow = TableRow /\ Pointers!CommitRecord = CommitRecord
    /\ \A loc : Pointers!NewTable(loc) = NewTable(loc)
    /\ \A row, loc : Pointers!Advanced(row, loc) = Advanced(row, loc)
    /\ \A row, loc, key, request :
          Pointers!CommitRecordOf(row, loc, key, request)
             = CommitRecordOf(row, loc, key, request)
BY DEF Pointers!Tables, Tables, Pointers!MetadataLocations, MetadataLocations,
       Pointers!TableRow, TableRow, Pointers!CommitRecord, CommitRecord,
       Pointers!NewTable, NewTable, Pointers!Advanced, Advanced,
       Pointers!CommitRecordOf, CommitRecordOf

\* What the refinement mapping makes of a sound database.
LEMMA Mapping ==
    ASSUME IInv
    PROVE  /\ [t \in Tables |-> db[TableRowOf(t)]] = PointersOf(db)
           /\ [t \in Tables |-> History(t)] = LogsOf(db)
BY Histories DEF PointersOf, LogsOf

LEMMA InitRefines == Init => Pointers!Init
<1> SUFFICES ASSUME Init PROVE Pointers!Init
  OBVIOUS
<1>1. IInv
  BY InitIInv
<1>2. \A t \in Tables : db[TableRowOf(t)] = Absent
  BY RowsThere DEF Init
<1>3. 1..0 = {}
  OBVIOUS
<1>4. \A t \in Tables : History(t) = <<>>
  BY <1>1, <1>2, <1>3, Histories DEF Log, Version
<1> QED BY <1>2, <1>4, SameVocabulary DEF Pointers!Init

LEMMA StepRefines ==
    IInv /\ IInv' /\ [Next]_vars => [Pointers!Next]_(Pointers!vars)
<1> SUFFICES ASSUME IInv, IInv', [Next]_vars PROVE [Pointers!Next]_(Pointers!vars)
  OBVIOUS
<1> DEFINE p == [t \in Tables |-> db[TableRowOf(t)]]
           h == [t \in Tables |-> History(t)]
<1>1. p = PointersOf(db) /\ h = LogsOf(db)
  BY Mapping
<1>2. p' = PointersOf(db') /\ h' = LogsOf(db')
  <2>1. [t \in Tables |-> db'[TableRowOf(t)]] = PointersOf(db')
    BY DEF PointersOf
  <2>2. PointersSound(db')
    BY SoundParts DEF IInv, PointersSound
  <2>3. \A t \in Tables : History(t)' = Log(db', t)
    BY <2>2, HistoryIsLog DEF History, HistoryOf
  <2> QED BY <2>1, <2>3 DEF LogsOf
<1>3. PointersSound(db)
  BY SoundParts DEF IInv, PointersSound
<1>4. SUFFICES ASSUME NEW c \in Clients, Commit(c) PROVE [Pointers!Next]_(Pointers!vars)
  <2>1. CASE db' = db
    BY <1>1, <1>2, <2>1 DEF Pointers!vars
  <2> QED BY <2>1, OnlyCommitWrites
<1>5. Effect(db, db', tx[c].op)
  BY <1>4, CommitBody, BodyEffect
<1> DEFINE o == tx[c].op
<1> HIDE DEF p, h, o
<1>6. CASE PointersKept(db, db')
  <2>1. p' = p /\ h' = h
    BY <1>1, <1>2, <1>3, <1>6, KeptPointers
  <2> QED BY <2>1 DEF Pointers!vars, p, h
<1>7. CASE /\ o.t \in Tables /\ o.loc \in MetadataLocations
           /\ Created(db, db', o.t, o.loc)
  <2>1. p[o.t] = Absent /\ p' = [p EXCEPT ![o.t] = NewTable(o.loc)] /\ h' = h
    BY <1>1, <1>2, <1>3, <1>7, CreatedPointers
  <2>2. Pointers!Create(o.t)
    BY <1>7, <2>1, SameVocabulary DEF Pointers!Create, p, h
  <2> QED BY <1>7, <2>2, SameVocabulary DEF Pointers!Next
<1>8. CASE o \in CommitOp /\ o.loaded.version < MaxVersion /\ Committed(db, db', o)
  <2>1. /\ o.t \in Tables /\ o.loc \in MetadataLocations /\ o.key \in Keys \cup {NoKey}
        /\ o.request \in Requests
    BY <1>8 DEF CommitOp
  <2>2. /\ p[o.t] # Absent
        /\ p' = [p EXCEPT ![o.t] = Advanced(p[o.t], o.loc)]
        /\ h' = [h EXCEPT ![o.t] =
                    Append(@, CommitRecordOf(p[o.t], o.loc, o.key, o.request))]
    BY <1>1, <1>2, <1>3, <1>8, CommittedPointers
  <2>3. Pointers!Advance(o.t)
    <3>1. \E loc \in Pointers!MetadataLocations, key \in Keys \cup {NoKey}, req \in Requests :
             /\ p' = [p EXCEPT ![o.t] = Pointers!Advanced(p[o.t], loc)]
             /\ h' = [h EXCEPT ![o.t] =
                         Append(@, Pointers!CommitRecordOf(p[o.t], loc, key, req))]
      BY <2>1, <2>2, SameVocabulary
    <3> QED BY <2>2, <3>1, Zenon DEF Pointers!Advance, p, h
  <2> QED BY <2>1, <2>3, SameVocabulary DEF Pointers!Next
<1>9. CASE o.t \in Tables /\ o.d \in Tables /\ Renamed(db, db', o.t, o.d)
  <2>1. /\ p[o.t] # Absent /\ p[o.d] = Absent
        /\ p' = [p EXCEPT ![o.t] = Absent, ![o.d] = p[o.t]]
        /\ h' = [h EXCEPT ![o.t] = <<>>, ![o.d] = h[o.t]]
    BY <1>1, <1>2, <1>3, <1>9, RenamedPointers
  <2>2. Pointers!Move(o.t, o.d)
    BY <2>1 DEF Pointers!Move, p, h
  <2> QED BY <1>9, <2>2, SameVocabulary DEF Pointers!Next
<1>10. CASE \E S \in SUBSET Tables : Retired(db, db', S)
  <2>1. PICK S \in SUBSET Tables : Retired(db, db', S)
    BY <1>10
  <2>2. /\ p' = [t \in Tables |-> IF t \in S THEN Absent ELSE p[t]]
        /\ h' = [t \in Tables |-> IF t \in S THEN <<>> ELSE h[t]]
    BY <1>1, <1>2, <1>3, <2>1, RetiredPointers
  <2>3. Pointers!Retire(S)
    BY <2>2, SameVocabulary DEF Pointers!Retire, p, h
  <2> QED BY <2>1, <2>3, SameVocabulary DEF Pointers!Next
<1> QED BY <1>5, <1>6, <1>7, <1>8, <1>9, <1>10 DEF Effect, o

\* The durable store implements the promise about pointers and histories:
\* whatever transactions interleave, roll back, retry or are cancelled, a
\* COMMIT is one step of TablePointer or changes neither.
THEOREM Refinement == Spec => ImplementsTablePointer
BY InitRefines, StepRefines, Invariant, PTL
   DEF Spec, ImplementsTablePointer, Pointers!Spec

\* A table starts with an empty history.
LEMMA NewTableTells ==
    ASSUME NEW loc \in MetadataLocations
    PROVE  NewTable(loc) \in TableRow /\ Pointers!Tells(<<>>, NewTable(loc))
<1>1. NewTable(loc) \in TableRow
  BY DEF NewTable, TableRow
<1>2. NewTable(loc) # Absent
  BY <1>1, AbsentAssumption
<1> QED BY <1>1, <1>2 DEF NewTable, Pointers!Tells

\* A commit extends the story by the move it makes.
LEMMA AdvancedTells ==
    ASSUME NEW row \in TableRow, NEW h \in Seq(CommitRecord), Pointers!Tells(h, row),
           NEW loc \in MetadataLocations, NEW key \in Keys \cup {NoKey},
           NEW req \in Requests
    PROVE  /\ Advanced(row, loc) \in TableRow
           /\ CommitRecordOf(row, loc, key, req) \in CommitRecord
           /\ Pointers!Tells(Append(h, CommitRecordOf(row, loc, key, req)), Advanced(row, loc))
<1> DEFINE new == Advanced(row, loc)
           rec == CommitRecordOf(row, loc, key, req)
           g   == Append(h, rec)
<1>1. new \in TableRow /\ new.version = row.version + 1 /\ new.location = loc
  BY DEF Advanced, TableRow
<1>2. rec \in CommitRecord
  BY DEF CommitRecordOf, CommitRecord, TableRow
<1>3. /\ rec.previous = row.location
      /\ rec.new = loc
      /\ rec.sequence_number = row.version + 1
  BY DEF CommitRecordOf
<1>4. row # Absent /\ new # Absent
  BY <1>1, AbsentAssumption
<1>5. row.version \in Nat /\ Len(h) = row.version
  BY <1>4 DEF Pointers!Tells, TableRow
<1>6. /\ Len(g) = row.version + 1
      /\ g[row.version + 1] = rec
      /\ \A i \in 1..row.version : g[i] = h[i]
  BY <1>2, <1>5
<1>7. ASSUME NEW i \in 1..Len(g)
      PROVE  /\ g[i].sequence_number = i
             /\ i > 1 => g[i].previous = g[i - 1].new
  <2>1. CASE i = row.version + 1
    BY <2>1, <1>3, <1>4, <1>5, <1>6 DEF Pointers!Tells
  <2>2. CASE i \in 1..row.version
    BY <2>2, <1>4, <1>5, <1>6 DEF Pointers!Tells
  <2> QED BY <2>1, <2>2, <1>5, <1>6
<1>8. Pointers!Tells(g, new)
  BY <1>1, <1>3, <1>4, <1>5, <1>6, <1>7 DEF Pointers!Tells
<1> QED BY <1>1, <1>2, <1>8

\* Pointers and logs that belong together, and the steps that keep them so.
Stories(p, h) ==
    /\ p \in [Tables -> TableRow \cup {Absent}] /\ h \in [Tables -> Seq(CommitRecord)]
    /\ \A t \in Tables : Pointers!Tells(h[t], p[t])

LEMMA CreateKeepsStories ==
    ASSUME NEW p, NEW h, Stories(p, h), NEW t \in Tables, p[t] = Absent,
           NEW loc \in MetadataLocations
    PROVE  Stories([p EXCEPT ![t] = NewTable(loc)], h)
<1>1. h[t] = <<>>
  BY DEF Stories, Pointers!Tells
<1> QED BY <1>1, NewTableTells DEF Stories

LEMMA AdvanceKeepsStories ==
    ASSUME NEW p, NEW h, Stories(p, h), NEW t \in Tables, p[t] # Absent,
           NEW loc \in MetadataLocations, NEW key \in Keys \cup {NoKey}, NEW req \in Requests
    PROVE  Stories([p EXCEPT ![t] = Advanced(p[t], loc)],
                   [h EXCEPT ![t] = Append(@, CommitRecordOf(p[t], loc, key, req))])
<1>1. p[t] \in TableRow /\ h[t] \in Seq(CommitRecord) /\ Pointers!Tells(h[t], p[t])
  BY DEF Stories
<1>2. PICK row, rec, log : /\ row = Advanced(p[t], loc)
                           /\ rec = CommitRecordOf(p[t], loc, key, req)
                           /\ log = Append(h[t], rec)
  OBVIOUS
<1>3. row \in TableRow /\ rec \in CommitRecord /\ Pointers!Tells(log, row)
  BY <1>1, <1>2, AdvancedTells
<1>4. log \in Seq(CommitRecord)
  BY <1>1, <1>2, <1>3
<1>5. Stories([p EXCEPT ![t] = row], [h EXCEPT ![t] = log])
  BY <1>3, <1>4 DEF Stories
<1> QED BY <1>2, <1>5

LEMMA MoveKeepsStories ==
    ASSUME NEW p, NEW h, Stories(p, h), NEW s \in Tables, NEW d \in Tables, s # d
    PROVE  Stories([p EXCEPT ![s] = Absent, ![d] = p[s]], [h EXCEPT ![s] = <<>>, ![d] = h[s]])
<1>1. Pointers!Tells(<<>>, Absent)
  BY DEF Pointers!Tells
<1>2. <<>> \in Seq(CommitRecord)
  OBVIOUS
<1>3. PICK none : none = <<>>
  OBVIOUS
<1>4. Stories([p EXCEPT ![s] = Absent, ![d] = p[s]], [h EXCEPT ![s] = none, ![d] = h[s]])
  BY <1>1, <1>2, <1>3 DEF Stories
<1> QED BY <1>3, <1>4

LEMMA RetireKeepsStories ==
    ASSUME NEW p, NEW h, Stories(p, h), NEW S \in SUBSET Tables
    PROVE  Stories([t \in Tables |-> IF t \in S THEN Absent ELSE p[t]],
                   [t \in Tables |-> IF t \in S THEN <<>> ELSE h[t]])
<1>1. Pointers!Tells(<<>>, Absent)
  BY DEF Pointers!Tells
<1> QED BY <1>1 DEF Stories

\* The promise as an inductive invariant of the abstract steps.
StoryOK == Stories([t \in Tables |-> db[TableRowOf(t)]], [t \in Tables |-> History(t)])

LEMMA InitTells == Pointers!Init => StoryOK
<1> SUFFICES ASSUME Pointers!Init PROVE StoryOK
  OBVIOUS
<1>1. PICK p, h : p = [t \in Tables |-> db[TableRowOf(t)]] /\ h = [t \in Tables |-> History(t)]
  OBVIOUS
<1>2. p = [t \in Tables |-> Absent] /\ h = [t \in Tables |-> <<>>]
  BY <1>1, SameVocabulary DEF Pointers!Init
<1>3. Stories(p, h)
  BY <1>2 DEF Stories, Pointers!Tells
<1> QED BY <1>1, <1>3 DEF StoryOK

LEMMA StepKeepsStories == StoryOK /\ [Pointers!Next]_(Pointers!vars) => StoryOK'
<1> SUFFICES ASSUME StoryOK, [Pointers!Next]_(Pointers!vars) PROVE StoryOK'
  OBVIOUS
<1> DEFINE P == [t \in Tables |-> db[TableRowOf(t)]]
           H == [t \in Tables |-> History(t)]
<1>1. PICK p, h, q, g : p = P /\ h = H /\ q = P' /\ g = H'
  OBVIOUS
<1>2. Stories(p, h)
  BY <1>1 DEF StoryOK
<1>3. SUFFICES Stories(q, g)
  BY <1>1 DEF StoryOK
<1>4. ASSUME NEW t \in Tables, Pointers!Create(t) PROVE Stories(q, g)
  <2>1. PICK loc \in Pointers!MetadataLocations : q = [p EXCEPT ![t] = Pointers!NewTable(loc)]
    BY <1>1, <1>4 DEF Pointers!Create
  <2>2. p[t] = Absent /\ g = h
    BY <1>1, <1>4 DEF Pointers!Create
  <2> QED BY <1>2, <2>1, <2>2, SameVocabulary, CreateKeepsStories
<1>5. ASSUME NEW t \in Tables, Pointers!Advance(t) PROVE Stories(q, g)
  <2>1. p[t] # Absent
    BY <1>1, <1>5 DEF Pointers!Advance
  <2>2. PICK loc \in Pointers!MetadataLocations, key \in Keys \cup {NoKey}, req \in Requests :
          /\ q = [p EXCEPT ![t] = Pointers!Advanced(p[t], loc)]
          /\ g = [h EXCEPT ![t] = Append(@, Pointers!CommitRecordOf(p[t], loc, key, req))]
    <3>1. \E loc \in Pointers!MetadataLocations, key \in Keys \cup {NoKey}, req \in Requests :
            /\ P' = [P EXCEPT ![t] = Pointers!Advanced(P[t], loc)]
            /\ H' = [H EXCEPT ![t] = Append(@, Pointers!CommitRecordOf(P[t], loc, key, req))]
      BY <1>5, Zenon DEF Pointers!Advance
    <3> HIDE DEF P, H
    <3> QED BY <1>1, <3>1
  <2>3. loc \in MetadataLocations
    BY <2>2, SameVocabulary
  <2>4. /\ Pointers!Advanced(p[t], loc) = Advanced(p[t], loc)
        /\ Pointers!CommitRecordOf(p[t], loc, key, req) = CommitRecordOf(p[t], loc, key, req)
    BY SameVocabulary
  <2>5. /\ q = [p EXCEPT ![t] = Advanced(p[t], loc)]
        /\ g = [h EXCEPT ![t] = Append(@, CommitRecordOf(p[t], loc, key, req))]
    BY <2>2, <2>4, Zenon
  <2>6. Stories([p EXCEPT ![t] = Advanced(p[t], loc)],
                [h EXCEPT ![t] = Append(@, CommitRecordOf(p[t], loc, key, req))])
    BY <1>2, <2>1, <2>2, <2>3, AdvanceKeepsStories, Zenon
  <2> QED BY <2>5, <2>6, Zenon
<1>6. ASSUME NEW s \in Tables, NEW d \in Tables, Pointers!Move(s, d) PROVE Stories(q, g)
  <2>1. /\ q = [p EXCEPT ![s] = Absent, ![d] = p[s]] /\ g = [h EXCEPT ![s] = <<>>, ![d] = h[s]]
        /\ p[s] # Absent /\ p[d] = Absent
    BY <1>1, <1>6 DEF Pointers!Move
  <2> QED BY <1>2, <2>1, MoveKeepsStories
<1>7. ASSUME NEW S \in SUBSET Tables, Pointers!Retire(S) PROVE Stories(q, g)
  <2>1. /\ q = [t \in Tables |-> IF t \in S THEN Absent ELSE p[t]]
        /\ g = [t \in Tables |-> IF t \in S THEN <<>> ELSE h[t]]
    BY <1>1, <1>7, SameVocabulary DEF Pointers!Retire
  <2>2. Stories([t \in Tables |-> IF t \in S THEN Absent ELSE p[t]],
                [t \in Tables |-> IF t \in S THEN <<>> ELSE h[t]])
    BY <1>2, RetireKeepsStories, Zenon
  <2> QED BY <2>1, <2>2, Zenon
<1>8. CASE UNCHANGED Pointers!vars
  <2>1. q = p /\ g = h
    BY <1>1, <1>8 DEF Pointers!vars
  <2> QED BY <1>2, <2>1
<1> QED BY <1>4, <1>5, <1>6, <1>7, <1>8, SameVocabulary DEF Pointers!Next

\* Hence the pointer log of every table in the durable store tells how its
\* pointer got where it is, version by version.
THEOREM LogTellsPointer == Spec => []Pointers!HistoryMatchesPointer
<1>1. StoryOK => Pointers!HistoryMatchesPointer
  BY SameVocabulary DEF StoryOK, Stories, Pointers!HistoryMatchesPointer
<1> QED BY <1>1, InitRefines, StepRefines, InitTells, StepKeepsStories, Invariant, PTL DEF Spec
=============================================================================
