------------------------ MODULE MemoryCatalogProofs ------------------------
(***************************************************************************)
(* What holds of MemoryCatalog for all namespaces, names, locations, keys, *)
(* requests, policies and views, and all bounds.                           *)
(***************************************************************************)
EXTENDS MemoryCatalog, TLAPS

(* The rows the operations build are rows.                                  *)

LEMMA NewTableType ==
    ASSUME NEW loc \in MetadataLocations
    PROVE  NewTable(loc) \in TableRow
BY DEF NewTable, TableRow

LEMMA AdvancedType ==
    ASSUME NEW row \in TableRow, NEW loc \in MetadataLocations
    PROVE  Advanced(row, loc) \in TableRow
BY DEF Advanced, TableRow

LEMMA CommitRecordType ==
    ASSUME NEW row \in TableRow, NEW loc \in MetadataLocations,
           NEW key \in Keys \cup {NoKey}, NEW request \in Requests
    PROVE  CommitRecordOf(row, loc, key, request) \in CommitRecord
BY DEF CommitRecordOf, CommitRecord, TableRow

LEMMA EventType ==
    ASSUME NEW row \in TableRow, NEW t \in Tables,
           NEW type \in {"table.commit", "table.renamed", "table.deleted", "table.restored"}
    PROVE  Event(type, t, row) \in LifecycleEvent
BY DEF Event, LifecycleEvent, TableRow

LEMMA IdemKeyType ==
    ASSUME NEW t \in Tables, NEW k \in Keys
    PROVE  IdemKey(t, k) \in IdemKeys
BY DEF IdemKeys

\* Absent is no row, so a table with a row is there.
LEMMA RowsArePresent ==
    /\ \A row \in TableRow : row # Absent
    /\ \A loc \in MetadataLocations : NewTable(loc) # Absent
BY AbsentAssumption, NewTableType

LEMMA NamespaceOf ==
    ASSUME NEW t \in Tables
    PROVE  t[1] \in Namespaces /\ t[2] \in Names
BY DEF Tables

LEMMA RetargetedType ==
    ASSUME NEW scope \in PolicyScope \cup {Absent}, NEW s \in Tables, NEW d \in Tables
    PROVE  Retargeted(scope, s, d) \in PolicyScope \cup {Absent}
<1>1. d[1] \in Namespaces /\ d[2] \in Names
  BY NamespaceOf
<1>2. d[1] # Unscoped
  BY <1>1, SentinelAssumption
<1>3. [namespace |-> d[1], table |-> d[2]] \in PolicyScope
  BY <1>1, <1>2 DEF PolicyScope
<1> QED BY <1>3 DEF Retargeted

-----------------------------------------------------------------------------
\* Type correctness: every operation of the store leaves rows of the right
\* shape under every key.
THEOREM TypeCorrect == Spec => []TypeOK
<1>1. Init => TypeOK
  BY DEF Init, TypeOK
<1>2. TypeOK /\ [Next]_vars => TypeOK'
  <2> SUFFICES ASSUME TypeOK, [Next]_vars PROVE TypeOK'
    OBVIOUS
  <2>1. ASSUME NEW n \in Namespaces, CreateNamespace(n) PROVE TypeOK'
    BY <2>1 DEF TypeOK, CreateNamespace
  <2>2. ASSUME NEW n \in Namespaces, DropNamespace(n) PROVE TypeOK'
    BY <2>2 DEF TypeOK, DropNamespace
  <2>3. ASSUME NEW t \in Tables, NEW loc \in MetadataLocations, CreateTable(t, loc)
        PROVE TypeOK'
    BY <2>3, NewTableType DEF TypeOK, CreateTable
  <2>4. ASSUME NEW t \in Tables, NEW expected \in MetadataLocations,
               NEW loc \in MetadataLocations, NEW key \in Keys \cup {NoKey},
               NEW request \in Requests, CommitTable(t, expected, loc, key, request)
        PROVE TypeOK'
    <3> DEFINE row == Advanced(tables[t], loc)
               rec == CommitRecordOf(tables[t], loc, key, request)
               replay == [table |-> t, request |-> request, response |-> row]
    <3>1. tables[t] \in TableRow
      BY <2>4 DEF CommitTable, Visible, TypeOK
    <3>2. row \in TableRow /\ rec \in CommitRecord
      BY <3>1, AdvancedType, CommitRecordType
    <3>3. replay \in ReplayRow
      BY <3>2 DEF ReplayRow
    <3>4. tables' \in [Tables -> TableRow \cup {Absent}]
      BY <2>4, <3>2 DEF CommitTable, TypeOK
    <3>5. commits' \in [Tables -> Seq(CommitRecord)]
      BY <2>4, <3>2 DEF CommitTable, TypeOK
    <3>6. idempotency' \in [IdemKeys -> ReplayRow \cup {Absent}]
      <4>1. CASE key = NoKey
        BY <2>4, <4>1 DEF CommitTable, Remember, TypeOK
      <4>2. CASE key # NoKey
        BY <2>4, <4>2, <3>3, IdemKeyType DEF CommitTable, Remember, TypeOK
      <4> QED BY <4>1, <4>2
    <3>7. outbox' \in SUBSET LifecycleEvent
      BY <2>4, <3>2, EventType DEF CommitTable, Record, TypeOK
    <3> QED BY <2>4, <3>4, <3>5, <3>6, <3>7 DEF CommitTable, TypeOK
  <2>5. ASSUME NEW s \in Tables, NEW d \in Tables, RenameTable(s, d) PROVE TypeOK'
    <3>1. tables[s] \in TableRow
      BY <2>5 DEF RenameTable, Visible, TypeOK
    <3>2. policy_bindings' \in [Policies -> PolicyScope \cup {Absent}]
      BY <2>5, RetargetedType DEF RenameTable, TypeOK
    <3>3. outbox' \in SUBSET LifecycleEvent
      BY <2>5, <3>1, EventType DEF RenameTable, Record, TypeOK
    <3>4. named' \in [Tables -> Nat]
      BY <2>5, <3>1 DEF RenameTable, TableRow, TypeOK
    <3> QED BY <2>5, <3>1, <3>2, <3>3, <3>4 DEF RenameTable, KeysWithout, TypeOK
  <2>6. ASSUME NEW t \in Tables, SoftDeleteTable(t) PROVE TypeOK'
    BY <2>6, EventType DEF SoftDeleteTable, Visible, Record, TypeOK
  <2>7. ASSUME NEW t \in Tables, RestoreTable(t) PROVE TypeOK'
    BY <2>7, EventType DEF RestoreTable, Record, TypeOK
  <2>8. ASSUME NEW v \in Views, UpsertView(v) \/ DropView(v) PROVE TypeOK'
    BY <2>8 DEF UpsertView, DropView, TypeOK
  <2>9. ASSUME NEW p \in Policies, NEW scope \in PolicyScope,
               UpsertPolicyBinding(p, scope)
        PROVE TypeOK'
    BY <2>9 DEF UpsertPolicyBinding, TypeOK
  <2>10. CASE UNCHANGED vars
    BY <2>10 DEF vars, TypeOK
  <2> QED
    BY <2>1, <2>2, <2>3, <2>4, <2>5, <2>6, <2>7, <2>8, <2>9, <2>10 DEF Next
<1> QED BY <1>1, <1>2, PTL DEF Spec

-----------------------------------------------------------------------------
\* A hidden table can always be restored or retired: nothing changes a table
\* behind its soft-delete record.  The invariant is inductive given the types:
\* commit_table and rename_table only touch visible tables, and create_table
\* refuses a name that is taken, hidden or not.
THEOREM HiddenTablesIntact == Spec => []SoftDeleteAgrees
<1>1. Init => SoftDeleteAgrees
  BY DEF Init, SoftDeleteAgrees
<1>2. TypeOK /\ SoftDeleteAgrees /\ [Next]_vars => SoftDeleteAgrees'
  <2> SUFFICES ASSUME TypeOK, SoftDeleteAgrees, [Next]_vars,
                      NEW u \in Tables, soft_deletes'[u] # Absent
               PROVE  soft_deletes'[u] = tables'[u]
    BY DEF SoftDeleteAgrees
  <2> USE DEF TypeOK, SoftDeleteAgrees
  <2>1. ASSUME NEW n \in Namespaces, CreateNamespace(n)
        PROVE  soft_deletes'[u] = tables'[u]
    BY <2>1 DEF CreateNamespace
  <2>2. ASSUME NEW n \in Namespaces, DropNamespace(n)
        PROVE  soft_deletes'[u] = tables'[u]
    BY <2>2 DEF DropNamespace
  <2>3. ASSUME NEW t \in Tables, NEW loc \in MetadataLocations, CreateTable(t, loc)
        PROVE  soft_deletes'[u] = tables'[u]
    BY <2>3 DEF CreateTable
  <2>4. ASSUME NEW t \in Tables, NEW expected \in MetadataLocations,
               NEW loc \in MetadataLocations, NEW key \in Keys \cup {NoKey},
               NEW request \in Requests, CommitTable(t, expected, loc, key, request)
        PROVE  soft_deletes'[u] = tables'[u]
    BY <2>4 DEF CommitTable, Visible
  <2>5. ASSUME NEW s \in Tables, NEW d \in Tables, RenameTable(s, d)
        PROVE  soft_deletes'[u] = tables'[u]
    BY <2>5 DEF RenameTable, Visible
  <2>6. ASSUME NEW t \in Tables, SoftDeleteTable(t)
        PROVE  soft_deletes'[u] = tables'[u]
    BY <2>6 DEF SoftDeleteTable
  <2>7. ASSUME NEW t \in Tables, RestoreTable(t)
        PROVE  soft_deletes'[u] = tables'[u]
    BY <2>7 DEF RestoreTable
  <2>8. ASSUME NEW v \in Views, UpsertView(v) \/ DropView(v)
        PROVE  soft_deletes'[u] = tables'[u]
    BY <2>8 DEF UpsertView, DropView
  <2>9. ASSUME NEW p \in Policies, NEW scope \in PolicyScope,
               UpsertPolicyBinding(p, scope)
        PROVE  soft_deletes'[u] = tables'[u]
    BY <2>9 DEF UpsertPolicyBinding
  <2>10. CASE UNCHANGED vars
    BY <2>10 DEF vars
  <2> QED
    BY <2>1, <2>2, <2>3, <2>4, <2>5, <2>6, <2>7, <2>8, <2>9, <2>10 DEF Next
<1> QED BY <1>1, <1>2, TypeCorrect, PTL DEF Spec

\* drop_namespace strands no table: it either refuses or takes the hidden
\* tables of the namespace along.
THEOREM NoStrandedTable == Spec => []TablesInNamespaces
<1>1. Init => TablesInNamespaces
  BY DEF Init, TablesInNamespaces
<1>2. TypeOK /\ TablesInNamespaces /\ [Next]_vars => TablesInNamespaces'
  <2> SUFFICES ASSUME TypeOK, TablesInNamespaces, [Next]_vars,
                      NEW u \in Tables, tables'[u] # Absent
               PROVE  u[1] \in namespaces'
    BY DEF TablesInNamespaces
  <2> USE DEF TypeOK, TablesInNamespaces
  <2>1. ASSUME NEW n \in Namespaces, CreateNamespace(n) PROVE u[1] \in namespaces'
    BY <2>1 DEF CreateNamespace
  <2>2. ASSUME NEW n \in Namespaces, DropNamespace(n) PROVE u[1] \in namespaces'
    BY <2>2 DEF DropNamespace, TablesIn
  <2>3. ASSUME NEW t \in Tables, NEW loc \in MetadataLocations, CreateTable(t, loc)
        PROVE  u[1] \in namespaces'
    BY <2>3 DEF CreateTable
  <2>4. ASSUME NEW t \in Tables, NEW expected \in MetadataLocations,
               NEW loc \in MetadataLocations, NEW key \in Keys \cup {NoKey},
               NEW request \in Requests, CommitTable(t, expected, loc, key, request)
        PROVE  u[1] \in namespaces'
    BY <2>4 DEF CommitTable, Visible
  <2>5. ASSUME NEW s \in Tables, NEW d \in Tables, RenameTable(s, d)
        PROVE  u[1] \in namespaces'
    BY <2>5 DEF RenameTable
  <2>6. ASSUME NEW t \in Tables, SoftDeleteTable(t) \/ RestoreTable(t)
        PROVE  u[1] \in namespaces'
    BY <2>6 DEF SoftDeleteTable, RestoreTable
  <2>7. ASSUME NEW v \in Views, UpsertView(v) \/ DropView(v)
        PROVE  u[1] \in namespaces'
    BY <2>7 DEF UpsertView, DropView
  <2>8. ASSUME NEW p \in Policies, NEW scope \in PolicyScope,
               UpsertPolicyBinding(p, scope)
        PROVE  u[1] \in namespaces'
    BY <2>8 DEF UpsertPolicyBinding
  <2>9. CASE UNCHANGED vars
    BY <2>9 DEF vars
  <2> QED BY <2>1, <2>2, <2>3, <2>4, <2>5, <2>6, <2>7, <2>8, <2>9 DEF Next
<1> QED BY <1>1, <1>2, TypeCorrect, PTL DEF Spec

-----------------------------------------------------------------------------
\* TablePointer's vocabulary is the store's.
LEMMA SameVocabulary ==
    /\ Pointers!Tables = Tables
    /\ Pointers!MetadataLocations = MetadataLocations
    /\ Pointers!TableRow = TableRow /\ Pointers!CommitRecord = CommitRecord
    /\ \A loc : Pointers!NewTable(loc) = NewTable(loc)
    /\ \A row, loc : Pointers!Advanced(row, loc) = Advanced(row, loc)
    /\ \A row, loc, key, request :
          Pointers!CommitRecordOf(row, loc, key, request)
             = CommitRecordOf(row, loc, key, request)
BY DEF Pointers!Tables, Tables, Pointers!MetadataLocations, MetadataLocations,
       Pointers!TableRow, TableRow, Pointers!CommitRecord, CommitRecord,
       Pointers!NewTable, NewTable, Pointers!Advanced, Advanced,
       Pointers!CommitRecordOf, CommitRecordOf

LEMMA InitRefines == Init => Pointers!Init
BY SameVocabulary DEF Init, Pointers!Init

LEMMA StepRefines == TypeOK /\ [Next]_vars => [Pointers!Next]_(Pointers!vars)
<1> SUFFICES ASSUME TypeOK, [Next]_vars
             PROVE  Pointers!Next \/ UNCHANGED <<tables, commits>>
  BY DEF Pointers!vars
<1> USE DEF TypeOK
<1>1. ASSUME NEW n \in Namespaces, CreateNamespace(n) PROVE UNCHANGED <<tables, commits>>
  BY <1>1 DEF CreateNamespace
<1>2. ASSUME NEW n \in Namespaces, DropNamespace(n) PROVE Pointers!Next
  <2>1. TablesIn(n) \in SUBSET Tables
    BY DEF TablesIn
  <2>2. Pointers!Retire(TablesIn(n))
    BY <1>2, SameVocabulary DEF DropNamespace, Pointers!Retire
  <2> QED BY <2>1, <2>2, SameVocabulary DEF Pointers!Next
<1>3. ASSUME NEW t \in Tables, NEW loc \in MetadataLocations, CreateTable(t, loc)
      PROVE  Pointers!Next
  <2>1. Pointers!Create(t)
    BY <1>3, SameVocabulary DEF CreateTable, Pointers!Create
  <2> QED BY <2>1, SameVocabulary DEF Pointers!Next
<1>4. ASSUME NEW t \in Tables, NEW expected \in MetadataLocations,
             NEW loc \in MetadataLocations, NEW key \in Keys \cup {NoKey},
             NEW request \in Requests, CommitTable(t, expected, loc, key, request)
      PROVE  Pointers!Next
  <2>1. Pointers!Advance(t)
    BY <1>4, SameVocabulary DEF CommitTable, Visible, Pointers!Advance
  <2> QED BY <2>1, SameVocabulary DEF Pointers!Next
<1>5. ASSUME NEW s \in Tables, NEW d \in Tables, RenameTable(s, d) PROVE Pointers!Next
  <2>1. Pointers!Move(s, d)
    BY <1>5 DEF RenameTable, Visible, Pointers!Move
  <2> QED BY <2>1, SameVocabulary DEF Pointers!Next
<1>6. ASSUME NEW t \in Tables, SoftDeleteTable(t) \/ RestoreTable(t)
      PROVE  UNCHANGED <<tables, commits>>
  BY <1>6 DEF SoftDeleteTable, RestoreTable
<1>7. ASSUME NEW v \in Views, UpsertView(v) \/ DropView(v)
      PROVE  UNCHANGED <<tables, commits>>
  BY <1>7 DEF UpsertView, DropView
<1>8. ASSUME NEW p \in Policies, NEW scope \in PolicyScope,
             UpsertPolicyBinding(p, scope)
      PROVE  UNCHANGED <<tables, commits>>
  BY <1>8 DEF UpsertPolicyBinding
<1>9. CASE UNCHANGED vars
  BY <1>9 DEF vars
<1> QED BY <1>1, <1>2, <1>3, <1>4, <1>5, <1>6, <1>7, <1>8, <1>9 DEF Next

\* The store implements the promise about pointers and their histories: each
\* step is a step of TablePointer or leaves both alone.
THEOREM Refinement == Spec => ImplementsTablePointer
BY InitRefines, StepRefines, TypeCorrect, PTL
   DEF Spec, ImplementsTablePointer, Pointers!Spec

-----------------------------------------------------------------------------
(* The abstract specification keeps its promise: the history of a table     *)
(* always tells how its pointer got where it is.                            *)

\* A table starts with an empty history.
LEMMA NewTableTells ==
    ASSUME NEW loc \in MetadataLocations
    PROVE  NewTable(loc) \in TableRow /\ Pointers!Tells(<<>>, NewTable(loc))
<1>1. NewTable(loc) \in TableRow
  BY DEF NewTable, TableRow
<1>2. NewTable(loc) # Absent
  BY <1>1, AbsentAssumption
<1> QED BY <1>1, <1>2 DEF NewTable, Pointers!Tells

\* A commit extends the story by the move it makes.
LEMMA AdvancedTells ==
    ASSUME NEW row \in TableRow, NEW h \in Seq(CommitRecord), Pointers!Tells(h, row),
           NEW loc \in MetadataLocations, NEW key \in Keys \cup {NoKey},
           NEW req \in Requests
    PROVE  /\ Advanced(row, loc) \in TableRow
           /\ CommitRecordOf(row, loc, key, req) \in CommitRecord
           /\ Pointers!Tells(Append(h, CommitRecordOf(row, loc, key, req)), Advanced(row, loc))
<1> DEFINE new == Advanced(row, loc)
           rec == CommitRecordOf(row, loc, key, req)
           g   == Append(h, rec)
<1>1. new \in TableRow /\ new.version = row.version + 1 /\ new.location = loc
  BY DEF Advanced, TableRow
<1>2. rec \in CommitRecord
  BY DEF CommitRecordOf, CommitRecord, TableRow
<1>3. /\ rec.previous = row.location
      /\ rec.new = loc
      /\ rec.sequence_number = row.version + 1
  BY DEF CommitRecordOf
<1>4. row # Absent /\ new # Absent
  BY <1>1, AbsentAssumption
<1>5. row.version \in Nat /\ Len(h) = row.version
  BY <1>4 DEF Pointers!Tells, TableRow
<1>6. /\ Len(g) = row.version + 1
      /\ g[row.version + 1] = rec
      /\ \A i \in 1..row.version : g[i] = h[i]
  BY <1>2, <1>5
<1>7. ASSUME NEW i \in 1..Len(g)
      PROVE  /\ g[i].sequence_number = i
             /\ i > 1 => g[i].previous = g[i - 1].new
  <2>1. CASE i = row.version + 1
    BY <2>1, <1>3, <1>4, <1>5, <1>6 DEF Pointers!Tells
  <2>2. CASE i \in 1..row.version
    BY <2>2, <1>4, <1>5, <1>6 DEF Pointers!Tells
  <2> QED BY <2>1, <2>2, <1>5, <1>6
<1>8. Pointers!Tells(g, new)
  BY <1>1, <1>3, <1>4, <1>5, <1>6, <1>7 DEF Pointers!Tells
<1> QED BY <1>1, <1>2, <1>8

\* The promise as an inductive invariant of the abstract steps.
StoryOK == Pointers!TypeOK /\ Pointers!HistoryMatchesPointer

LEMMA StepKeepsHistory == StoryOK /\ [Pointers!Next]_(Pointers!vars) => StoryOK'
<1> SUFFICES ASSUME StoryOK, [Pointers!Next]_(Pointers!vars) PROVE StoryOK'
  OBVIOUS
<1> USE SameVocabulary DEF StoryOK, Pointers!TypeOK, Pointers!HistoryMatchesPointer
<1>1. ASSUME NEW t \in Tables, Pointers!Create(t) PROVE StoryOK'
  <2>1. PICK loc \in MetadataLocations : tables' = [tables EXCEPT ![t] = NewTable(loc)]
    BY <1>1 DEF Pointers!Create
  <2>2. commits[t] = <<>>
    BY <1>1 DEF Pointers!Create, Pointers!Tells
  <2> QED BY <1>1, <2>1, <2>2, NewTableTells DEF Pointers!Create
<1>2. ASSUME NEW t \in Tables, Pointers!Advance(t) PROVE StoryOK'
  <2>1. tables[t] \in TableRow /\ commits[t] \in Seq(CommitRecord)
    BY <1>2 DEF Pointers!Advance
  <2>2. PICK loc \in MetadataLocations, key \in Keys \cup {NoKey}, req \in Requests :
          /\ tables' = [tables EXCEPT ![t] = Advanced(tables[t], loc)]
          /\ commits' = [commits EXCEPT ![t] =
                            Append(@, CommitRecordOf(tables[t], loc, key, req))]
    <3>1. PICK loc \in Pointers!MetadataLocations, key \in Keys \cup {NoKey}, req \in Requests :
            /\ tables' = [tables EXCEPT ![t] = Pointers!Advanced(tables[t], loc)]
            /\ commits' = [commits EXCEPT ![t] =
                              Append(@, Pointers!CommitRecordOf(tables[t], loc, key, req))]
      BY <1>2, Zenon DEF Pointers!Advance
    <3>2. loc \in MetadataLocations
      OBVIOUS
    <3>3. /\ Pointers!Advanced(tables[t], loc) = Advanced(tables[t], loc)
          /\ Pointers!CommitRecordOf(tables[t], loc, key, req) = CommitRecordOf(tables[t], loc, key, req)
      OBVIOUS
    <3> QED BY <3>1, <3>2, <3>3
  <2>3. /\ Advanced(tables[t], loc) \in TableRow
        /\ CommitRecordOf(tables[t], loc, key, req) \in CommitRecord
        /\ Pointers!Tells(Append(commits[t], CommitRecordOf(tables[t], loc, key, req)),
                 Advanced(tables[t], loc))
    BY <2>1, AdvancedTells
  <2>4. tables' \in [Tables -> TableRow \cup {Absent}]
    BY <2>2, <2>3
  <2>5. commits' \in [Tables -> Seq(CommitRecord)]
    BY <2>1, <2>2, <2>3
  <2>6. \A u \in Tables : Pointers!Tells(commits'[u], tables'[u])
    BY <2>2, <2>3
  <2> QED BY <2>4, <2>5, <2>6
<1>3. ASSUME NEW s \in Tables, NEW d \in Tables, Pointers!Move(s, d) PROVE StoryOK'
  <2>1. s # d
    BY <1>3 DEF Pointers!Move
  <2>2. Pointers!Tells(<<>>, Absent)
    BY DEF Pointers!Tells
  <2>3. /\ tables' \in [Tables -> TableRow \cup {Absent}]
        /\ commits' \in [Tables -> Seq(CommitRecord)]
    <3>1. tables[s] \in TableRow \cup {Absent} /\ commits[s] \in Seq(CommitRecord)
      OBVIOUS
    <3>2. <<>> \in Seq(CommitRecord)
      OBVIOUS
    <3>3. tables' \in [Tables -> TableRow \cup {Absent}]
      BY <1>3, <3>1 DEF Pointers!Move
    <3>4. commits' \in [Tables -> Seq(CommitRecord)]
      BY <1>3, <3>1, <3>2, Zenon DEF Pointers!Move
    <3> QED BY <3>3, <3>4
  <2>4. ASSUME NEW u \in Tables PROVE Pointers!Tells(commits'[u], tables'[u])
    <3>1. CASE u = s
      BY <1>3, <2>1, <2>2, <3>1 DEF Pointers!Move
    <3>2. CASE u = d
      BY <1>3, <2>1, <3>2 DEF Pointers!Move
    <3>3. CASE u # s /\ u # d
      BY <1>3, <3>3 DEF Pointers!Move
    <3> QED BY <3>1, <3>2, <3>3
  <2> QED BY <2>3, <2>4
<1>4. ASSUME NEW S \in SUBSET Tables, Pointers!Retire(S) PROVE StoryOK'
  <2>1. Pointers!Tells(<<>>, Absent)
    BY DEF Pointers!Tells
  <2> QED BY <1>4, <2>1 DEF Pointers!Retire
<1>5. CASE UNCHANGED Pointers!vars
  BY <1>5 DEF Pointers!vars
<1> QED BY <1>1, <1>2, <1>3, <1>4, <1>5 DEF Pointers!Next

LEMMA InitTells == Pointers!Init => StoryOK
BY SameVocabulary DEF Pointers!Init, StoryOK, Pointers!TypeOK, Pointers!HistoryMatchesPointer, Pointers!Tells

\* The promise of the abstract specification: the log of a table is the
\* whole story of its tables.
THEOREM HistoryTheorem == Pointers!Spec => []Pointers!HistoryMatchesPointer
<1>1. StoryOK => Pointers!HistoryMatchesPointer
  BY DEF StoryOK
<1> QED BY <1>1, InitTells, StepKeepsHistory, PTL DEF Pointers!Spec

\* The pointer log of every table tells how its pointer got where it is.
THEOREM LogTellsPointer == Spec => []HistoryMatchesPointer
BY Refinement, HistoryTheorem, PTL DEF ImplementsTablePointer, HistoryMatchesPointer

-----------------------------------------------------------------------------
(* Idempotency.  What makes the truth of the replay records inductive is    *)
(* that a record is filed under its own table's dotted name, also where     *)
(* that name is shared with another table.                                  *)

ReplayOK(i) ==
    LET replay == idempotency[i]
        log    == commits[replay.table]
        v      == replay.response.version
    IN  /\ i[1] = StableId(replay.table)
        /\ v \in 1..Len(log)
        /\ log[v].new = replay.response.location
        /\ log[v].key = i[2]
        /\ log[v].request = replay.request

ReplayInv == \A i \in IdemKeys : idempotency[i] # Absent => ReplayOK(i)

LEMMA LogLength ==
    ASSUME TypeOK, HistoryMatchesPointer, NEW t \in Tables, tables[t] # Absent
    PROVE  Len(commits[t]) = tables[t].version
BY SameVocabulary
   DEF HistoryMatchesPointer, Pointers!HistoryMatchesPointer, Pointers!Tells

LEMMA KeyParts ==
    ASSUME NEW i \in IdemKeys
    PROVE  i[2] \in Keys /\ \A t \in Tables : i[1] = StableId(t) => i = IdemKey(t, i[2])
BY DEF IdemKeys, IdemKey

\* A commit under a key files its own record, and adds nothing to what the
\* records of other keys say.
LEMMA CommitKeepsReplay ==
    ASSUME TypeOK, HistoryMatchesPointer, ReplayInv,
           NEW t \in Tables, NEW expected \in MetadataLocations,
           NEW loc \in MetadataLocations, NEW key \in Keys \cup {NoKey},
           NEW request \in Requests, CommitTable(t, expected, loc, key, request)
    PROVE  ReplayInv'
<1> USE DEF TypeOK
<1> DEFINE row == Advanced(tables[t], loc)
           rec == CommitRecordOf(tables[t], loc, key, request)
           n   == Len(commits[t])
<1>1. tables[t] \in TableRow /\ tables[t] # Absent
  BY DEF CommitTable, Visible
<1>2. /\ row.version = n + 1 /\ row.location = loc
      /\ rec.new = loc /\ rec.key = key /\ rec.request = request
  BY <1>1, LogLength DEF Advanced, CommitRecordOf
<1>3. rec \in CommitRecord /\ commits[t] \in Seq(CommitRecord) /\ n \in Nat
  BY <1>1, CommitRecordType
<1>4. /\ Len(commits'[t]) = n + 1
      /\ commits'[t][n + 1] = rec
      /\ \A w \in 1..n : commits'[t][w] = commits[t][w]
  BY <1>3 DEF CommitTable
<1>5. \A u \in Tables : u # t => commits'[u] = commits[u]
  BY DEF CommitTable
<1> SUFFICES ASSUME NEW i \in IdemKeys, idempotency'[i] # Absent
             PROVE  ReplayOK(i)'
  BY DEF ReplayInv
<1>6. CASE key # NoKey /\ i = IdemKey(t, key)
  <2>1. idempotency'[i] = [table |-> t, request |-> request, response |-> row]
    BY <1>6, IdemKeyType DEF CommitTable, Remember
  <2>2. i[1] = StableId(t) /\ i[2] = key
    BY <1>6 DEF IdemKey
  <2> QED BY <1>2, <1>3, <1>4, <2>1, <2>2 DEF ReplayOK
<1>7. CASE ~(key # NoKey /\ i = IdemKey(t, key))
  <2>1. idempotency'[i] = idempotency[i]
    BY <1>7, IdemKeyType DEF CommitTable, Remember
  <2>2. ReplayOK(i) /\ idempotency[i] \in ReplayRow
    BY <2>1 DEF ReplayInv
  <2>3. idempotency[i].table \in Tables
    BY <2>2 DEF ReplayRow
  <2>4. CASE idempotency[i].table # t
    BY <1>5, <2>1, <2>2, <2>3, <2>4 DEF ReplayOK
  <2>5. CASE idempotency[i].table = t
    <3> DEFINE v == idempotency[i].response.version
    <3> HIDE DEF rec, n
    <3>1. /\ i[1] = StableId(t) /\ v \in 1..n
          /\ commits[t][v].new = idempotency[i].response.location
          /\ commits[t][v].key = i[2]
          /\ commits[t][v].request = idempotency[i].request
      BY <2>2, <2>5 DEF ReplayOK, n
    <3>2. v \in 1..n + 1 /\ commits'[t][v] = commits[t][v]
      BY <1>3, <1>4, <3>1
    <3> QED BY <1>4, <2>1, <2>5, <3>1, <3>2 DEF ReplayOK
  <2> QED BY <2>4, <2>5
<1> QED BY <1>6, <1>7

\* Nothing else adds a record or a log entry: a step that leaves a record and
\* the log of its table alone keeps it right.
LEMMA UntouchedReplay ==
    ASSUME ReplayInv, NEW i \in IdemKeys, idempotency'[i] # Absent,
           idempotency'[i] = idempotency[i],
           commits'[idempotency[i].table] = commits[idempotency[i].table]
    PROVE  ReplayOK(i)'
BY DEF ReplayInv, ReplayOK

LEMMA StepKeepsReplay ==
    TypeOK /\ HistoryMatchesPointer /\ ReplayInv /\ [Next]_vars => ReplayInv'
<1> SUFFICES ASSUME TypeOK, HistoryMatchesPointer, ReplayInv, [Next]_vars
             PROVE  ReplayInv'
  OBVIOUS
<1>1. ASSUME NEW n \in Namespaces, DropNamespace(n) PROVE ReplayInv'
  <2> SUFFICES ASSUME NEW i \in IdemKeys, idempotency'[i] # Absent PROVE ReplayOK(i)'
    BY DEF ReplayInv
  <2>1. idempotency'[i] = idempotency[i] /\ idempotency[i].table \notin TablesIn(n)
    BY <1>1 DEF DropNamespace
  <2>2. idempotency[i].table \in Tables
    BY <2>1 DEF TypeOK, ReplayRow
  <2>3. commits'[idempotency[i].table] = commits[idempotency[i].table]
    BY <1>1, <2>1, <2>2 DEF DropNamespace
  <2> QED BY <2>1, <2>3, UntouchedReplay
<1>2. ASSUME NEW s \in Tables, NEW d \in Tables, RenameTable(s, d) PROVE ReplayInv'
  <2> SUFFICES ASSUME NEW i \in IdemKeys, idempotency'[i] # Absent PROVE ReplayOK(i)'
    BY DEF ReplayInv
  <2>1. idempotency'[i] = idempotency[i] /\ i[1] # StableId(s)
    BY <1>2 DEF RenameTable, KeysWithout
  <2>2. idempotency[i].table # s /\ idempotency[i].table # d
    BY <1>2, <2>1 DEF RenameTable, IdempotencyAllowsRename
  <2>3. idempotency[i].table \in Tables
    BY <2>1 DEF TypeOK, ReplayRow
  <2>4. commits'[idempotency[i].table] = commits[idempotency[i].table]
    BY <1>2, <2>2, <2>3 DEF RenameTable, TypeOK
  <2> QED BY <2>1, <2>4, UntouchedReplay
<1>3. ASSUME UNCHANGED <<commits, idempotency>> PROVE ReplayInv'
  BY <1>3 DEF ReplayInv, ReplayOK
<1>4. ASSUME NEW n \in Namespaces, CreateNamespace(n) PROVE ReplayInv'
  BY <1>3, <1>4 DEF CreateNamespace
<1>5. ASSUME NEW t \in Tables, NEW loc \in MetadataLocations, CreateTable(t, loc)
      PROVE  ReplayInv'
  BY <1>3, <1>5 DEF CreateTable
<1>6. ASSUME NEW t \in Tables, SoftDeleteTable(t) \/ RestoreTable(t) PROVE ReplayInv'
  BY <1>3, <1>6 DEF SoftDeleteTable, RestoreTable
<1>7. ASSUME NEW v \in Views, UpsertView(v) \/ DropView(v) PROVE ReplayInv'
  BY <1>3, <1>7 DEF UpsertView, DropView
<1>8. ASSUME NEW p \in Policies, NEW scope \in PolicyScope, UpsertPolicyBinding(p, scope)
      PROVE  ReplayInv'
  BY <1>3, <1>8 DEF UpsertPolicyBinding
<1>9. CASE UNCHANGED vars
  BY <1>3, <1>9 DEF vars
<1> QED
  BY <1>1, <1>2, <1>4, <1>5, <1>6, <1>7, <1>8, <1>9, CommitKeepsReplay DEF Next

LEMMA ReplayInvariant == Spec => []ReplayInv
<1>1. Init => ReplayInv
  BY DEF Init, ReplayInv
<1> QED BY <1>1, StepKeepsReplay, TypeCorrect, LogTellsPointer, PTL DEF Spec

\* What a repeated request is answered with is what its commit did.
THEOREM RepliesAreHistory == Spec => []ReplayIsHistory
<1>1. ReplayInv => ReplayIsHistory
  BY DEF ReplayInv, ReplayOK, ReplayIsHistory
<1> QED BY <1>1, ReplayInvariant, PTL

\* The other direction: what the log has under a key is what the key's record
\* says.  It holds for the commits the table got under its present name; a
\* rename takes the older ones along and leaves their records behind.
Filed(t, v) ==
    LET key    == commits[t][v].key
        replay == idempotency[IdemKey(t, key)]
    IN  key # NoKey => /\ replay # Absent
                       /\ replay.table = t
                       /\ replay.response.version = v

KeysFiled == \A t \in Tables : \A v \in (named[t] + 1)..Len(commits[t]) : Filed(t, v)

\* An entry that keeps its place and its key's record stays filed.
LEMMA UntouchedEntry ==
    ASSUME NEW t \in Tables, NEW v, Filed(t, v), commits'[t][v] = commits[t][v],
           commits[t][v].key # NoKey =>
              idempotency'[IdemKey(t, commits[t][v].key)] =
                 idempotency[IdemKey(t, commits[t][v].key)]
    PROVE  Filed(t, v)'
BY DEF Filed

LEMMA EntryType ==
    ASSUME TypeOK, NEW t \in Tables, NEW v \in (named[t] + 1)..Len(commits[t])
    PROVE  /\ named[t] \in Nat /\ Len(commits[t]) \in Nat /\ v \in 1..Len(commits[t])
           /\ commits[t][v].key \in Keys \cup {NoKey}
<1>1. named[t] \in Nat /\ commits[t] \in Seq(CommitRecord)
  BY DEF TypeOK
<1>2. v \in 1..Len(commits[t])
  BY <1>1
<1>3. commits[t][v] \in CommitRecord
  BY <1>1, <1>2
<1> QED BY <1>1, <1>2, <1>3 DEF CommitRecord

LEMMA CommitFiles ==
    ASSUME TypeOK, HistoryMatchesPointer, KeysFiled,
           NEW t \in Tables, NEW expected \in MetadataLocations,
           NEW loc \in MetadataLocations, NEW key \in Keys \cup {NoKey},
           NEW request \in Requests, CommitTable(t, expected, loc, key, request)
    PROVE  KeysFiled'
<1> DEFINE row == Advanced(tables[t], loc)
           rec == CommitRecordOf(tables[t], loc, key, request)
           n   == Len(commits[t])
<1>1. tables[t] \in TableRow /\ tables[t] # Absent
  BY DEF CommitTable, Visible, TypeOK
<1>2. row.version = n + 1 /\ rec.key = key
  BY <1>1, LogLength DEF Advanced, CommitRecordOf
<1>3. rec \in CommitRecord /\ commits[t] \in Seq(CommitRecord) /\ n \in Nat
  BY <1>1, CommitRecordType DEF TypeOK
<1>4. /\ Len(commits'[t]) = n + 1
      /\ commits'[t][n + 1] = rec
      /\ \A w \in 1..n : commits'[t][w] = commits[t][w]
  BY <1>3 DEF CommitTable, TypeOK
<1>5. named' = named /\ \A u \in Tables : u # t => commits'[u] = commits[u]
  BY DEF CommitTable, TypeOK
<1>6. ASSUME NEW u \in Tables, NEW v \in (named[u] + 1)..Len(commits[u]),
             commits'[u][v] = commits[u][v]
      PROVE  Filed(u, v)'
  <2>1. Filed(u, v) /\ commits[u][v].key \in Keys \cup {NoKey}
    BY EntryType DEF KeysFiled
  <2> DEFINE i == IdemKey(u, commits[u][v].key)
  <2>2. ASSUME commits[u][v].key # NoKey PROVE idempotency'[i] = idempotency[i]
    <3>1. i \in IdemKeys
      BY <2>1, <2>2, IdemKeyType
    <3>2. idempotency[i] # Absent
      BY <2>1, <2>2 DEF Filed
    <3>3. key # NoKey => i # IdemKey(t, key)
      BY <3>2 DEF CommitTable, KeyFree
    <3> HIDE DEF i
    <3> QED BY <3>1, <3>3, IdemKeyType DEF CommitTable, Remember, TypeOK
  <2> QED BY <1>6, <2>1, <2>2, UntouchedEntry
<1>7. ASSUME NEW v, v = n + 1 PROVE Filed(t, v)'
  <2>1. ASSUME key # NoKey
        PROVE  idempotency'[IdemKey(t, key)] =
                  [table |-> t, request |-> request, response |-> row]
    BY <2>1, IdemKeyType DEF CommitTable, Remember, TypeOK
  <2>2. ASSUME key # NoKey PROVE idempotency'[IdemKey(t, key)] # Absent
    <3>1. [table |-> t, request |-> request, response |-> row] \in ReplayRow
      BY <1>1, AdvancedType DEF ReplayRow
    <3> QED BY <2>1, <2>2, <3>1, AbsentAssumption
  <2>3. commits'[t][v].key = key /\ row.version = v
    BY <1>2, <1>4, <1>7
  <2> QED BY <2>1, <2>2, <2>3 DEF Filed
<1> SUFFICES ASSUME NEW u \in Tables, NEW v \in (named[u] + 1)..Len(commits'[u])
             PROVE  Filed(u, v)'
  BY <1>5 DEF KeysFiled
<1>8. CASE u # t
  BY <1>5, <1>6, <1>8
<1>9. CASE u = t /\ v = n + 1
  BY <1>7, <1>9
<1>10. CASE u = t /\ v # n + 1
  <2>1. named[t] \in Nat
    BY DEF TypeOK
  <2>2. v \in (named[t] + 1)..n /\ v \in 1..n
    BY <1>3, <1>4, <1>10, <2>1
  <2> QED BY <1>4, <1>6, <1>10, <2>2
<1> QED BY <1>8, <1>9, <1>10

LEMMA StepFiles ==
    TypeOK /\ HistoryMatchesPointer /\ KeysFiled /\ [Next]_vars => KeysFiled'
<1> SUFFICES ASSUME TypeOK, HistoryMatchesPointer, KeysFiled, [Next]_vars
             PROVE  KeysFiled'
  OBVIOUS
<1>1. ASSUME NEW n \in Namespaces, DropNamespace(n) PROVE KeysFiled'
  <2> SUFFICES ASSUME NEW t \in Tables, NEW v \in (named'[t] + 1)..Len(commits'[t])
               PROVE  Filed(t, v)'
    BY DEF KeysFiled
  <2>1. t \notin TablesIn(n)
    <3>1. ASSUME t \in TablesIn(n) PROVE FALSE
      <4>1. named'[t] = 0 /\ commits'[t] = <<>>
        BY <1>1, <3>1 DEF DropNamespace
      <4> QED BY <4>1
    <3> QED BY <3>1
  <2>2. named'[t] = named[t] /\ commits'[t] = commits[t]
    BY <1>1, <2>1 DEF DropNamespace
  <2>3. Filed(t, v) /\ commits[t][v].key \in Keys \cup {NoKey}
    BY <2>2, EntryType DEF KeysFiled
  <2>4. ASSUME commits[t][v].key # NoKey
        PROVE  idempotency'[IdemKey(t, commits[t][v].key)] =
                  idempotency[IdemKey(t, commits[t][v].key)]
    <3>1. idempotency[IdemKey(t, commits[t][v].key)].table = t
      BY <2>3, <2>4 DEF Filed
    <3> QED BY <1>1, <2>1, <2>3, <2>4, <3>1, IdemKeyType DEF DropNamespace
  <2> QED BY <2>2, <2>3, <2>4, UntouchedEntry
<1>2. ASSUME NEW s \in Tables, NEW d \in Tables, RenameTable(s, d) PROVE KeysFiled'
  <2> SUFFICES ASSUME NEW t \in Tables, NEW v \in (named'[t] + 1)..Len(commits'[t])
               PROVE  Filed(t, v)'
    BY DEF KeysFiled
  <2>1. s # d /\ tables[s] # Absent /\ tables[s] \in TableRow
    BY <1>2 DEF RenameTable, Visible, TypeOK
  <2>2. Len(commits[s]) = tables[s].version /\ tables[s].version \in Nat
    BY <2>1, LogLength DEF TableRow
  <2>3. /\ commits'[s] = <<>> /\ named'[s] = 0
        /\ commits'[d] = commits[s] /\ named'[d] = tables[s].version
    BY <1>2, <2>1 DEF RenameTable, TypeOK
  <2>4. t # s /\ t # d
    BY <2>2, <2>3
  <2>5. named'[t] = named[t] /\ commits'[t] = commits[t]
    BY <1>2, <2>4 DEF RenameTable, TypeOK
  <2>6. Filed(t, v) /\ commits[t][v].key \in Keys \cup {NoKey}
    BY <2>5, EntryType DEF KeysFiled
  <2>7. ASSUME commits[t][v].key # NoKey
        PROVE  idempotency'[IdemKey(t, commits[t][v].key)] =
                  idempotency[IdemKey(t, commits[t][v].key)]
    <3> DEFINE i == IdemKey(t, commits[t][v].key)
    <3>1. i \in IdemKeys /\ idempotency[i] # Absent /\ idempotency[i].table = t
      BY <2>6, <2>7, IdemKeyType DEF Filed
    <3> HIDE DEF i
    <3>2. i[1] # StableId(s)
      BY <1>2, <2>4, <3>1 DEF RenameTable, IdempotencyAllowsRename
    <3>3. idempotency'[i] = idempotency[i]
      BY <1>2, <3>1, <3>2 DEF RenameTable, KeysWithout
    <3> QED BY <3>3 DEF i
  <2> QED BY <2>5, <2>6, <2>7, UntouchedEntry
<1>3. ASSUME UNCHANGED <<commits, idempotency, named>> PROVE KeysFiled'
  BY <1>3 DEF KeysFiled, Filed
<1>4. ASSUME NEW n \in Namespaces, CreateNamespace(n) PROVE KeysFiled'
  BY <1>3, <1>4 DEF CreateNamespace
<1>5. ASSUME NEW t \in Tables, NEW loc \in MetadataLocations, CreateTable(t, loc)
      PROVE  KeysFiled'
  BY <1>3, <1>5 DEF CreateTable
<1>6. ASSUME NEW t \in Tables, SoftDeleteTable(t) \/ RestoreTable(t) PROVE KeysFiled'
  BY <1>3, <1>6 DEF SoftDeleteTable, RestoreTable
<1>7. ASSUME NEW v \in Views, UpsertView(v) \/ DropView(v) PROVE KeysFiled'
  BY <1>3, <1>7 DEF UpsertView, DropView
<1>8. ASSUME NEW p \in Policies, NEW scope \in PolicyScope, UpsertPolicyBinding(p, scope)
      PROVE  KeysFiled'
  BY <1>3, <1>8 DEF UpsertPolicyBinding
<1>9. CASE UNCHANGED vars
  BY <1>3, <1>9 DEF vars
<1> QED
  BY <1>1, <1>2, <1>4, <1>5, <1>6, <1>7, <1>8, <1>9, CommitFiles DEF Next

\* No two commits that a table got under its present name carry one key: what
\* commit_table looks up under the lock knows every one of them, because only
\* retiring the table or its name takes a record away.
THEOREM KeysCommitOnce == Spec => []KeyCommitsOnce
<1>1. Init => KeysFiled
  BY DEF Init, KeysFiled
<1>2. KeysFiled => KeyCommitsOnce
  BY DEF KeysFiled, Filed, KeyCommitsOnce
<1> QED BY <1>1, <1>2, StepFiles, TypeCorrect, LogTellsPointer, PTL DEF Spec

-----------------------------------------------------------------------------
(* Evidence.  The events are never taken back, so what is left to show is   *)
(* that a step which lengthens a log, or hides a table, records its event.  *)

Announced(v, rec, events) ==
    \E e \in events : e.type = "table.commit" /\ e.version = v /\ e.location = rec.new

LogAnnounced(log, events) == \A v \in 1..Len(log) : Announced(v, log[v], events)

HiddenAnnounced(t, row, events) ==
    row # Absent => Event("table.deleted", t, row) \in events

LEMMA EvidenceParts ==
    LifecycleEvidenced <=> \A t \in Tables : /\ LogAnnounced(commits[t], outbox)
                                             /\ HiddenAnnounced(t, soft_deletes[t], outbox)
BY DEF LifecycleEvidenced, LogAnnounced, Announced, HiddenAnnounced

LEMMA MoreEvents ==
    ASSUME NEW events, NEW more, events \subseteq more
    PROVE  /\ \A log : LogAnnounced(log, events) => LogAnnounced(log, more)
           /\ \A t, row : HiddenAnnounced(t, row, events) => HiddenAnnounced(t, row, more)
BY DEF LogAnnounced, Announced, HiddenAnnounced

\* A step that keeps the events, moves logs and forgets hidden entries.
LEMMA EvidenceKept ==
    ASSUME LifecycleEvidenced, outbox \subseteq outbox',
           \A t \in Tables : \/ commits'[t] = <<>>
                             \/ \E u \in Tables : commits'[t] = commits[u],
           \A t \in Tables : soft_deletes'[t] \in {soft_deletes[t], Absent}
    PROVE  LifecycleEvidenced'
<1>1. \A t \in Tables : LogAnnounced(commits[t], outbox')
                       /\ HiddenAnnounced(t, soft_deletes[t], outbox')
  BY EvidenceParts, MoreEvents
<1>2. LogAnnounced(<<>>, outbox') /\ \A t \in Tables : HiddenAnnounced(t, Absent, outbox')
  BY DEF LogAnnounced, HiddenAnnounced
<1>3. \A t \in Tables : LogAnnounced(commits'[t], outbox')
                       /\ HiddenAnnounced(t, soft_deletes'[t], outbox')
  BY <1>1, <1>2
<1> QED BY <1>3, EvidenceParts DEF LifecycleEvidenced, LogAnnounced, Announced, HiddenAnnounced

LEMMA CommitKeepsEvidence ==
    ASSUME TypeOK, HistoryMatchesPointer, LifecycleEvidenced,
           NEW t \in Tables, NEW expected \in MetadataLocations,
           NEW loc \in MetadataLocations, NEW key \in Keys \cup {NoKey},
           NEW request \in Requests, CommitTable(t, expected, loc, key, request)
    PROVE  LifecycleEvidenced'
<1> DEFINE row == Advanced(tables[t], loc)
           rec == CommitRecordOf(tables[t], loc, key, request)
           n   == Len(commits[t])
           e   == Event("table.commit", t, row)
<1>1. tables[t] \in TableRow /\ tables[t] # Absent
  BY DEF CommitTable, Visible, TypeOK
<1>2. row.version = n + 1 /\ row.location = loc /\ rec.new = loc
  BY <1>1, LogLength DEF Advanced, CommitRecordOf
<1>3. rec \in CommitRecord /\ commits[t] \in Seq(CommitRecord) /\ n \in Nat
  BY <1>1, CommitRecordType DEF TypeOK
<1>4. /\ commits' = [commits EXCEPT ![t] = Append(commits[t], rec)]
      /\ outbox' = outbox \cup {e} /\ soft_deletes' = soft_deletes
  BY DEF CommitTable, Record
<1>5. e.type = "table.commit" /\ e.version = n + 1 /\ e.location = rec.new
  BY <1>2 DEF Event
<1> HIDE DEF rec, e, row
<1>6. \A u \in Tables : LogAnnounced(commits[u], outbox')
                       /\ HiddenAnnounced(u, soft_deletes[u], outbox')
  BY <1>4, EvidenceParts, MoreEvents
<1>7. Announced(n + 1, rec, outbox')
  BY <1>4, <1>5 DEF Announced
<1>8. LogAnnounced(Append(commits[t], rec), outbox')
  <2> DEFINE longer == Append(commits[t], rec)
  <2>1. Len(longer) = n + 1 /\ longer[n + 1] = rec /\ \A w \in 1..n : longer[w] = commits[t][w]
    BY <1>3
  <2> HIDE DEF longer
  <2>2. ASSUME NEW w \in 1..(n + 1) PROVE Announced(w, longer[w], outbox')
    <3>1. CASE w = n + 1
      BY <1>7, <2>1, <3>1
    <3>2. CASE w # n + 1
      <4>1. w \in 1..n
        BY <1>3, <3>2
      <4> QED BY <1>6, <2>1, <4>1 DEF LogAnnounced
    <3> QED BY <3>1, <3>2
  <2>3. LogAnnounced(longer, outbox')
    BY <2>1, <2>2 DEF LogAnnounced
  <2> QED BY <2>3 DEF longer
<1>9. ASSUME NEW u \in Tables
      PROVE  LogAnnounced(commits'[u], outbox') /\ HiddenAnnounced(u, soft_deletes'[u], outbox')
  <2>1. commits'[u] = IF u = t THEN Append(commits[t], rec) ELSE commits[u]
    BY <1>4 DEF TypeOK
  <2> QED BY <1>4, <1>6, <1>8, <2>1
<1> QED BY <1>9 DEF LifecycleEvidenced, LogAnnounced, Announced, HiddenAnnounced

LEMMA StepKeepsEvidence ==
    TypeOK /\ HistoryMatchesPointer /\ LifecycleEvidenced /\ [Next]_vars => LifecycleEvidenced'
<1> SUFFICES ASSUME TypeOK, HistoryMatchesPointer, LifecycleEvidenced, [Next]_vars
             PROVE  LifecycleEvidenced'
  OBVIOUS
<1>1. ASSUME NEW n \in Namespaces, DropNamespace(n) PROVE LifecycleEvidenced'
  BY <1>1, EvidenceKept DEF DropNamespace
<1>2. ASSUME NEW s \in Tables, NEW d \in Tables, RenameTable(s, d) PROVE LifecycleEvidenced'
  <2>1. ASSUME NEW t \in Tables
        PROVE  commits'[t] = <<>> \/ \E u \in Tables : commits'[t] = commits[u]
    BY <1>2 DEF RenameTable, TypeOK
  <2>2. outbox \subseteq outbox' /\ soft_deletes' = soft_deletes
    BY <1>2 DEF RenameTable, Record
  <2> QED BY <2>1, <2>2, EvidenceKept
<1>3. ASSUME NEW t \in Tables, SoftDeleteTable(t) PROVE LifecycleEvidenced'
  <2>1. /\ outbox' = outbox \cup {Event("table.deleted", t, tables[t])}
        /\ commits' = commits /\ soft_deletes' = [soft_deletes EXCEPT ![t] = tables[t]]
    BY <1>3 DEF SoftDeleteTable, Record
  <2>2. \A u \in Tables : LogAnnounced(commits[u], outbox')
                         /\ HiddenAnnounced(u, soft_deletes[u], outbox')
    BY <2>1, EvidenceParts, MoreEvents
  <2>3. HiddenAnnounced(t, tables[t], outbox')
    BY <2>1 DEF HiddenAnnounced
  <2>4. ASSUME NEW u \in Tables
        PROVE  LogAnnounced(commits'[u], outbox') /\ HiddenAnnounced(u, soft_deletes'[u], outbox')
    BY <2>1, <2>2, <2>3 DEF TypeOK
  <2> QED BY <2>4 DEF LifecycleEvidenced, LogAnnounced, Announced, HiddenAnnounced
<1>4. ASSUME NEW t \in Tables, RestoreTable(t) PROVE LifecycleEvidenced'
  <2>1. outbox \subseteq outbox' /\ commits' = commits
        /\ \A u \in Tables : soft_deletes'[u] \in {soft_deletes[u], Absent}
    BY <1>4 DEF RestoreTable, Record, TypeOK
  <2> QED BY <2>1, EvidenceKept
<1>5. ASSUME UNCHANGED <<commits, soft_deletes, outbox>> PROVE LifecycleEvidenced'
  BY <1>5 DEF LifecycleEvidenced
<1>6. ASSUME NEW n \in Namespaces, CreateNamespace(n) PROVE LifecycleEvidenced'
  BY <1>5, <1>6 DEF CreateNamespace
<1>7. ASSUME NEW t \in Tables, NEW loc \in MetadataLocations, CreateTable(t, loc)
      PROVE  LifecycleEvidenced'
  BY <1>5, <1>7 DEF CreateTable
<1>8. ASSUME NEW v \in Views, UpsertView(v) \/ DropView(v) PROVE LifecycleEvidenced'
  BY <1>5, <1>8 DEF UpsertView, DropView
<1>9. ASSUME NEW p \in Policies, NEW scope \in PolicyScope, UpsertPolicyBinding(p, scope)
      PROVE  LifecycleEvidenced'
  BY <1>5, <1>9 DEF UpsertPolicyBinding
<1>10. CASE UNCHANGED vars
  BY <1>5, <1>10 DEF vars
<1> QED
  BY <1>1, <1>2, <1>3, <1>4, <1>6, <1>7, <1>8, <1>9, <1>10, CommitKeepsEvidence DEF Next

\* No transition without its evidence: every row of a pointer log, under
\* whatever name the table has now, was announced by a table.commit event of
\* that version and pointer, and every hidden table by its table.deleted.
THEOREM EveryTransitionEvidenced == Spec => []LifecycleEvidenced
<1>1. Init => LifecycleEvidenced
  BY DEF Init, LifecycleEvidenced
<1> QED BY <1>1, StepKeepsEvidence, TypeCorrect, LogTellsPointer, PTL DEF Spec
=============================================================================
