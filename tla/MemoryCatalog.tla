---------------------------- MODULE MemoryCatalog ----------------------------
(***************************************************************************)
(* MemoryCatalogStore: the catalog's reference store.  Every operation     *)
(* takes the one RwLock for its whole body, so each is one atomic action.  *)
(* A call that returns an error leaves the state alone and is a stuttering *)
(* step; an action's guard is the conjunction of the conditions under      *)
(* which the call gets past its early returns.                             *)
(***************************************************************************)
EXTENDS CatalogBase, FiniteSets

CONSTANTS
    ViewNames,      \* names of views
    MaxVersion,     \* bound: commits per table
    MaxEvents       \* bound: distinct lifecycle events recorded

ASSUME BoundAssumption == MaxVersion \in Nat /\ MaxEvents \in Nat

\* view_key has the shape of table_key; views and tables do not share names.
Views == Namespaces \X ViewNames

VARIABLES
    namespaces,     \* the namespaces that exist
    tables,         \* Tables -> TableRow or Absent
    soft_deletes,   \* Tables -> TableRow or Absent: the hidden tables
    commits,        \* Tables -> Seq(CommitRecord): the pointer log
    idempotency,    \* IdemKeys -> ReplayRow or Absent
    views,          \* the views that exist
    policy_bindings,\* Policies -> PolicyScope or Absent
    outbox,         \* lifecycle events recorded with a transition
    named           \* history: the version a table had when it came to its
                    \* present name, 0 unless a rename brought it there

vars == <<namespaces, tables, soft_deletes, commits, idempotency, views,
          policy_bindings, outbox, named>>

TypeOK ==
    /\ namespaces \in SUBSET Namespaces
    /\ tables \in [Tables -> TableRow \cup {Absent}]
    /\ soft_deletes \in [Tables -> TableRow \cup {Absent}]
    /\ commits \in [Tables -> Seq(CommitRecord)]
    /\ idempotency \in [IdemKeys -> ReplayRow \cup {Absent}]
    /\ views \in SUBSET Views
    /\ policy_bindings \in [Policies -> PolicyScope \cup {Absent}]
    /\ outbox \in SUBSET LifecycleEvent
    /\ named \in [Tables -> Nat]

Init ==
    /\ namespaces = {}
    /\ tables = [t \in Tables |-> Absent]
    /\ soft_deletes = [t \in Tables |-> Absent]
    /\ commits = [t \in Tables |-> <<>>]
    /\ idempotency = [i \in IdemKeys |-> Absent]
    /\ views = {}
    /\ policy_bindings = [p \in Policies |-> Absent]
    /\ outbox = {}
    /\ named = [t \in Tables |-> 0]

-----------------------------------------------------------------------------
(* What a caller sees.                                                      *)

\* Mutant of Visible: a hidden table is found.
VisibleWhileHidden(t) == tables[t] # Absent

\* load_table, list_tables: a soft-deleted table is hidden.
Visible(t) == tables[t] # Absent /\ soft_deletes[t] = Absent

\* Mutant of TablesIn: what list_tables shows.
VisibleTablesIn(n) == {t \in Tables : t[1] = n /\ Visible(t)}

TablesIn(n) == {t \in Tables : t[1] = n /\ tables[t] # Absent}

\* The audit event and the outbox event that an operation records together
\* with its transition.
Record(e) ==
    /\ Cardinality(outbox \cup {e}) <= MaxEvents
    /\ outbox' = outbox \cup {e}

-----------------------------------------------------------------------------
(* Namespaces.                                                              *)

CreateNamespace(n) ==
    /\ n \notin namespaces
    /\ namespaces' = namespaces \cup {n}
    /\ UNCHANGED <<tables, soft_deletes, commits, idempotency, views,
                   policy_bindings, outbox, named>>

\* drop_namespace: no child namespace, no visible table, every hidden table
\* intact and no hidden entry without its table, no view, no policy binding.
DropNamespaceAllowed(n) ==
    /\ n \in namespaces
    /\ namespaces \cap Descendants[n] = {}
    /\ \A t \in TablesIn(n) :
          soft_deletes[t] # Absent /\ ValidForTable(soft_deletes[t], tables[t])
    /\ \A t \in Tables :
          t[1] = n /\ soft_deletes[t] # Absent => tables[t] # Absent
    /\ \A v \in views : v[1] # n
    /\ \A p \in Policies :
          policy_bindings[p] # Absent => policy_bindings[p].namespace # n

\* The hidden tables of the namespace are retired with it, pointer log and
\* idempotency records included; the outbox keeps its events.
DropNamespace(n) ==
    /\ DropNamespaceAllowed(n)
    /\ LET retired == TablesIn(n)
       IN  /\ tables' = [t \in Tables |-> IF t \in retired THEN Absent ELSE tables[t]]
           /\ soft_deletes' =
                 [t \in Tables |-> IF t \in retired THEN Absent ELSE soft_deletes[t]]
           /\ commits' = [t \in Tables |-> IF t \in retired THEN <<>> ELSE commits[t]]
           /\ idempotency' =
                 [i \in IdemKeys |->
                    IF idempotency[i] # Absent /\ idempotency[i].table \in retired
                    THEN Absent ELSE idempotency[i]]
           /\ named' = [t \in Tables |-> IF t \in retired THEN 0 ELSE named[t]]
    /\ namespaces' = namespaces \ {n}
    /\ UNCHANGED <<views, policy_bindings, outbox>>

-----------------------------------------------------------------------------
(* Tables.                                                                  *)

\* Mutant of CreateTable: insert or update.
CreateOrReplaceTable(t, loc) ==
    /\ t[1] \in namespaces
    /\ tables' = [tables EXCEPT ![t] = NewTable(loc)]
    /\ UNCHANGED <<namespaces, soft_deletes, commits, idempotency, views,
                   policy_bindings, outbox, named>>

\* create_table, for createTable and registerTable alike: the name must be
\* free of hidden tables too.
CreateTable(t, loc) ==
    /\ t[1] \in namespaces
    /\ tables[t] = Absent
    /\ tables' = [tables EXCEPT ![t] = NewTable(loc)]
    /\ UNCHANGED <<namespaces, soft_deletes, commits, idempotency, views,
                   policy_bindings, outbox, named>>

\* The idempotency records with the response of a commit among them.
Remember(t, key, request, row) ==
    IF key = NoKey THEN idempotency
    ELSE [idempotency EXCEPT ![IdemKey(t, key)] =
             [table |-> t, request |-> request, response |-> row]]

\* Mutant of KeyFree: the key is not looked up again under the lock.
KeyUnchecked(t, key) == TRUE

KeyFree(t, key) == key # NoKey => idempotency[IdemKey(t, key)] = Absent

\* commit_table: the key must be unused (a used one replays or conflicts),
\* the table visible and its pointer the expected one.
CommitTable(t, expected, loc, key, request) ==
    /\ Visible(t)
    /\ KeyFree(t, key)
    /\ tables[t].location = expected
    /\ tables[t].version < MaxVersion
    /\ LET row == Advanced(tables[t], loc)
       IN  /\ tables' = [tables EXCEPT ![t] = row]
           /\ commits' = [commits EXCEPT ![t] =
                 Append(@, CommitRecordOf(tables[t], loc, key, request))]
           /\ idempotency' = Remember(t, key, request, row)
           /\ Record(Event("table.commit", t, row))
    /\ UNCHANGED <<namespaces, soft_deletes, views, policy_bindings, named>>

\* rename_table checks every idempotency record: one that is keyed to the
\* source must belong to the source and the other way round, and none may be
\* keyed to, or belong to, the destination.
IdempotencyAllowsRename(s, d) ==
    \A i \in IdemKeys :
       idempotency[i] # Absent =>
          /\ i[1] = StableId(s) <=> idempotency[i].table = s
          /\ i[1] # StableId(d)
          /\ idempotency[i].table # d

\* A binding of exactly the source table follows it to the destination.
Retargeted(scope, s, d) ==
    IF scope # Absent /\ scope.namespace = s[1] /\ scope.table = s[2]
    THEN [namespace |-> d[1], table |-> d[2]] ELSE scope

\* Mutant of KeysWithout: the source's records stay.
KeysKept(s) == idempotency

\* The idempotency records without those keyed to table s.
KeysWithout(s) ==
    [i \in IdemKeys |-> IF i[1] = StableId(s) THEN Absent ELSE idempotency[i]]

\* rename_table: pointer, version and history move unchanged; the source's
\* idempotency records are retired.
RenameTable(s, d) ==
    /\ d[1] \in namespaces
    /\ Visible(s)
    /\ tables[d] = Absent
    /\ soft_deletes[d] = Absent
    /\ commits[d] = <<>>
    /\ IdempotencyAllowsRename(s, d)
    /\ tables' = [tables EXCEPT ![s] = Absent, ![d] = tables[s]]
    /\ commits' = [commits EXCEPT ![s] = <<>>, ![d] = commits[s]]
    /\ idempotency' = KeysWithout(s)
    /\ policy_bindings' =
          [p \in Policies |-> Retargeted(policy_bindings[p], s, d)]
    /\ Record(Event("table.renamed", d, tables[s]))
    /\ named' = [named EXCEPT ![s] = 0, ![d] = tables[s].version]
    /\ UNCHANGED <<namespaces, soft_deletes, views>>

\* Mutant of SoftDeleteTable: no audit and outbox event.
SoftDeleteUnrecorded(t) ==
    /\ t[1] \in namespaces
    /\ Visible(t)
    /\ soft_deletes' = [soft_deletes EXCEPT ![t] = tables[t]]
    /\ UNCHANGED <<namespaces, tables, commits, idempotency, views, policy_bindings,
                   outbox, named>>

SoftDeleteTable(t) ==
    /\ t[1] \in namespaces
    /\ Visible(t)
    /\ soft_deletes' = [soft_deletes EXCEPT ![t] = tables[t]]
    /\ Record(Event("table.deleted", t, tables[t]))
    /\ UNCHANGED <<namespaces, tables, commits, idempotency, views, policy_bindings,
                   named>>

RestoreTable(t) ==
    /\ t[1] \in namespaces
    /\ soft_deletes[t] # Absent
    /\ tables[t] # Absent
    /\ ValidForTable(soft_deletes[t], tables[t])
    /\ soft_deletes' = [soft_deletes EXCEPT ![t] = Absent]
    /\ Record(Event("table.restored", t, tables[t]))
    /\ UNCHANGED <<namespaces, tables, commits, idempotency, views, policy_bindings,
                   named>>

-----------------------------------------------------------------------------
(* The objects that keep a namespace from being dropped.  Neither upsert    *)
(* looks at the namespace it names.                                         *)

UpsertView(v) ==
    /\ views' = views \cup {v}
    /\ UNCHANGED <<namespaces, tables, soft_deletes, commits, idempotency,
                   policy_bindings, outbox, named>>

DropView(v) ==
    /\ v \in views
    /\ views' = views \ {v}
    /\ UNCHANGED <<namespaces, tables, soft_deletes, commits, idempotency,
                   policy_bindings, outbox, named>>

UpsertPolicyBinding(p, scope) ==
    /\ policy_bindings' = [policy_bindings EXCEPT ![p] = scope]
    /\ UNCHANGED <<namespaces, tables, soft_deletes, commits, idempotency,
                   views, outbox, named>>

Next ==
    \/ \E n \in Namespaces : CreateNamespace(n) \/ DropNamespace(n)
    \/ \E t \in Tables, loc \in MetadataLocations : CreateTable(t, loc)
    \/ \E t \in Tables, expected, loc \in MetadataLocations,
          key \in Keys \cup {NoKey}, request \in Requests :
          CommitTable(t, expected, loc, key, request)
    \/ \E s, d \in Tables : RenameTable(s, d)
    \/ \E t \in Tables : SoftDeleteTable(t) \/ RestoreTable(t)
    \/ \E v \in Views : UpsertView(v) \/ DropView(v)
    \/ \E p \in Policies, scope \in PolicyScope : UpsertPolicyBinding(p, scope)

Spec == Init /\ [][Next]_vars

-----------------------------------------------------------------------------
(* Properties.                                                              *)

\* A hidden table can always be brought back: soft_delete_table's record
\* still describes the table, so restore_table's and drop_namespace's
\* validate_for_table never fails and no hidden entry outlives its table.
SoftDeleteAgrees ==
    \A t \in Tables : soft_deletes[t] # Absent => soft_deletes[t] = tables[t]

\* drop_namespace never strands a table: every table, hidden ones included,
\* is in a namespace that exists.
TablesInNamespaces ==
    \A t \in Tables : tables[t] # Absent => t[1] \in namespaces

\* What replay_table_commit returns is what the commit with that key did to
\* this very table in its present life: the response is the table as it was
\* right after the commit, and the pointer log has that commit under the key.
ReplayIsHistory ==
    \A i \in IdemKeys :
       idempotency[i] # Absent =>
          LET replay == idempotency[i]
              log    == commits[replay.table]
              v      == replay.response.version
          IN  /\ v \in 1..Len(log)
              /\ log[v].new = replay.response.location
              /\ log[v].key = i[2]
              /\ log[v].request = replay.request

\* A key commits once: of the commits that a table's pointer log has since
\* the table came to its present name, no two carry the same key.  A client
\* that repeats a request whose answer it lost commits nothing twice, however
\* often the table is hidden and restored in between.  (rename_table retires
\* the records of the old name, and with them what its keys stand for.)
KeyCommitsOnce ==
    \A t \in Tables : \A v, w \in (named[t] + 1)..Len(commits[t]) :
       v # w /\ commits[t][v].key # NoKey => commits[t][v].key # commits[t][w].key

\* Every pointer transition and every hidden table has its audit and outbox
\* evidence: the commit that made version v recorded it (under the name the
\* table had then), and so did the deletion.
LifecycleEvidenced ==
    \A t \in Tables :
       /\ \A v \in 1..Len(commits[t]) :
             \E e \in outbox : /\ e.type = "table.commit"
                              /\ e.version = v
                              /\ e.location = commits[t][v].new
       /\ soft_deletes[t] # Absent =>
             Event("table.deleted", t, soft_deletes[t]) \in outbox

\* The store keeps the promise about pointers and histories.
Pointers == INSTANCE TablePointer WITH pointer <- tables, history <- commits

\* Refinement: every step of the store is a step of TablePointer or leaves
\* pointers and histories alone.
ImplementsTablePointer == Pointers!Spec

\* The pointer log is the whole story of every table that is there, and
\* nothing is left of the log of one that is not: one record per version,
\* each starting where the one before ended, the last ending at the pointer.
HistoryMatchesPointer == Pointers!HistoryMatchesPointer
=============================================================================
