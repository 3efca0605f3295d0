---------------------------- MODULE CatalogBase ----------------------------
(***************************************************************************)
(* The vocabulary shared by the models of the catalog stores: table and    *)
(* namespace identities, the rows the stores keep about them, and the      *)
(* derived keys.  One warehouse is modelled: every key of the store starts *)
(* with the warehouse name and no operation moves an object between        *)
(* warehouses.                                                             *)
(***************************************************************************)
EXTENDS Naturals, Sequences

CONSTANTS
    Namespaces,     \* namespace identities (ordered component lists)
    Descendants,    \* Descendants[n]: the namespaces strictly below n
    PathOf,         \* PathOf[n]: the dot-joined display path of n
    Names,          \* table (and view) names
    Locations,      \* metadata locations (object URIs)
    Keys,           \* client-chosen idempotency keys
    Requests,       \* contents of commit requests, one per request hash
    Policies,       \* policy ids
    NoLocation,     \* Option::None of a metadata location
    NoKey,          \* Option::None of an idempotency key
    Unscoped,       \* Option::None of a policy binding's namespace or table
    Absent          \* no row under this key

ASSUME NamespaceAssumption ==
    /\ Descendants \in [Namespaces -> SUBSET Namespaces]
    /\ \A n \in Namespaces : n \notin Descendants[n]
    /\ DOMAIN PathOf = Namespaces

ASSUME SentinelAssumption ==
    /\ NoLocation \notin Locations
    /\ NoKey \notin Keys
    /\ Unscoped \notin Namespaces \cup Names

-----------------------------------------------------------------------------
(* Identities and derived keys.                                             *)

\* table_key: warehouse, length-prefixed namespace encoding and table name,
\* which is injective, so a table is identified with its key.  Views use the
\* same shape of key.
Tables == Namespaces \X Names

\* TableIdent::stable_id joins the namespace's components with dots.  It is
\* what the idempotency keys of both stores start with, and two namespaces
\* may have the same dotted path.
StableId(t) == <<PathOf[t[1]], t[2]>>

\* The key of an idempotency record: "{stable_id}:{idempotency_key}".
IdemKey(t, k) == <<StableId(t), k>>

IdemKeys == {IdemKey(t, k) : t \in Tables, k \in Keys}

-----------------------------------------------------------------------------
(* Rows.                                                                    *)

MetadataLocations == Locations \cup {NoLocation}

\* TableRecord, reduced to the commit version and the metadata pointer.
TableRow == [version : Nat, location : MetadataLocations]

\* TableCommitRecord: one transition of a table's metadata pointer.
CommitRecord ==
    [previous : MetadataLocations, new : MetadataLocations,
     sequence_number : Nat, key : Keys \cup {NoKey}, request : Requests]

\* IdempotencyReplay: the response to replay to a repeated request.
ReplayRow == [table : Tables, request : Requests, response : TableRow]

\* PolicyBinding, reduced to the objects it applies to: the warehouse, one
\* namespace or one table (a table scope without a namespace is rejected).
PolicyScope ==
    {s \in [namespace : Namespaces \cup {Unscoped}, table : Names \cup {Unscoped}] :
        s.table # Unscoped => s.namespace # Unscoped}

\* The sentinel is none of the rows it stands in for.
ASSUME AbsentAssumption ==
    /\ Absent \notin TableRow
    /\ Absent \notin CommitRecord
    /\ Absent \notin ReplayRow
    /\ Absent \notin PolicyScope

\* A lifecycle event of the audit log and the outbox.
LifecycleEvent ==
    [type : {"table.commit", "table.renamed", "table.deleted", "table.restored"},
     table : Tables, version : Nat, location : MetadataLocations]

\* TableRecord::new: a created or registered table starts at version 0.
NewTable(loc) == [version |-> 0, location |-> loc]

\* What an accepted commit makes of the row: the new pointer, version + 1.
Advanced(row, loc) == [version |-> row.version + 1, location |-> loc]

\* The pointer-log record of an accepted commit.
CommitRecordOf(row, loc, key, request) ==
    [previous |-> row.location, new |-> loc,
     sequence_number |-> row.version + 1, key |-> key, request |-> request]

\* SoftDeleteRecord copies the version and the metadata location it hides,
\* and validate_for_table requires both to be those of the table.
ValidForTable(softDelete, row) == softDelete = row

Event(type, t, row) ==
    [type |-> type, table |-> t, version |-> row.version,
     location |-> row.location]
=============================================================================
