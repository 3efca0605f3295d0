--------------------------- MODULE MCTursoCatalog ---------------------------
(***************************************************************************)
(* Small instances of TursoCatalog.  The callers are interchangeable.      *)
(***************************************************************************)
EXTENDS TursoCatalog, TLC

CONSTANTS n1, n2, a, r1

MCDescendants == [n \in Namespaces |-> IF n = n1 THEN Namespaces \ {n1} ELSE {}]

MCPathOf == [n \in Namespaces |-> n]

Workload(kinds, names, locations, requests, versions, attempts) ==
    [kinds |-> kinds, tables |-> {t \in Tables : t[2] \in names},
     locations |-> locations, requests |-> requests, versions |-> versions,
     attempts |-> attempts]

Creations == {"create_namespace", "create_table"}

\* Commits with one key and two requests; renames, with commits and new
\* tables in the way; deletions, restorations and namespace drops.
MCTableWorkloads ==
    {Workload(Creations \cup {"commit_table"}, {a}, Locations, Requests, 2, 2),
     Workload(Creations \cup {"commit_table", "rename_table"}, Names, {NoLocation}, {r1}, 1, 1),
     Workload(Creations \cup {"commit_table", "drop_namespace", "soft_delete_table",
                              "restore_table"}, {a}, {NoLocation}, {r1}, 1, 1)}

\* Namespace properties, and views and policies, against namespace drops.
MCNamespaceWorkloads ==
    {Workload({"create_namespace", "update_namespace_properties", "drop_namespace",
               "upsert_view"}, {}, {}, {}, 0, 2),
     Workload({"create_namespace", "drop_namespace", "upsert_view", "drop_view",
               "upsert_policy_binding"}, {}, {}, {}, 0, 2)}

\* Commits against soft deletions.
MCHidingWorkloads ==
    {Workload(Creations \cup {"commit_table", "soft_delete_table"}, {a}, {NoLocation}, {r1}, 1, 1)}

\* Creations against namespace drops.
MCDroppingWorkloads ==
    {Workload(Creations \cup {"drop_namespace"}, {a}, {NoLocation}, {r1}, 1, 1)}

CallerSymmetry == Permutations(Clients)
=============================================================================
