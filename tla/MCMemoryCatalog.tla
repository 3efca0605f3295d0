-------------------------- MODULE MCMemoryCatalog --------------------------
(***************************************************************************)
(* Small instances of MemoryCatalog.  Two namespaces, the second below the *)
(* first, so that dropping the parent has a child to respect.              *)
(***************************************************************************)
EXTENDS MemoryCatalog

CONSTANTS n1, n2

MCDescendants == [n \in Namespaces |-> IF n = n1 THEN {n2} ELSE {}]

\* Different dotted paths.
MCPathOf == [n \in Namespaces |-> n]
=============================================================================
