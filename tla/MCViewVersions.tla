--------------------------- MODULE MCViewVersions ---------------------------
(***************************************************************************)
(* Small instances of ViewVersions.  The clients are interchangeable.      *)
(***************************************************************************)
EXTENDS ViewVersions, TLC

\* Every view has an identity of its own.
MCStableIdOf == [v \in Views |-> v]

ClientSymmetry == Permutations(Clients)
=============================================================================
