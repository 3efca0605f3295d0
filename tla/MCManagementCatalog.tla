------------------------ MODULE MCManagementCatalog ------------------------
(***************************************************************************)
(* A small instance of ManagementCatalog.  The callers are                 *)
(* interchangeable; storage profiles are not, their order decides.         *)
(***************************************************************************)
EXTENDS ManagementCatalog, TLC

CONSTANTS a, b      \* path components

Prefix(path, slash) == [path |-> path, slash |-> slash]

\* s3://a, the same with a trailing slash, and s3://a/b.
MCPrefixes == {Prefix(<<a>>, FALSE), Prefix(<<a>>, TRUE), Prefix(<<a, b>>, FALSE)}

MCLocations == {<<a>>, <<a, b>>, <<b, a>>}

CallerSymmetry == Permutations(Callers)
=============================================================================
