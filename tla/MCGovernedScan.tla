---------------------------- MODULE MCGovernedScan ----------------------------
(***************************************************************************)
(* A small instance of GovernedScan: two columns, three metadata documents *)
(* of two snapshots, and one binding whose policy changes between a wide   *)
(* and a narrow restriction with a purpose and one without.                *)
(***************************************************************************)
EXTENDS GovernedScan, TLC

CONSTANTS a, b, ops, rows

MCMetas == {[snap |-> 1, doc |-> 1], [snap |-> 1, doc |-> 2], [snap |-> 2, doc |-> 1]}

MCPolicies ==
    {[cols |-> {a, b}, pred |-> None, purpose |-> ops],
     [cols |-> {a}, pred |-> rows, purpose |-> ops]}

MCAsks ==
    {[projection |-> {}, snapshot |-> None, attested |-> TRUE],
     [projection |-> {a, b}, snapshot |-> None, attested |-> TRUE],
     [projection |-> {a}, snapshot |-> 1, attested |-> FALSE]}
MCSymmetry == Permutations(Callers)
=============================================================================
