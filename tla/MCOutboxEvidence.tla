--------------------------- MODULE MCOutboxEvidence ---------------------------
(***************************************************************************)
(* OutboxEvidence over one table with two columns.  The policies differ in *)
(* whether they restrict columns and rows, name a purpose and cap the life *)
(* of credentials; the two namespaces have the same dotted path.           *)
(***************************************************************************)
EXTENDS OutboxEvidence

Policy(columns, predicate, purpose, ttl) ==
    [columns |-> columns, predicate |-> predicate, purpose |-> purpose, ttl |-> ttl]

MCPolicies ==
    {Policy(<<"a">>, "p", "study", 60),
     Policy(<<"a", "b">>, "q", Null, Null),
     Policy(Null, Null, "audit", 30)}

MCNamespaces == {<<<<"x", "y">>>>, <<<<"x">>, <<"y">>>>}

MCRequests ==
    {[projection |-> << >>, stats |-> <<"a">>], [projection |-> <<"a", "b">>, stats |-> << >>],
     [projection |-> <<"b">>, stats |-> <<"b">>],
     [projection |-> <<"a", "b">>, stats |-> <<"b", "a">>]}

=============================================================================
