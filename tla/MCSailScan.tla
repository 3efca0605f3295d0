------------------------------ MODULE MCSailScan ------------------------------
(***************************************************************************)
(* SailScan with two data files, strings of at most two bytes over {0, 1}, *)
(* every content of at most three rows with every choice of the metrics    *)
(* that are present, and filters of every kind.                            *)
(***************************************************************************)
EXTENDS SailScan

CONSTANTS f1, f2

MCFiles == {f1, f2}
Strings == {<<0>>, <<0, 1>>, <<1>>}
MCContents ==
    [rows : {R \in SUBSET (Strings \cup {Null}) : Cardinality(R) \in 1..2},
     bounds : BOOLEAN, counts : BOOLEAN]

\* Every content is the content of f1 in some layout.
MCLayouts ==
    {[f \in MCFiles |-> IF f = f1 THEN c ELSE [rows |-> {<<0>>, <<1>>, Null}, bounds |-> TRUE, counts |-> TRUE]] :
        c \in {d \in MCContents : d.bounds \/ Cardinality(d.rows) = 2}}

Atoms ==
    [type : Literals, value : Strings] \cup
    [type : {"in", "not-in"}, values : {{<<0>>}, {<<0>>, <<1>>}}] \cup
    [type : {"is-null", "not-null"}]
Negations == [type : {"not"}, child : Atoms]
Pairs == [type : {"and", "or"}, left : [type : {"eq", "gt"}, value : {<<0, 1>>}],
          right : [type : {"is-null", "true", "false"}]]
MCFilters == Atoms \cup Negations \cup Pairs \cup [type : {"true", "false"}]

\* Only negations and pairs have filters inside them.
MCDepth == [f \in MCFilters |-> IF f.type \in {"and", "or", "not"} THEN 1 ELSE 0]

MCAsked == {[type |-> "true"], [type |-> "lt", value |-> <<0, 1>>]}
MCAskedNulls == {[type |-> "is-null"]}
=============================================================================
