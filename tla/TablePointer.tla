---------------------------- MODULE TablePointer ----------------------------
(***************************************************************************)
(* What a catalog store promises about metadata pointers, whatever else it *)
(* keeps: a table is a pointer with a version, the pointer moves only      *)
(* forward and one version at a time, every move is in the table's history *)
(* exactly once, a rename carries pointer and history along unchanged, and *)
(* a retired table takes its history with it.  Namespaces, hidden tables,  *)
(* idempotency and evidence are the business of the detailed stores.       *)
(***************************************************************************)
EXTENDS CatalogBase

VARIABLES
    pointer,    \* Tables -> TableRow or Absent
    history     \* Tables -> Seq(CommitRecord)

vars == <<pointer, history>>

TypeOK ==
    /\ pointer \in [Tables -> TableRow \cup {Absent}]
    /\ history \in [Tables -> Seq(CommitRecord)]

Init ==
    /\ pointer = [t \in Tables |-> Absent]
    /\ history = [t \in Tables |-> <<>>]

Create(t) ==
    /\ pointer[t] = Absent
    /\ \E loc \in MetadataLocations :
          pointer' = [pointer EXCEPT ![t] = NewTable(loc)]
    /\ UNCHANGED history

Advance(t) ==
    /\ pointer[t] # Absent
    /\ \E loc \in MetadataLocations, key \in Keys \cup {NoKey}, req \in Requests :
          /\ pointer' = [pointer EXCEPT ![t] = Advanced(pointer[t], loc)]
          /\ history' = [history EXCEPT ![t] =
                            Append(@, CommitRecordOf(pointer[t], loc, key, req))]

Move(s, d) ==
    /\ pointer[s] # Absent
    /\ pointer[d] = Absent
    /\ pointer' = [pointer EXCEPT ![s] = Absent, ![d] = pointer[s]]
    /\ history' = [history EXCEPT ![s] = <<>>, ![d] = history[s]]

Retire(S) ==
    /\ pointer' = [t \in Tables |-> IF t \in S THEN Absent ELSE pointer[t]]
    /\ history' = [t \in Tables |-> IF t \in S THEN <<>> ELSE history[t]]

Next ==
    \/ \E t \in Tables : Create(t) \/ Advance(t)
    \/ \E s, d \in Tables : Move(s, d)
    \/ \E S \in SUBSET Tables : Retire(S)

Spec == Init /\ [][Next]_vars

-----------------------------------------------------------------------------
\* h is the whole story of a table with this row: it has one record per
\* version, in order, each starting where the one before ended, and the last
\* one ends at the row's location; an absent table has none.
Tells(h, row) ==
    IF row = Absent
    THEN h = <<>>
    ELSE /\ Len(h) = row.version
         /\ \A i \in 1..Len(h) :
               /\ h[i].sequence_number = i
               /\ i > 1 => h[i].previous = h[i - 1].new
         /\ row.version > 0 => h[row.version].new = row.location

\* The history of every table is the whole story of its pointer.
HistoryMatchesPointer == \A t \in Tables : Tells(history[t], pointer[t])
=============================================================================
