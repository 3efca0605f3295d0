---------------------------- MODULE MCOutboxDrain ----------------------------
(***************************************************************************)
(* Small instances of OutboxDrain: the first and the last event are of one *)
(* row, the batch is smaller than the backlog, and one event is refused.   *)
(***************************************************************************)
EXTENDS OutboxDrain

MCRowOf == [e \in 1..N |-> e % 3]
=============================================================================
