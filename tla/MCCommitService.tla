--------------------------- MODULE MCCommitService ---------------------------
(***************************************************************************)
(* Small instances of CommitService.                                       *)
(***************************************************************************)
EXTENDS CommitService, TLC

CONSTANTS
    l1,         \* a location a client may name
    l2, l3      \* locations the server generates

Body(loc, metadata, updates) ==
    [location |-> loc, metadata |-> metadata, updates |-> updates, create |-> FALSE]

Bodies == {Body(loc, metadata, updates) :
              loc \in {l1, NoLocation}, metadata, updates \in BOOLEAN}

MCContents == Bodies \cup {[b EXCEPT !.create = TRUE] : b \in Bodies}

\* Sail over the Turso store.  A full document at a location of the client's
\* choice, updates for the catalog to apply, the same with assert-create, and
\* an empty request.
SailOverTurso ==
    [engine |-> "sail", checksVersion |-> TRUE, operations |-> {"create", "commit"},
     contents |-> {Body(l1, TRUE, FALSE), Body(NoLocation, FALSE, TRUE),
                   [Body(NoLocation, FALSE, TRUE) EXCEPT !.create = TRUE],
                   Body(NoLocation, FALSE, FALSE)}]

\* The deferred engine over the memory store.  The client's location, a
\* document that would replace the current one and is refused, and an empty
\* request.
DeferredOverMemory ==
    [engine |-> "deferred", checksVersion |-> FALSE,
     operations |-> {"create", "commit", "adopt", "register"},
     contents |-> {Body(l1, FALSE, FALSE), Body(NoLocation, TRUE, FALSE),
                   Body(NoLocation, FALSE, FALSE)}]

MCDeployments == {SailOverTurso, DeferredOverMemory}

\* The client names a location and sends no document and no updates.
MCLocationOnly ==
    {[SailOverTurso EXCEPT !.contents = {Body(l1, FALSE, FALSE),
                                         Body(NoLocation, FALSE, TRUE)}]}

MCSymmetry == {p @@ q : p \in Permutations(Handlers), q \in Permutations({l2, l3})}
=============================================================================
