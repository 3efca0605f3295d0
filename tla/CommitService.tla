---------------------------- MODULE CommitService ----------------------------
(***************************************************************************)
(* The REST handlers that move a table's metadata pointer: createTable,    *)
(* registerTable and updateTable (commit).  Each handler is a sequence of  *)
(* awaits on two services that share no transaction, the object store with *)
(* the metadata documents and the catalog store with the pointers, so      *)
(* handlers interleave between any two of them and may die there.          *)
(*                                                                         *)
(* The catalog store is the linearizable one that MemoryCatalog and        *)
(* TursoCatalog describe in detail; a document is modelled by where it is. *)
(***************************************************************************)
EXTENDS Naturals, FiniteSets

CONSTANTS
    Handlers,           \* concurrent requests
    Tables,
    Locations,          \* URIs of metadata documents
    ClientLocations,    \* those a client may make up
    Keys,               \* idempotency keys
    Contents,           \* bodies of updateTable requests
    NoLocation,         \* Option::None of a location
    NoKey,              \* Option::None of an idempotency key
    Absent,             \* no row
    Deployments,        \* the builds, and what their clients ask for
    DeleteAttempts,     \* METADATA_CLEANUP_DELETE_ATTEMPTS (3)
    MaxVersion          \* bound: commits per table

ASSUME ServiceAssumption ==
    /\ ClientLocations \subseteq Locations
    /\ NoLocation \notin Locations
    /\ NoKey \notin Keys
    /\ Contents \subseteq [location : Locations \cup {NoLocation},
                           metadata : BOOLEAN, updates : BOOLEAN, create : BOOLEAN]
    /\ Deployments \subseteq
          [engine : {"deferred", "sail"}, checksVersion : BOOLEAN,
           operations : SUBSET {"commit", "create", "adopt", "register"},
           contents : SUBSET Contents]
    /\ MaxVersion \in Nat
    /\ DeleteAttempts \in Nat \ {0}

VARIABLES
    tables,         \* Tables -> Row or Absent
    idempotency,    \* the replay records of committed requests
    pointed,        \* locations some pointer has held (the pointer log)
    objects,        \* locations that hold a document
    minted,         \* locations the server generated
    audit,          \* tables with a table.created or table.registered event
    req,            \* Handlers -> the state of the request
    answers,        \* successful responses to keyed commits
    stray,          \* documents left behind for a known reason
    build,          \* the SailCatalogEngine, whether the store compares the
                    \* version it is given (the Turso store does), and the
                    \* requests clients make
    misreported     \* history: locations whose document was lost to a call that
                    \* took effect and was answered with an error

vars == <<tables, idempotency, pointed, objects, minted, audit, req, answers, stray,
          build, misreported>>

-----------------------------------------------------------------------------
\* staged: created with stage-create and not committed to yet.
Row == [version : 0..MaxVersion, location : Locations \cup {NoLocation},
        staged : BOOLEAN]

ReplayRow == [content : Contents, response : Row]

\* The sentinel is none of the rows it stands in for.
ASSUME AbsentAssumption == Absent \notin Row /\ Absent \notin ReplayRow

Idle == [phase |-> "idle"]

Phases == {"replay", "load", "read", "write", "cas", "admit", "audit", "cleanup"}

\* A handler: what was asked, what it loaded, and the location it is about
\* to make the pointer.  wrote: it holds a PlannedMetadataWrite.  failed: the
\* delete calls of cleanup_planned_metadata that have failed.
Request ==
    [phase : Phases, op : {"commit", "create", "adopt", "register"},
     table : Tables, key : Keys \cup {NoKey}, content : Contents \cup {Absent},
     loaded : Row \cup {Absent}, location : Locations \cup {NoLocation},
     stage : BOOLEAN, wrote : BOOLEAN, failed : 0..DeleteAttempts - 1]

TypeOK ==
    /\ build \in Deployments
    /\ tables \in [Tables -> Row \cup {Absent}]
    /\ idempotency \in [Tables \X Keys -> ReplayRow \cup {Absent}]
    /\ {pointed, objects, minted, stray, misreported} \subseteq SUBSET Locations
    /\ audit \subseteq Tables
    /\ req \in [Handlers -> Request \cup {Idle}]
    /\ answers \subseteq
          [table : Tables, key : Keys, content : Contents, response : Row]

Init ==
    /\ tables = [t \in Tables |-> Absent]
    /\ idempotency = [i \in Tables \X Keys |-> Absent]
    /\ pointed = {} /\ objects = {} /\ minted = {} /\ audit = {}
    /\ req = [c \in Handlers |-> Idle]
    /\ answers = {} /\ stray = {} /\ misreported = {}
    /\ build \in Deployments

-----------------------------------------------------------------------------
(* Helpers of the handlers.                                                 *)

Goto(c, phase) == req' = [req EXCEPT ![c].phase = phase]

Return(c) == req' = [req EXCEPT ![c] = Idle]

\* A generated location carries a fresh UUID.
Fresh == Locations \ (ClientLocations \cup minted)

\* What a client can name: its own locations and those it was told, which are
\* the ones that pointers have held.
Known == ClientLocations \cup pointed

New(op, t, phase, loc) ==
    [phase |-> phase, op |-> op, table |-> t, key |-> NoKey, content |-> Absent,
     loaded |-> Absent, location |-> loc, stage |-> FALSE, wrote |-> FALSE,
     failed |-> 0]

OrElse(loc, default) == IF loc = NoLocation THEN default ELSE loc

\* Mutant of RequirementsHold: assert-create is left out of every request.
CreateNeverAsserted(content, row) == TRUE

\* The handler leaves assert-create out of the requirements of a staged table;
\* for any other table Sail refuses it.  The deferred engine checks none.
RequirementsHold(content, row) ==
    content.create => row.staged \/ build.engine = "deferred"

\* prepare_commit of the two engines: the planned location and whether the
\* catalog has to write the document.  Empty: the engine refuses.
DeferredPlans(content, current) ==
    IF content.updates /\ ~content.metadata THEN {}
    ELSE {[location |-> OrElse(content.location, current),
           write |-> content.location # NoLocation \/ content.metadata]}

SailPlans(content, current) ==
    IF content.metadata
    THEN {[location |-> OrElse(content.location, current), write |-> TRUE]}
    ELSE IF content.updates
    THEN {[location |-> l, write |-> TRUE] : l \in Fresh}
    ELSE {[location |-> OrElse(content.location, current), write |-> FALSE]}

Plans(content, current) ==
    IF build.engine = "sail" THEN SailPlans(content, current)
    ELSE DeferredPlans(content, current)

\* validate_planned_metadata_location: a document that is to be written has
\* a location, and not the current one.  (All of Locations is within the
\* storage profile.)
ValidPlan(plan, current) ==
    plan.write => plan.location # NoLocation /\ plan.location # current

-----------------------------------------------------------------------------
(* commit_table_in_warehouse.                                               *)

BeginCommit(c, t, key, content) ==
    /\ req[c] = Idle
    /\ "commit" \in build.operations
    /\ content.location \in Known \cup {NoLocation}
    /\ req' = [req EXCEPT ![c] =
                 [New("commit", t, IF key = NoKey THEN "load" ELSE "replay", NoLocation)
                    EXCEPT !.key = key, !.content = content]]
    /\ UNCHANGED <<tables, idempotency, pointed, objects, minted, audit, answers, stray, misreported>>

\* The response a keyed request gets when its key has a record: the stored
\* one, or a conflict when the request is another one.
Replayed(r) ==
    LET replay == idempotency[<<r.table, r.key>>]
    IN  IF replay.content = r.content
        THEN {[table |-> r.table, key |-> r.key, content |-> r.content,
               response |-> replay.response]}
        ELSE {}

\* replay_table_commit, before anything is loaded.
CheckReplay(c) ==
    /\ req[c].phase = "replay"
    /\ IF idempotency[<<req[c].table, req[c].key>>] = Absent
       THEN Goto(c, "load") /\ UNCHANGED answers
       ELSE Return(c) /\ answers' = answers \cup Replayed(req[c])
    /\ UNCHANGED <<tables, idempotency, pointed, objects, minted, audit, stray, misreported>>

\* load_table and prepare_commit: the plan is made from the row as it is now.
LoadAndPlan(c) ==
    /\ req[c].phase = "load"
    /\ tables[req[c].table] # Absent
    /\ tables[req[c].table].version < MaxVersion
    /\ LET row == tables[req[c].table]
       IN  \E plan \in Plans(req[c].content, row.location) :
             /\ RequirementsHold(req[c].content, row)
             /\ ValidPlan(plan, row.location)
             /\ req' = [req EXCEPT ![c].phase = IF plan.write THEN "write" ELSE "cas",
                                   ![c].loaded = row,
                                   ![c].location = plan.location]
             /\ minted' = IF plan.location \in Fresh
                          THEN minted \cup {plan.location} ELSE minted
    /\ UNCHANGED <<tables, idempotency, pointed, objects, audit, answers, stray, misreported>>

\* No such table, a requirement that does not hold, an engine that refuses,
\* or a location that is not valid.
LoadRefused(c) ==
    /\ req[c].phase = "load"
    /\ tables[req[c].table] # Absent =>
          LET row == tables[req[c].table]
          IN  \/ ~RequirementsHold(req[c].content, row)
              \/ /\ Fresh # {}
                 /\ ~ \E plan \in Plans(req[c].content, row.location) :
                         ValidPlan(plan, row.location)
    /\ Return(c)
    /\ UNCHANGED <<tables, idempotency, pointed, objects, minted, audit, answers, stray, misreported>>

\* Mutant of WriteObject: PutMode::Overwrite.
WriteObjectOver(c) ==
    /\ req[c].phase = "write"
    /\ objects' = objects \cup {req[c].location}
    /\ req' = [req EXCEPT ![c].phase = IF req[c].op = "commit" THEN "cas" ELSE "admit",
                          ![c].wrote = TRUE]
    /\ UNCHANGED <<tables, idempotency, pointed, minted, audit, answers, stray, misreported>>

\* write_metadata_object: PutMode::Create, so the document is this request's
\* own; it fails when there is one at the location.
WriteObject(c) ==
    /\ req[c].phase = "write"
    /\ req[c].location \notin objects
    /\ objects' = objects \cup {req[c].location}
    /\ req' = [req EXCEPT ![c].phase = IF req[c].op = "commit" THEN "cas" ELSE "admit",
                          ![c].wrote = TRUE]
    /\ UNCHANGED <<tables, idempotency, pointed, minted, audit, answers, stray, misreported>>

\* The put fails: there is a document already, or the store did not answer,
\* having written the document or not.
WriteFails(c) ==
    /\ req[c].phase = "write"
    /\ Return(c)
    /\ \/ UNCHANGED <<objects, stray>>
       \/ /\ req[c].location \notin objects
          /\ objects' = objects \cup {req[c].location}
          /\ stray' = stray \cup {req[c].location}
    /\ UNCHANGED <<tables, idempotency, pointed, minted, audit, answers, misreported>>

\* Mutant of StillLoaded: the version is left out.
SamePointer(r) ==
    tables[r.table] # Absent /\ tables[r.table].location = r.loaded.location

\* What commit_table_with_snapshot compares.
StillLoaded(r) ==
    /\ tables[r.table] # Absent
    /\ tables[r.table].location = r.loaded.location
    /\ build.checksVersion => tables[r.table].version = r.loaded.version

\* Mutant of KeyUnused: the store does not look the key up again.
KeyUnchecked(r) == TRUE

KeyUnused(r) == r.key # NoKey => idempotency[<<r.table, r.key>>] = Absent

\* The row that the swap of request r leaves.
Swapped(r) ==
    [version |-> tables[r.table].version + 1, location |-> r.location, staged |-> FALSE]

\* commit_table_with_snapshot accepts: the pointer moves, and the key gets
\* its record, in one transaction.
Swap(r) ==
    /\ r.phase = "cas"
    /\ KeyUnused(r)
    /\ StillLoaded(r)
    /\ tables[r.table].version < MaxVersion
    /\ tables' = [tables EXCEPT ![r.table] = Swapped(r)]
    /\ pointed' = pointed \cup ({r.location} \ {NoLocation})
    /\ idempotency' =
          IF r.key = NoKey THEN idempotency
          ELSE [idempotency EXCEPT ![<<r.table, r.key>>] =
                  [content |-> r.content, response |-> Swapped(r)]]

CasSucceeds(c) ==
    LET r == req[c]
    IN  /\ Swap(r)
        /\ answers' =
              IF r.key = NoKey THEN answers
              ELSE answers \cup {[table |-> r.table, key |-> r.key, content |-> r.content,
                                  response |-> Swapped(r)]}
        /\ Return(c)
        /\ UNCHANGED <<objects, minted, audit, stray, misreported>>

\* The document of the new pointer is about to be cleaned up.
Misreport(c) ==
    IF req[c].wrote
    THEN Goto(c, "cleanup") /\ misreported' = misreported \cup {req[c].location}
    ELSE Return(c) /\ UNCHANGED misreported

\* The Turso store's COMMIT takes effect and fails: write_txn returns the
\* error, or runs the body again, which finds its own commit in the way.  (With
\* a key it finds its record and answers from it: that is CasSucceeds.)
CasUnanswered(c) ==
    /\ build.checksVersion
    /\ Swap(req[c])
    /\ Misreport(c)
    /\ UNCHANGED <<objects, minted, audit, answers, stray>>

\* The store answers from the key's record: Ok, so the handler returns the
\* stored response and its own document stays where it is.
CasReplays(c) ==
    /\ req[c].phase = "cas"
    /\ ~KeyUnused(req[c])
    /\ Replayed(req[c]) # {}
    /\ answers' = answers \cup Replayed(req[c])
    /\ stray' = IF req[c].wrote THEN stray \cup {req[c].location} ELSE stray
    /\ Return(c)
    /\ UNCHANGED <<tables, idempotency, pointed, objects, minted, audit, misreported>>

\* Mutant of CasFails: the document stays.
CasFailsAsItIs(c) ==
    /\ req[c].phase = "cas"
    /\ Return(c)
    /\ UNCHANGED <<tables, idempotency, pointed, objects, minted, audit, answers, stray, misreported>>

\* The store refuses: the key belongs to another request, or the row is no
\* longer the loaded one; or it just fails.  Then the document goes.
CasFails(c) ==
    /\ req[c].phase = "cas"
    /\ IF req[c].wrote THEN Goto(c, "cleanup") ELSE Return(c)
    /\ UNCHANGED <<tables, idempotency, pointed, objects, minted, audit, answers, stray, misreported>>

\* cleanup_planned_metadata leaves the document at the location that was
\* current when the request loaded the table.
SkipsCleanup(r) == r.loaded # Absent /\ r.loaded.location = r.location

\* The delete succeeds, or finds nothing to delete.
Cleanup(c) ==
    /\ req[c].phase = "cleanup"
    /\ objects' = IF SkipsCleanup(req[c]) THEN objects ELSE objects \ {req[c].location}
    /\ Return(c)
    /\ UNCHANGED <<tables, idempotency, pointed, minted, audit, answers, stray, misreported>>

\* The delete fails, having deleted the document or not, and is tried again
\* after a pause.  Who put a document at the location meanwhile loses it; only
\* at a location that clients may name can there be such a one.
DeleteRetried(c) ==
    /\ req[c].phase = "cleanup"
    /\ ~SkipsCleanup(req[c])
    /\ req[c].failed + 1 < DeleteAttempts
    /\ req' = [req EXCEPT ![c].failed = @ + 1]
    /\ \/ UNCHANGED <<objects, misreported>>
       \/ /\ objects' = objects \ {req[c].location}
          /\ misreported' = misreported \cup ({req[c].location} \cap ClientLocations)
    /\ UNCHANGED <<tables, idempotency, pointed, minted, audit, answers, stray>>

\* The last attempt fails, having deleted the document or not.
CleanupFails(c) ==
    /\ req[c].phase = "cleanup"
    /\ ~SkipsCleanup(req[c])
    /\ req[c].failed + 1 = DeleteAttempts
    /\ \/ UNCHANGED objects
       \/ objects' = objects \ {req[c].location}
    /\ stray' = stray \cup (objects' \cap {req[c].location})
    /\ Return(c)
    /\ UNCHANGED <<tables, idempotency, pointed, minted, audit, answers, misreported>>

-----------------------------------------------------------------------------
(* create_table_in_warehouse and register_table_in_warehouse.               *)

\* createTable with a schema: the catalog generates the first document.
BeginCreate(c, t, stage) ==
    /\ req[c] = Idle
    /\ "create" \in build.operations
    /\ \E l \in Fresh :
          /\ req' = [req EXCEPT ![c] =
                       [New("create", t, "write", l) EXCEPT !.stage = stage]]
          /\ minted' = minted \cup {l}
    /\ UNCHANGED <<tables, idempotency, pointed, objects, audit, answers, stray, misreported>>

\* createTable with a document in the request: its location is taken as it
\* is, nothing is read or written.
BeginAdopt(c, t, l, stage) ==
    /\ req[c] = Idle
    /\ "adopt" \in build.operations
    /\ l \in Known \cup {NoLocation}
    /\ req' = [req EXCEPT ![c] = [New("adopt", t, "admit", l) EXCEPT !.stage = stage]]
    /\ UNCHANGED <<tables, idempotency, pointed, objects, minted, audit, answers, stray, misreported>>

BeginRegister(c, t, l) ==
    /\ req[c] = Idle
    /\ "register" \in build.operations
    /\ l \in Known
    /\ req' = [req EXCEPT ![c] = New("register", t, "read", l)]
    /\ UNCHANGED <<tables, idempotency, pointed, objects, minted, audit, answers, stray, misreported>>

\* read_metadata_object: registerTable needs the document to be there.
ReadObject(c) ==
    /\ req[c].phase = "read"
    /\ IF req[c].location \in objects THEN Goto(c, "admit") ELSE Return(c)
    /\ UNCHANGED <<tables, idempotency, pointed, objects, minted, audit, answers, stray, misreported>>

\* store.create_table accepts: the name was free.
CreateRow(r) ==
    /\ r.phase = "admit"
    /\ tables[r.table] = Absent
    /\ tables' = [tables EXCEPT ![r.table] =
                    [version |-> 0, location |-> r.location, staged |-> r.stage]]
    /\ pointed' = pointed \cup ({r.location} \ {NoLocation})

Admit(c) ==
    /\ CreateRow(req[c])
    /\ Goto(c, "audit")
    /\ UNCHANGED <<idempotency, objects, minted, audit, answers, stray, misreported>>

\* As CasUnanswered, for create_table.
AdmitUnanswered(c) ==
    /\ build.checksVersion
    /\ CreateRow(req[c])
    /\ Misreport(c)
    /\ UNCHANGED <<idempotency, objects, minted, audit, answers, stray>>

\* The name is taken, or the store fails.
AdmitFails(c) ==
    /\ req[c].phase = "admit"
    /\ IF req[c].wrote THEN Goto(c, "cleanup") ELSE Return(c)
    /\ UNCHANGED <<tables, idempotency, pointed, objects, minted, audit, answers, stray, misreported>>

\* record_audit_event, a transaction of its own after the table is there.
RecordAudit(c) ==
    /\ req[c].phase = "audit"
    /\ audit' = audit \cup {req[c].table}
    /\ Return(c)
    /\ UNCHANGED <<tables, idempotency, pointed, objects, minted, answers, stray, misreported>>

\* The connection goes away or the process dies: the handler stops where it
\* is.  What it wrote stays.
Crash(c) ==
    /\ req[c] # Idle
    /\ stray' = IF req[c].wrote /\ req[c].phase # "audit"
                THEN stray \cup {req[c].location} ELSE stray
    /\ Return(c)
    /\ UNCHANGED <<tables, idempotency, pointed, objects, minted, audit, answers, misreported>>

-----------------------------------------------------------------------------
Next ==
    /\ UNCHANGED build
    /\ \E c \in Handlers :
          \/ \E t \in Tables, key \in Keys \cup {NoKey}, content \in build.contents :
                BeginCommit(c, t, key, content)
          \/ CheckReplay(c) \/ LoadAndPlan(c) \/ LoadRefused(c)
          \/ WriteObject(c) \/ WriteFails(c)
          \/ CasSucceeds(c) \/ CasUnanswered(c) \/ CasReplays(c) \/ CasFails(c)
          \/ Cleanup(c) \/ DeleteRetried(c) \/ CleanupFails(c)
          \/ \E t \in Tables, stage \in BOOLEAN : BeginCreate(c, t, stage)
          \/ \E t \in Tables, l \in Locations \cup {NoLocation}, stage \in BOOLEAN :
                BeginAdopt(c, t, l, stage)
          \/ \E t \in Tables, l \in Locations : BeginRegister(c, t, l)
          \/ ReadObject(c) \/ RecordAudit(c)
          \/ Admit(c) \/ AdmitUnanswered(c) \/ AdmitFails(c)
          \/ Crash(c)

Spec == Init /\ [][Next]_vars

-----------------------------------------------------------------------------
(* Properties.                                                              *)

\* Nobody adopts or registers a document that the catalog did not write.
CatalogOwned == build.operations \subseteq {"create", "commit"}

\* A table never points at nothing: where all documents are the catalog's
\* own, the document of a table's pointer is in the object store, whatever
\* requests lose races, clean up or die.  There are two ways to lose it, both
\* by a call that takes effect and is answered with an error: the COMMIT that
\* made it the pointer, so that the handler deletes it; and a delete of an
\* earlier document at the same location of the client's choice, so that the
\* retry deletes the new one.
PointerObjectExists ==
    CatalogOwned =>
       \A t \in Tables :
          tables[t] # Absent => tables[t].location \in objects \cup misreported

\* The same without the two ways, which the code does not rule out.
PointerObjectAlwaysExists ==
    CatalogOwned =>
       \A t \in Tables : tables[t] # Absent => tables[t].location \in objects

\* Whoever repeats a keyed request, concurrently or after a lost answer,
\* gets the answer of the one commit that it made.
OneAnswerPerKey ==
    \A a, b \in answers :
       a.table = b.table /\ a.key = b.key => a = b

\* No lost update: over a store that compares versions a pointer moves only
\* by a commit that was planned from the very row it replaces.
NoLostUpdate ==
    [][\A t \in Tables :
          build.checksVersion /\ tables[t] # Absent /\ tables'[t] # tables[t] =>
             \E c \in Handlers : /\ req[c].phase = "cas" /\ req[c].table = t
                                 /\ req[c].loaded = tables[t]]_vars

\* A staged table is created once: of all the commits that assert its
\* creation only the first that reaches the store is accepted, even when
\* several were planned while it was staged.
CreatedOnce ==
    [][\A c \in Handlers :
          req[c] # Idle /\ req'[c] # req[c] /\ req[c].op = "commit" =>
             LET t == req[c].table
             IN  tables'[t] # tables[t] /\ req[c].content.create => tables[t].staged]_vars

\* Every document is accounted for: some pointer has held it, a request is
\* about to make it one or to delete it, or it is one of the documents left
\* behind by a crash, by failed calls of the object store, or by a
\* concurrent duplicate that the store answered from the key's record.
NoUnexplainedObjects ==
    \A l \in objects :
       \/ l \in pointed \cup stray
       \/ \E c \in Handlers : req[c] # Idle /\ req[c].wrote /\ req[c].location = l
=============================================================================
