# LakeCat: a TLA+ verification of the catalog core

LakeCat is an Iceberg REST catalog: it keeps, for every table, a pointer to an
immutable metadata document, moves that pointer by compare-and-swap, plans scans
under read restrictions, and records every admitted operation as an audit row
and an outbox event that is later projected to a graph and a lineage sink. This
directory models that core, checks it with TLC on small instances and proves
its central properties with TLAPS for every value of the constants.

Source paths below are relative to `src/crates/`.

## 1. Inventory

| Component | Source | State it keeps | Operations | What makes it correct |
|---|---|---|---|---|
| Memory store | `lakecat-store/src/memory.rs` | one struct behind one `RwLock`: namespaces, tables, soft deletes, commit log, idempotency records, views, receipts, bindings, outbox | every `CatalogStore` method, one lock scope each | a pointer's log tells its whole story; a replay answers with what really happened; hidden tables can be restored |
| Turso store | `lakecat-store/src/turso_store/mod.rs` | the same as rows of an MVCC database | the same, each a body of `write_txn` (snapshot, staged writes, COMMIT, retry) | the same, under every interleaving of transactions |
| Records and keys | `lakecat-store/src/records.rs`, `helpers.rs`, `lakecat-core/src/lib.rs` | none | constructors, validators, key derivation | keys identify one object |
| Commit, create, register | `lakecat-service/src/commit.rs`, `handlers.rs`, `table_registration.rs`, `location.rs` | the object store's documents, shared with nobody's transaction | replay, load, plan, write, swap, clean up; read, admit, audit | a pointer names a document; no lost update; one answer per key |
| Planning engines | `lakecat-sail/src/sail_integration/mod.rs`, `lakecat-core/src/sail.rs` | none | `prepare_commit` | a plan's document is written before the swap |
| Sail scans and catalog provider | `sail_integration/mod.rs`, `catalog_provider/mod.rs` | plan tokens held by clients | plan, validate and expand a token, incremental scan, prune | a scan reads exactly what its snapshot holds, with the deletes that apply |
| Governed scans and grants | `lakecat-service/src/governed_scan.rs`, `scan.rs`, `governed_scan.rs` of core and store | durable grants | plan, save the grant, fetch, revalidate | a read stays in the restriction it was authorized under; a proof has its grant; a confirmed proof is current |
| Outbox drain | `lakecat-service/src/outbox.rs` | `delivered_at` of the outbox rows | fetch a batch, project each, acknowledge | at-least-once to both sinks, in order per table, unless the validator refuses an event |
| Evidence validation | `lakecat-service/src/evidence/*.rs` | none | validate and summarize an event before it is projected | what a handler records can be replayed |
| Views and receipts | `records.rs`, both stores, `handlers.rs` | view rows and hash-linked receipts | upsert and drop, optionally with an expected version | receipts form one chain per view that explains the view |
| Management hierarchy, storage profiles | both stores, `handlers.rs` | servers, projects, warehouses, profiles, bindings | upserts with parent checks, choice of the profile of a location | a child has its parent; one profile governs a location |
| Model publications | both stores | publications per model | `publish_model` | versions form a chain that is never rewritten |
| Credentials, authorization, identity | `lakecat-security`, `typesec_credential_issuer.rs`, `identity.rs` | none | decide, vend, verify | request-local |
| Projections | `lakecat-graph`, `lakecat-lineage` | external sinks | `emit` | idempotent per event |
| Exports and offline verification | `lakecat-querygraph`, `qglake-bundle`, `lakecat-cli` | none | build and check JSON documents | shape checks |
| Key migration | `turso_store/mod.rs` 3235-3501 | schema marker | one rewrite at startup | runs once |

How they interact: an HTTP handler awaits the store, the object store, the
governance engine and the catalog provider, which share no transaction; the
stores write state, audit row and outbox row together, but several handlers
record their event in a second transaction; the drain reads the outbox,
validates each event and calls the sinks. Handlers of different requests
interleave at every await and may be dropped at any of them. The hard parts are
therefore: write skew between transactions that read each other's rows, rows
that are stale after an await, cleanup racing somebody else's use of a document,
repeated keyed requests, policies that change between planning and fetching,
overlapping drains, events the drain refuses for good, and identities that are
not injective. `PROJECT.json` lists each hazard at its line.

## 2. Modules

| Module | Models | Notes |
|---|---|---|
| `CatalogBase` | identities, rows, derived keys | shared vocabulary; one warehouse |
| `TablePointer` | abstract: what a store promises about pointers and histories | `Create`, `Advance`, `Move`, `Retire` |
| `MemoryCatalog` | the memory store | one atomic action per method, as the lock makes it |
| `TursoCatalog` | the Turso store | `Submit -> Begin -> Commit / Refuse / Rollback / GiveUp / Cancel` |
| `CommitService` | the three handlers over a linearizable store and an object store | one action per await |
| `GovernedScan` | planning, grants, fetching, revalidation | one action per await; table, policies and authority change in between |
| `SailScan` | Sail's scan planning over a history of snapshots | pruning as operators against the rows a file really holds |
| `OutboxDrain` | appending and draining the outbox | two sinks, overlapping drains, outages, events that are refused for good |
| `EvidenceRules` | what the drain accepts of each event type | operators only |
| `OutboxEvidence` | what every handler and store method records, and one drain | composes the producers with `EvidenceRules` |
| `ViewVersions` | views, receipts, chain validation | transactions conflicting on the view's row |
| `ManagementCatalog` | servers, projects, warehouses, profiles, policies, publications | transactions over a function from keys to rows |
| `*Proofs` | theorems of the module they extend | see section 5 |
| `MC*` | constants for TLC | definitions for constants only |

Both stores are shown to implement `TablePointer` (`ImplementsTablePointer`).
`CommitService` and `GovernedScan` use the store as an atomic compare-and-swap
and atomic reads, which is what the store modules establish.

### Correspondence with the code

*State.* `TableRecord` is reduced to version and metadata location;
`TableCommitRecord` to its two locations, sequence number, key and request;
documents to the locations that hold one. A digest stands for what it is
computed from (hashes do not collide). `stable_id` keeps its defect: it joins
namespace components with dots (`PathOf`), so two namespaces may share it.

*Memory store.* A call that returns an error changes nothing and is a stuttering
step; the guard of an action is the conjunction of the code's early returns. The
`outbox` variable holds the lifecycle events recorded with a transition. In both
stores `named` is a history variable: how long a table's log was when the table
came to its present name. A rename takes the log along and retires the
idempotency records of the old name, so what a key stands for begins there.

*Turso store.* The database is a function from row keys to rows. For each
operation there is `...Admits` (does the body, reading the snapshot, reach its
writes) and `...Writes` (the rows it stages). `Commit` succeeds if none of the
staged rows was committed by somebody else since the snapshot; `dirty` collects
those. Conflict detection itself belongs to the database and is marked external.
A set of staged rows is a function, put together from single rows (`Put`) with
`++`, which is union where the domains are disjoint; `RowsOf` are the rows that
belong to a set of tables, deleted when their namespace is dropped.
Audit and outbox inserts have fresh keys and never conflict, so they are the
transaction's `Events`. `drop_namespace` looks its namespace up before its
transaction, as the code does. A *workload* is the set of calls that clients
submit in one behaviour, chosen in `Init`: one run then covers several mixes of
operations without paying for their product.

*Handlers.* A phase is the await the handler is at. `stray`, `answers` and
`misreported` are history variables: documents left behind for a known reason,
the successful responses to keyed commits, and the locations where a call took
effect and was answered with an error in a way that can cost a pointer its
document. Every attempt of the cleanup's delete loop is a step: it deletes and
is done (`Cleanup`), fails, deleting or not, and is tried again
(`DeleteRetried`), or is the last one (`CleanupFails`); `failed` counts. A put
may leave its document and report an error (`WriteFails`), and a COMMIT of the
Turso store may be durable and report one (`CasUnanswered`, `AdmitUnanswered`).
A *deployment*, chosen in `Init`, fixes the planning
engine and whether the store compares the version of the snapshot (Turso) or,
as the trait's default method does, the pointer only (memory).

*Governed scans.* Every await is a step: read the policies, ask the engine,
load the table, plan (the catalog provider loads the table a second time, so
the plan may come from a newer document than the row), save the grant, record
the event. A projection is the set of its columns and a conjunction of row
predicates the set of its conjuncts; the filters of the request, which only
narrow the scan further, and the comparison of catalog identities are left out.
`life`, which tells one incarnation of a table from the next, and `calm`, which
is false once something changed during a revalidation, are history variables:
the code cannot tell a table from one re-registered at version 0 with the same
document, and `RevalidatedIsCurrent` says so.

*Sail scans.* A snapshot lists manifests; a manifest lists entries, each with
its status, sequence number and snapshot. Writers append, merge manifests,
delete, roll back and expire. A file has contents (byte strings or null) and a
choice of which metrics were written. The recursion over filters is a recursive
function with one unfolding as its body (`MayMatchStep`); what a filter means for
a row is defined the same way, with SQL's three truth values (`Meaning`), and
looks at no metrics. `Depth` numbers the filters so that those inside a filter
have a smaller number: a filter is a finite tree, as every parsed JSON document
is. The walk along the parents (`incremental_snapshot_chain`) is given by its
result: `Chains` holds the one set of snapshots it collects, or nothing where it
leaves the metadata. The ancestors of a snapshot (`Lineage`), which only the
properties use, are what all sets closed under parents have in common. The index
that pairs delete files with data files belongs to Sail and is marked external.

*Evidence.* An event is a function from field names to values, built field by
field as the handler builds its JSON; a rule is a predicate over that function.
JSON kinds and the syntax of digests and URIs, which every producer fixes, are
left out. `facts` is a history field that records what the catalog was like, so
that `Replayable` can say which events go through without looking at what was
written.

*Drain.* `Refused` are the events that `validate_outbox_event_evidence` refuses;
which ones they are is the matter of `OutboxEvidence`. A drain that comes to one
ends with an error and acknowledges nothing of its batch (`Refuse`), now and on
every later call. Events are numbered by `(created_at, event_id)`. The guard of `Append`
states the order that snapshot isolation gives to transactions writing one
catalog row; other events appear in any order.

*Views.* A receipt's hash is named by its place in the chain. The body reads the
clock between snapshot and commit. The clock is monotone. `sort_by` is stable,
so a receipt goes to the place given by the number of receipts that it does not
precede (`Rank`), and `Sorted` is the chain in that order.

*Management.* A call is a key with the row to store. An upsert's event is
recorded in a transaction of its own (`RecordAuditEvent`), which may be lost
(`LoseEvent`); a publication's event is in the publication's transaction. Its
`expected_current_version` is absent or any number, 0 included.
Storage profiles are numbered in the order the store lists them, and a prefix is
a path with or without a trailing slash, as in `storage_profile_match`, whose
loop is a recursive function with `Better` as its body.

## 3. Runs

| Run | Checks | Distinct states |
|---|---|---|
| `memory_catalog` | replays are history, no two commits of a log share a key, evidence, hidden tables restorable, no table without namespace, refinement; views and bindings in the way | 274 thousand |
| `turso_tables` | no lost update, stable answers, replays of the table's present life, refinement; three workloads | 409 thousand |
| `turso_namespaces` | no properties row survives its namespace, every call returns; two workloads | 179 thousand |
| `commit_service` | pointers have documents but for misreported calls, no lost update, a staged table is created once, one answer per key, every document explained; two deployments | 3.6 million |
| `governed_scan` | fetches stay in their restriction, proofs have grants, revalidated proofs are current | 2.8 million |
| `sail_scan` | snapshot and incremental scans that expand manifest lists are complete, tokens stay valid, pruning is sound | 3.4 million |
| `outbox_drain` | projected before acknowledged, order, no double report, every event delivered unless refused ones block every batch | 39 thousand |
| `outbox_evidence` | the refused events are exactly a known list, nothing is emitted that cannot be acknowledged, acknowledged events are projected, only refusals block | 67 thousand |
| `view_versions` | valid chains that explain the views, guarded calls see no change | 107 thousand |
| `management_catalog` | parents exist, publications form a final chain, one profile governs a location, rows are evidenced | 201 thousand |

*Bounds.* Two callers are enough for every conflict here: a conflict is between
one transaction and what was committed since its snapshot, and one other caller
can commit all of that, one call after another. Two commits per table
(`MaxVersion`) make a table's pointer return to an earlier location, which is
what tells version checks from pointer checks. Two names give a rename its
destination; in `memory_catalog` a nested namespace gives a drop its child. Four
events and a batch of two make backlogs longer than the batch; one of the four is
refused, so that it may be alone in a batch, share one or stand behind one, and
the first and the last are of one catalog row. Four receipts
allow upsert, drop, re-create and update. `MaxAttempts` is 8 in the code; 1 or 2
here, since an attempt differs from the next only by its number. For the same
reason `DeleteAttempts` is 3 in the code and 2 here: one attempt that is tried
again is what a rival needs. `MaxEvents`
bounds the events of the memory store, `MaxOutages` the failures of the sinks.
In `governed_scan`, two calls (`MaxCalls`) and three changes around them let a
task be planned, the policy, the table or the authority change, and the task be
fetched or the proof be revalidated; two lives of the table let it be dropped
and registered again. In `sail_scan` three snapshots (`MaxSnapshots`) are an
append, a merge or delete after it, and a range between them; contents of at
most two strings with every choice of metrics exercise every branch of pruning.
In `outbox_evidence` an event depends on the catalog and one request, so two
events and two policies are a catalog change followed by any operation. In
`management_catalog` three calls are a server, a project and a warehouse, or two
racing publishers after a policy.

*Deadlock* is not checked: the bounds stop every model, and the system may
rest whenever nobody calls.

*Fairness.* For `EveryCallReturns`, `turso_namespaces` assumes that the runtime
keeps polling a call that has entered `write_txn` (weak fairness of its steps;
nobody has to call). For `EveryEventDelivered` and `OnlyRefusalsBlock`, the drain
runs assume that somebody keeps calling the drain route, that the runtime polls
the request, and that sinks fail only finitely often. No fairness removes a
refused event, so `EveryEventDelivered` allows one way not to be delivered: from
some point on every batch of the oldest pending events holds a refused one. The
code has no drain loop of its own, so these are statements about deployments that
poll.

### Runs that end in a violation

| Run | What happens |
|---|---|
| `turso_hidden_stale` | commit and soft delete of one table both succeed; the hidden table matches its record no longer and can be neither restored nor retired |
| `evidence_replay` | a handler records an event that the drain refuses, now and on every retry |

`outbox_evidence` shows that the refused events are exactly these (`Replayable`):

* `table.listed`, which `is_known_outbox_event_type` does not know, and
  `table.restored`, whose payload has a field the rules do not allow;
* events of a table without a metadata location;
* `table.scan-planned` without a projection or without statistics fields, with a
  purpose and a verified identity (the governed proof is a field the rules do
  not allow), and, when policies are bound, unless they are distinct, name a
  purpose and a lifetime and carry exactly one row predicate;
  `table.scan-tasks-fetched` likewise, and only with allowed columns;
* `credentials.vend-attempted` for the inferred storage profile, or under
  policies like those above, or when credentials were issued under policies that
  restrict neither columns nor rows;
* `namespace.listed` when two namespaces have one dotted path;
* `view.listed` recorded by the management route;
* `view.version-receipt-chains-listed` when two receipts carry one time stamp.

### Further configurations

Four more configurations can be run by hand; TLC reports a violation for each.
The first three are disagreements with the repository's documentation, the last
is a limit of the code that its documentation does not speak of.

| Configuration | What happens |
|---|---|
| `MCTursoStranded.cfg` (`MCTursoCatalog`) | create in a namespace and drop of it both succeed and strand the table (`docs/ICEBERG-TABLES.md:146-147`) |
| `MCCommitLocationOnly.cfg` (`MCCommitService`) | with Sail, a commit that only names a location moves the pointer to a document that nobody wrote (`docs/ICEBERG-TABLES.md:102-103`) |
| `MCSailMissingMetrics.cfg` (`MCSailScan`) | `is-null` drops a file whose null counts are missing, although missing metrics are said to keep the file (`README.md:76-79`) |
| `MCCommitDangling.cfg` (`MCCommitService`) | `PointerObjectAlwaysExists`: a COMMIT takes effect and is answered with an error, and the handler deletes the document of the new pointer |

The trace of `MCCommitDangling.cfg` is the shortest of two kinds. In the other, a
delete of the cleanup takes effect and reports an error; during the wait for the
next attempt another commit puts its document at the same location, which a
client named, and becomes the pointer, and the next attempt deletes that
document. `PointerObjectExists` says that there is no third kind: locations
generated by the server are safe from the second, because only one request ever
knows one.

`turso_hidden_stale` and `MCTursoStranded.cfg` have one cause: the two
transactions read each other's rows and write none in common, so
first-committer-wins does not order them. The memory store, where a lock orders
everything, is proved to keep the same properties.

Four more properties that a reader may expect do not hold of the code, and no
run checks them:

* a soft-delete row always has its table: in the Turso store a rename racing a
  soft deletion leaves one without, the same write skew as above;
* every table has its `table.created` event: `create_table` and
  `record_audit_event` are two transactions, and a crash may come between them;
* `PointerObjectExists` with registrations: a registration reads a document and
  admits the table later, and a losing commit at that location deletes the
  document in between;
* idempotency keys and receipt chains belong to one table or view: they are keyed
  by `stable_id`, which namespaces `["a.b"]` and `["a","b"]` share.

## 4. What is model-checked only

* *Liveness* (`EveryCallReturns`, `EveryEventDelivered`, `OnlyRefusalsBlock`):
  fairness is out of the prover's reach.
* *`OutboxEvidence`* (`RefusalsAreKnown`, `EmittedIsAcknowledgeable`,
  `DeliveredIsProjected`): a case analysis over some thirty event types whose
  fields are put together with `:>` and `@@`; each of the three needs it, since
  what the drain emits and summarizes is decided by the fields an event has. The
  provers have nothing to add to it: each event depends on the catalog and one
  request, so that TLC goes through all the cases there are.
* *The properties that fail*: the runs and configurations of section 3 that end
  in a violation.

Every other property of the runs is a theorem of section 5.

Some invariants are in the modules without being in a run: the type invariants
`TursoCatalog!KeyCommitsOnce` and `TursoCatalog!CommitsEvidenced`, the Turso
counterparts of `KeyCommitsOnce` and, for commits, of `LifecycleEvidenced`. They
are proved; adding one of them to a
configuration of its module checks it as well.

## 5. Proofs

No bounds on the sizes of the constants: the theorems hold for any number of
callers, rows, views, keys and attempts. The assumptions used are the named
`ASSUME`s of the modules, which TLC evaluates in every run. They say that the
bounds are numbers and that the sentinels are none of the values they stand in
for (`AbsentAssumption` of `CatalogBase`: `Absent` is no row, commit record,
replay or scope; of `CommitService`: no row and no replay), that a storage prefix
is a path with a flag (`PrefixAssumption`), and that namespaces are not their own
descendants. Of scans they say that rows are byte strings or null, that a file
has finitely many, and that a filter is a finite tree of the known types
(`LayoutAssumption`, `FilterAssumption`). The governed-scan theorems use none.

Each proof has the same layout: the inductive invariant as a conjunction of
named parts, lemmas about the operators, one lemma per action, `Init` and step
lemmas, and the theorems as consequences. State that a lemma is about is passed
as a parameter (`CallOK(x, d, w)`, `RequestOK(r, T, P, B)`), so that the same
lemma speaks of the state before and after a step. TLC checked each invariant on
the run's instance before it was proved.

### The contract and the two stores

* **`MemoryCatalogProofs!HistoryTheorem`** - the contract itself: in every
  behaviour of `TablePointer` a table's history is the whole story of its pointer.
  The inductive invariant adds types to `HistoryMatchesPointer`: `Advance` appends
  at position `version + 1` only because `Len(h) = version`. The theorem is stated
  of the instance `Pointers` over the two variables of the memory store.
* **`MemoryCatalogProofs`** - `TypeCorrect`: one lemma per row constructor, one
  case per action. `HiddenTablesIntact`, `NoStrandedTable`: the two lifecycle
  invariants that fail for the Turso store; both are inductive given types,
  because a commit or a rename needs a visible table and a drop retires exactly
  the hidden ones. `Refinement`: every action maps to a `TablePointer` step or a
  stutter, and `LogTellsPointer` transfers `HistoryTheorem` along it.
  `RepliesAreHistory` needs the strengthening `ReplayInv`, which ties each record
  to its log entry. `KeysCommitOnce` needs the other direction (`KeysFiled`):
  every log entry with a key, since the table came to its present name, has the
  key's record, which names the entry's version; so a commit whose key has no
  record appends a key that is not in the log, and two entries with one key would
  be one record with two versions.
  `EveryTransitionEvidenced` needs the length of the log, from `LogTellsPointer`:
  the event of a commit carries the version, and it is the event of the row that
  the commit appends only because the two are equal.
* **`TursoCatalogProofs`** - the whole safety list of the module but the two
  properties that fail. The inductive invariant `IInv` has two parts. `Sound`
  says of the database *and of every snapshot* that rows have their types, that
  properties rows and namespace rows come together, that the log of a table has
  one row for each version it went through, and that a key's record is filed in
  its table's log. `CallOK` says what a running transaction may rely on: its
  snapshot is sound, it agrees with the database in every row that is not dirty
  (`Sees`), and it contains every key record of a table whose row is not dirty
  (`KeysSeen`). The last part is what no row-by-row argument gives: a key's
  record that somebody else inserted is no row that this transaction has read,
  but whoever files it writes the table's row as well. One lemma per operation
  says what its writes make of a sound database that the snapshot may be older
  than (`Body`, `Effect`); the theorems follow from these effects:
  `SnapshotsAreCurrent`, `TypeCorrect`, `PropertiesGoWithNamespaces`,
  `NoUpdateIsLost`, `AnswersStayTheSame`, `RepliesAreHistory`,
  `EveryCommitEvidenced`, `KeysCommitOnce` (with `EntriesFiled`, which says of the
  database what `KeysFiled` says of the memory store), and `Refinement`: a COMMIT is one step of
  `TablePointer`, or changes neither pointers nor logs, whatever interleaves,
  rolls back, retries or is cancelled. `LogTellsPointer` is inherited through it:
  the steps of the contract keep pointers and logs together (`Stories`), here as
  lemmas about any two functions, since the store's rows are no variables.

### The handlers

* **`CommitServiceProofs`** - `IInv` records what a request holds in each phase
  (`PhaseOK`) and that the row it loaded is either the present one or has an
  older version (`LoadedOK`); from that follow `TypeCorrect` and
  `NoUpdateIsLost`, which speaks of stores that compare versions.
  `KeysHaveOneAnswer`: an answer is what its key's record says
  (`AnswersOK`), and a record is written once. `DocumentsAreExplained` follows a
  document from the request that wrote it to the pointer, the cleanup or the
  reason it was left behind. Two theorems have a hypothesis about the deployment,
  and each hypothesis marks a real limit of the code.
  `StagedTablesAreCreatedOnce` is about Sail over a store that compares versions
  (`SailOverVersions`): the deferred engine checks no requirement at all, and the
  pointer alone does not tell a staged table from one that came back to the same
  location. `PointersHaveDocuments` is about deployments in which no commit names
  a location that nobody wrote (`NoBareLocation`); `MCCommitLocationOnly.cfg` shows
  what happens otherwise. Its invariant `OwnInv` is ownership: but for misreported
  calls, the document that a request may still delete was never a pointer, and no
  two requests hold the same one, since `PutMode::Create` gives it to one of them.
  A delete that is tried again needs more, because its document may be gone and
  the location free: `NameInv` says that a location which the server generated
  and no pointer has held is known to one request only, so that nobody can have
  put another document there.
* **`GovernedScanProofs`** - `FetchesAreRestricted` and `GrantsBackProofs`. The
  invariant `IInv` records what a request has established by each await: a plan
  about to be saved or recorded is within its own restriction, a grant about to be
  recorded is in the store with the same request and restriction, and a plan has
  no grant before it is saved. Nothing else is needed of the table, the policies
  or the authority, which is why the theorems hold however they change.
  `RevalidationIsCurrent` does need them: its invariant `RInv` says that a grant
  knows a life and a version that the table had, so that a table found in the same
  life and version still has the metadata the plan was made from, although the
  provider read it after the handler did; and that a revalidation during which
  nothing changed still sees the table and the restriction it has read.
* **`OutboxDrainProofs`** - `AcknowledgedWasProjected`: the invariant `IInv` adds
  to the property the progress of every drain: what it has behind it is in both
  sinks, and the event it has emitted is in the graph. `ReportsAreUnique`: a
  reported event is acknowledged, so no later batch with it is acknowledged in
  full. `SinksSeeCommitOrder`: a batch is complete (`Complete`), that is, an earlier
  event of the same catalog row is in it or was acknowledged before the batch was
  read, and a drain is always at the least event it has left, which exists by
  well-foundedness; so the first emission of an event finds the earlier ones in
  the sink.

### Scans

* **`SailScanProofs`** - all four properties of the module, in two parts.

  *Pruning.* `PruningTheorem`: a filter that is true of a row never prunes the
  row's file, if the file's null counts are present. Two recursive functions are
  compared, and nothing is known of a recursive definition before it is shown to
  have a solution: `Solvable` shows it for every definition that looks only at the
  filters inside a filter, by the least depth at which there would be none. The
  comparison is a least counterexample too: a filter that is true of the row and
  prunes the file is an `and` or an `or` with such a filter inside it, or one of
  the literals. For those, byte strings are shown to be linearly ordered
  (`FirstDifference`, `AtMostIsAnOrder`), so that the bounds of a finite file
  exist and enclose its values, and every string with a prefix lies before
  `NextPrefix` (`NextPrefixIsAbove`), which takes care of prefixes that end in the
  greatest byte. `not` needs no argument, because the code keeps the file.

  *Scans.* The properties compare what a reader got with what writers did, and
  between the two are manifests that were merged, rewritten and carried along. So
  the inductive invariant `IInv` says, of every snapshot ever written and not only
  of the current one, what its manifests hold: exactly the data files that it and
  its ancestors added and did not remove, each once and with the sequence number
  of the snapshot that added it, and their delete files (`ManifestsTell`); that a
  file is added once and before anything else is done with it (`FilesAreAdded`);
  and that the manifests a snapshot added hold the file it appended, and nothing
  else unless it merged (`AddedManifests`). Of the reader it says that the list
  token of a snapshot is still held or the snapshot's tasks have been got
  (`FullScanTells`, `IncrementalScanTells`); these speak of snapshots that are
  never changed, which is why the scan may be read however far the table has
  moved on. `Follows` says what a writer's next snapshot must be like to keep the
  invariant, and one lemma per writer shows that it is. `ChainIsSpan` shows that
  the walk along the parents collects what `Lineage(end) \ Lineage(start)` says.
  `TokensStayValidAlways`, `SnapshotScanIsCompleteAlways` and
  `IncrementalScanIsCompleteAlways` follow; the last needs that all snapshots
  after start are appends, so that no file of one of them is removed before the
  end.

### Views and management

* **`ViewVersionsProofs`** - `TypeCorrect`, `ReceiptsExplainViews`,
  `ChainsAreValid`, `GuardedCallsAreExact`. What holds the argument together is
  an order that is stronger than the one the code sorts by: a later receipt has a
  higher version, or drops the version that the earlier one upserted, no earlier
  than it (`Before`). In a chain in that order (`InOrder`) every receipt is
  already where the sort puts it (`RankIsPlace`, by counting), so the chain that
  is validated, and its greatest receipt, are the chain as it was committed. The
  invariant says that each chain, and each snapshot of one, is in order, that the
  row is what the last receipt leaves, and that a guarded call has seen the upsert
  of the version it expects; as that version has one upsert, a call that finds it
  current finds the very state its client read. `ChainsAreValid` assumes
  that no two views share a dotted identity (`DistinctIds`), which the code does
  not ensure.
* **`ManagementCatalogProofs`** - `ChildrenHaveParents`, `PublicationsStay`,
  `ChainIsUnbroken`, `EvidenceIsExplained`. The inductive invariant says of
  every running transaction that a row present in its snapshot is still present,
  and that a row of its snapshot is current unless somebody overwrote it: parents
  read in a snapshot cannot vanish, and a publisher that commits without a
  conflict wrote over nothing. That the version after the current one leaves no
  gap needs the greatest version of a snapshot, which the lemma
  `CurrentIsGreatest` finds by well-foundedness. `CredentialsUseLongestMatch` is
  about a loop. The library's induction rules are out of the provers' reach, but a
  least counterexample is not: there is a function that runs the loop
  (`LoopExists`), and no first turn after which the best profile so far is wrong
  (`MatchFinds`). That an error means two profiles with *one prefix*, and not
  only two of one length, is `SameLengthSamePrefix`: two prefixes of one location
  are equal when their lengths are.

## 6. Not modelled

* The command line's verifiers (`lakecat-cli/src/verify_*.rs`, `replay_evidence.rs`)
  and the QueryGraph export: sequential field-by-field checks and construction of
  one JSON document, without state.
* The parsing of identity headers and envelopes, authorization decisions and the
  credential issuer: request-local, or other services' code. What they leave in
  events is in `OutboxEvidence`.
* The key migration (`turso_store/mod.rs` 3235-3501): its matter is the parsing
  and re-encoding of key strings; its concurrency is one marker check (listed as
  a hazard).
* Connection pools, read retries, configuration defaults, object-store path
  syntax, Arrow schema conversion.

## 7. Plan

Done, in this order: `CatalogBase`, `TablePointer`, `MemoryCatalog`,
`TursoCatalog`, `CommitService`, `OutboxDrain`, `ViewVersions`, `GovernedScan`,
`ManagementCatalog`, `SailScan`, `EvidenceRules` with `OutboxEvidence`; proofs of
every safety property of every module but the last two.

What would come next:

1. A finer `SailScan`: partition specs, which decide the deletes that apply, and
   bounds that a writer truncates.
2. `KeyMigration`: startup rewriting with crashes and two processes.
