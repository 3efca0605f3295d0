---------------------------- MODULE OutboxEvidence ----------------------------
(***************************************************************************)
(* What the handlers of lakecat-service and the stores write to the outbox, *)
(* and whether the drain can replay it.  Every operation of the catalog     *)
(* records one event; the drain validates an event (EvidenceRules),         *)
(* projects it to the graph and the lineage sinks and acknowledges a batch  *)
(* only when every event of it went through, so one event that is refused   *)
(* for good blocks every batch it is in.                                    *)
(*                                                                          *)
(* The catalog is one table, the policies bound to it, its storage profile, *)
(* the namespaces and the receipts of one view.  Each event carries in      *)
(* "facts" what the catalog was like when it was recorded; the code has no   *)
(* such field, it is there for the properties.  Delivery, retries and        *)
(* concurrent drains are the subject of OutboxDrain; here the drain is one   *)
(* process and the sinks do not fail.                                        *)
(***************************************************************************)
EXTENDS EvidenceRules, TLC, SequencesExt

CONSTANTS Policies,      \* ODRL policies: [columns, predicate, purpose, ttl]
          Namespaces,    \* namespaces, as sequences of their parts
          Requests,      \* scan requests: [projection, stats], lists of columns
          MaxEvents,     \* bound: events recorded in a behaviour
          MaxPolicies,   \* bound: policies bound to the table
          BatchLimit     \* events of one drain

VARIABLES table,        \* the table, or NoTable
          bound,        \* the policies bound to the table
          profile,      \* the storage profile that matches the table
          namespaces,   \* the namespaces that exist
          receipts,     \* the version receipts of the view, oldest first
          clock,        \* the store's clock, for the receipts
          pending,      \* the outbox, in the order of creation
          delivered,    \* events acknowledged
          projected     \* <<event, sink>> emitted by the drain

vars == <<table, bound, profile, namespaces, receipts, clock,
          pending, delivered, projected>>

catalog == <<table, bound, profile, namespaces, receipts, clock>>

NoTable == [name |-> Null]
Warehouse == "wh"
Human == [subject |-> "human", kind |-> "human"]
Agent == [subject |-> "agent", kind |-> "agent"]

IdentOf(name) ==
    "warehouse" :> Warehouse @@ "namespace" :> <<"ns">> @@ "name" :> name

(* A field that is only written when the Option has a value. *)
Optional(field, value) == IF value = Null THEN << >> ELSE field :> value

Recorded == Len(pending) + Cardinality(delivered)

-----------------------------------------------------------------------------
(* Read restrictions: ReadRestriction::from_odrl_policies *)

Constrained(policies, field) == SelectSeq(policies, LAMBDA p : p[field] # Null)

AllowedColumns(policies) ==
    LET ps == Constrained(policies, "columns")
    IN  IF ps = << >> THEN Null
        ELSE SelectSeq(ps[1].columns,
                       LAMBDA c : \A i \in DOMAIN ps : c \in Elements(ps[i].columns))

RowPredicate(policies) ==
    LET ps == Constrained(policies, "predicate")
        Eq(p) == "type" :> "eq" @@ "term" :> p.predicate @@ "value" :> 1
    IN  CASE Len(ps) = 0 -> Null
          [] Len(ps) = 1 -> Eq(ps[1])
          [] OTHER       -> "type" :> "and" @@ "left" :> Eq(ps[1]) @@ "right" :> Eq(ps[2])

PurposesOf(policies) == {p.purpose : p \in Elements(Constrained(policies, "purpose"))}
TtlsOf(policies) == {p.ttl : p \in Elements(Constrained(policies, "ttl"))}

Least(S) == IF S = {} THEN Null ELSE CHOOSE x \in S : \A y \in S : x <= y
Only(S) == IF S = {} THEN Null ELSE CHOOSE x \in S : TRUE

RestrictionOf(policies) ==
    Optional("allowed-columns", AllowedColumns(policies))
        @@ Optional("row-predicate", RowPredicate(policies))
        @@ Optional("purpose", Only(PurposesOf(policies)))
        @@ Optional("max-credential-ttl-seconds", Least(TtlsOf(policies)))
        @@ "policy-hashes" :> policies

GovernedRead(policies) ==
    AllowedColumns(policies) # Null \/ RowPredicate(policies) # Null

(* effective_projection and effective_stats_fields; an empty answer to the    *)
(* first is an error.                                                         *)
Effective(policies, requested) ==
    LET allowed == AllowedColumns(policies)
    IN  IF allowed = Null THEN requested
        ELSE SelectSeq(requested, LAMBDA c : c \in Elements(allowed))

EffectiveProjection(policies, requested) ==
    IF AllowedColumns(policies) # Null /\ requested = << >> THEN AllowedColumns(policies)
    ELSE Effective(policies, requested)

ProjectionDefined(policies, requested) ==
    AllowedColumns(policies) # Null => EffectiveProjection(policies, requested) # << >>

-----------------------------------------------------------------------------
(* Recording *)

(* The receipt of authorize_with_operation_context.  Policies conflict when   *)
(* they name two purposes: then the request fails and records nothing.        *)
Authorizes(policies) == Cardinality(PurposesOf(policies)) <= 1

RawException(policies, principal) ==
    "requested" :> TRUE
        @@ "allowed" :> (~GovernedRead(policies) \/ principal = Human)
        @@ "reason" :> <<GovernedRead(policies), principal = Human>>

Receipt(action, principal, more) ==
    "principal" :> principal @@ "action" :> action @@ "allowed" :> TRUE
        @@ "engine" :> "engine" @@ "checked_at" :> "now"
        @@ "context" :> ("warehouse" :> Warehouse @@ "request-identity" :> principal
                             @@ "policy-bindings" :> bound @@ more)

Restricting(action, principal) ==
    IF bound = << >> \/ action \notin {"table-plan-scan", "credentials-vend"} THEN << >>
    ELSE "read-restriction" :> RestrictionOf(bound)
             @@ IF action = "credentials-vend"
                THEN "lakecat:raw-credential-exception" :> RawException(bound, principal)
                ELSE << >>

Facts == [table |-> table, bound |-> bound, profile |-> profile, changes |-> Null]

Append1(type, body, more) ==
    /\ Recorded < MaxEvents
    /\ pending' = Append(pending, [id |-> Recorded + 1, type |-> type, body |-> body,
                                   facts |-> more @@ Facts])
    /\ UNCHANGED <<delivered, projected>>

(* record_audit_event: the row wraps the payload of the handler. *)
RecordAuditEvent(type, ident, action, principal, payload, more) ==
    LET receipt == Receipt(action, principal, Restricting(action, principal))
                       @@ Optional("table", ident)
        inner   == "event-type" :> type @@ "authorization-receipt" :> receipt @@ payload
    IN  Append1(type,
                "audit-event-id" :> "hash" @@ "event-type" :> type
                    @@ Optional("table", ident) @@ "payload" :> inner,
                more)

(* An event the store writes itself: the row is the payload. *)
WriteOutboxEvent(type, ident, action, payload, more) ==
    Append1(type,
            "audit-event-id" :> "hash" @@ "event-type" :> type @@ "table" :> ident
                @@ "authorization-receipt" :> Receipt(action, Human, << >>)
                @@ payload,
            more)

Live == table # NoTable /\ ~table.hidden
Ident == IdentOf(table.name)
None == [none |-> Null]

-----------------------------------------------------------------------------
(* Tables *)

(* table_metadata_graph_summary: the columns, and the snapshot once a commit  *)
(* has made one.                                                              *)
MetadataGraph(commits) ==
    "current-schema-id" :> 0 @@ "fields" :> <<"a", "b">>
        @@ "current-snapshot-id" :> (IF commits = 0 THEN Null ELSE commits)
        @@ "current-snapshot" :> (IF commits = 0 THEN Null ELSE commits)

(* createTable writes metadata and a location; the register-style request     *)
(* may leave the metadata location out.                                       *)
CreateTable(location) ==
    LET t == [name |-> "t", location |-> location, version |-> 0, commits |-> 0,
              hidden |-> FALSE]
    IN  /\ table = NoTable
        /\ table' = t
        /\ RecordAuditEvent("table.created", IdentOf("t"), "table-create", Human,
               "table" :> IdentOf("t") @@ "metadata-location" :> location
                   @@ "location" :> "root" @@ "format-version" :> 2
                   @@ "metadata-graph" :> MetadataGraph(0) @@ "version" :> 0,
               "now" :> t @@ "changes" :> "table")
        /\ UNCHANGED <<bound, profile, namespaces, receipts, clock>>

(* registerTable always names the document it read. *)
RegisterTable ==
    LET t == [name |-> "t", location |-> "m", version |-> 0, commits |-> 0,
              hidden |-> FALSE]
    IN  /\ table = NoTable
        /\ table' = t
        /\ RecordAuditEvent("table.registered", IdentOf("t"), "table-register", Human,
               "table" :> IdentOf("t") @@ "metadata-location" :> "m"
                   @@ "location" :> "root" @@ "format-version" :> 2
                   @@ "metadata-graph" :> MetadataGraph(0) @@ "version" :> 0,
               "now" :> t @@ "changes" :> "table")
        /\ UNCHANGED <<bound, profile, namespaces, receipts, clock>>

LoadTable ==
    /\ Live
    /\ RecordAuditEvent("table.loaded", Ident, "table-load", Human,
           "table" :> Ident @@ "metadata-location" :> table.location
               @@ "format-version" :> 2 @@ "metadata-graph" :> MetadataGraph(table.commits)
               @@ "version" :> table.version,
           "now" :> table)
    /\ UNCHANGED catalog

(* listTables is decided as a namespace listing. *)
ListTables ==
    LET names == IF Live THEN <<table.name>> ELSE << >>
    IN  /\ RecordAuditEvent("table.listed", Null, "namespace-list", Human,
               "warehouse" :> Warehouse @@ "namespace" :> <<"ns">>
                   @@ "table-count" :> Len(names) @@ "table-names" :> names,
               None)
        /\ UNCHANGED catalog

(* A commit that names no location keeps the one of the table. *)
CommitTable(given) ==
    LET location == IF given THEN "m" ELSE table.location
        t == [table EXCEPT !.location = location, !.version = @ + 1, !.commits = @ + 1]
    IN  /\ Live
        /\ table' = t
        /\ WriteOutboxEvent("table.commit", Ident, "table-commit",
               "commit" :> ("table" :> Ident
                   @@ "previous_metadata_location" :> table.location
                   @@ "new_metadata_location" :> location
                   @@ "sequence_number" :> t.version @@ "principal" :> Human
                   @@ "format_version" :> 2 @@ "snapshot_id" :> 0
                   @@ "request_hash" :> "hash" @@ "response_hash" :> "hash"
                   @@ "committed_at" :> "now"),
               "now" :> t @@ "changes" :> "table")
        /\ UNCHANGED <<bound, profile, namespaces, receipts, clock>>

DeleteTable ==
    /\ Live
    /\ table' = [table EXCEPT !.hidden = TRUE]
    /\ WriteOutboxEvent("table.deleted", Ident, "table-drop",
           "soft-delete" :> ("table" :> Ident @@ "metadata-location" :> table.location
               @@ "version" :> table.version @@ "format-version" :> 2
               @@ "principal" :> Human @@ "authorization-receipt" :> "receipt"
               @@ "deleted-at" :> "now"),
           "now" :> table @@ "changes" :> "table")
    /\ UNCHANGED <<bound, profile, namespaces, receipts, clock>>

(* restore_table writes both a wrapped payload and the receipt of the row. *)
RestoreTable ==
    LET receipt == Receipt("table-restore", Human, << >>)
        inner   == "event-type" :> "table.restored" @@ "table" :> Ident
                       @@ "authorization-receipt" :> receipt
                       @@ "metadata-location" :> table.location
                       @@ "format-version" :> 2 @@ "version" :> table.version
    IN  /\ table # NoTable /\ table.hidden
        /\ table' = [table EXCEPT !.hidden = FALSE]
        /\ WriteOutboxEvent("table.restored", Ident, "table-restore",
                            "payload" :> inner, "now" :> table @@ "changes" :> "table")
        /\ UNCHANGED <<bound, profile, namespaces, receipts, clock>>

(* rename_table: the receipt is about the source, the row about the            *)
(* destination.  The policies bound to the table move with it.                *)
RenameTable ==
    LET to      == IdentOf(IF table.name = "t" THEN "u" ELSE "t")
        receipt == Receipt("table-rename", Human,
                           "destination-table" :> to
                               @@ "destination-policy-bindings" :> << >>)
                       @@ "table" :> Ident
        inner   == "event-type" :> "table.renamed" @@ "table" :> to
                       @@ "source" :> Ident @@ "destination" :> to
                       @@ "metadata-location" :> table.location
                       @@ "format-version" :> 2 @@ "version" :> table.version
                       @@ "authorization-receipt" :> receipt
    IN  /\ Live
        /\ table' = [table EXCEPT !.name = to["name"]]
        /\ Append1("table.renamed",
                   "audit-event-id" :> "hash" @@ "event-type" :> "table.renamed"
                       @@ "table" :> to @@ "payload" :> inner,
                   "now" :> table @@ "changes" :> "table")
        /\ UNCHANGED <<bound, profile, namespaces, receipts, clock>>

ListTableCommits ==
    /\ Live
    /\ RecordAuditEvent("table.commits-listed", Ident, "table-load", Human,
           "table" :> Ident @@ "warehouse" :> Warehouse @@ "namespace" :> <<"ns">>
               @@ "commit-count" :> table.commits
               @@ "commit-hashes" :> [i \in 1..table.commits |-> <<"commit", i>>]
               @@ "sequence-numbers" :> [i \in 1..table.commits |-> i]
               @@ "principal-subject" :> Human.subject @@ "principal-kind" :> Human.kind,
           "now" :> table)
    /\ UNCHANGED catalog

-----------------------------------------------------------------------------
(* Scans and credentials *)

Requirements ==
    IF bound = << >> THEN << >>
    ELSE "read-restriction" :> RestrictionOf(bound)
             @@ IF ProjectionDefined(bound, << >>)
                THEN LET columns == EffectiveProjection(bound, << >>)
                     IN  "required-projection" :> columns
                             @@ "effective-projection" :> columns
                             @@ "required-filters" :>
                                    IF RowPredicate(bound) = Null THEN << >>
                                    ELSE <<RowPredicate(bound)>>
                ELSE << >>

(* issue_governed_scan_grant: a purpose and an identity the catalog verified. *)
ProofIssued(verified) == PurposesOf(bound) # {} /\ verified

PlanTableScan(projection, stats, verified) ==
    /\ Live
    /\ Authorizes(bound)
    /\ ProjectionDefined(bound, projection)
    /\ RecordAuditEvent("table.scan-planned", Ident, "table-plan-scan", Agent,
           "requested-projection" :> projection
               @@ "effective-projection" :> EffectiveProjection(bound, projection)
               @@ "requested-stats-fields" :> stats
               @@ "effective-stats-fields" :> Effective(bound, stats)
               @@ (IF ProofIssued(verified) THEN "governed-scan-proof" :> "proof" ELSE << >>)
               @@ "table" :> Ident @@ "planned-by" :> "sail" @@ "snapshot-id" :> 1
               @@ "scan-task-count" :> 1 @@ "storage-location" :> "root"
               @@ "metadata-location" :> table.location
               @@ Requirements,
           "now" :> table @@ "projection" :> projection
               @@ "stats" :> Effective(bound, stats) @@ "verified" :> verified)
    /\ UNCHANGED catalog

FetchScanTasks ==
    LET columns == EffectiveProjection(bound, << >>)
    IN  /\ Live
        /\ Authorizes(bound)
        /\ ProjectionDefined(bound, << >>)
        /\ RecordAuditEvent("table.scan-tasks-fetched", Ident, "table-plan-scan", Agent,
               "requested-stats-fields" :> columns @@ "effective-stats-fields" :> columns
                   @@ "stats-fields" :> columns
                   @@ "table" :> Ident @@ "planned-by" :> "sail" @@ "snapshot-id" :> 1
                   @@ "plan-task" :> "token" @@ "file-scan-task-count" :> 1
                   @@ "delete-file-count" :> 0 @@ "child-plan-task-count" :> 0
                   @@ "storage-location" :> "root"
                   @@ "metadata-location" :> table.location
                   @@ Requirements,
               "now" :> table)
        /\ UNCHANGED catalog

(* The profile of the table: the longest registered match, else one inferred  *)
(* from its location, whose id is "warehouse:provider".                       *)
StorageProfileOf(kind) ==
    "profile-id" :> [kind |-> IF kind = "inferred" THEN "pair" ELSE "segment"]
        @@ "warehouse" :> Warehouse
        @@ "provider" :> (IF kind = "secret" THEN "s3" ELSE "file")
        @@ "issuance-mode" :> (IF kind = "secret" THEN "short-lived-secret-ref"
                               ELSE "local-file-no-secret")
        @@ "secret-ref-present" :> (kind = "secret")
        @@ "location-prefix-hash" :> "hash" @@ "public-config" :> << >>
        @@ (IF kind = "secret"
            THEN "secret-ref-provider" :> "vault" @@ "secret-ref-hash" :> "hash"
            ELSE << >>)

StorageProfile == StorageProfileOf(profile)
ProfileId == StorageProfile["profile-id"]
Mode == StorageProfile["issuance-mode"]

(* credential_response_evidence: one entry for each credential. *)
CredentialEntry(principal) ==
    "prefix-hash" :> "prefix" @@ "storage-profile-id" :> ProfileId
        @@ "storage-provider" :> StorageProfile["provider"]
        @@ "credential-mode" :> Mode
        @@ "authorization-principal" :> principal.subject
        @@ "governed-read-required" :> GovernedRead(bound)
        @@ "max-credential-ttl-seconds" :> Least(TtlsOf(bound))
        @@ "secret-ref-provider" :> Null @@ "secret-ref-hash" :> Null
        @@ "issuer-config-entry-count" :> 0 @@ "issuer-config-hash" :> "hash"
        @@ "catalog-profile-id" :> ProfileId
        @@ "receipt-principal" :> principal.subject

(* load_credentials with the ConservativeCredentialIssuer: one credential for *)
(* a local profile, none for another.                                         *)
LoadCredentials(principal) ==
    LET exception == RawException(bound, principal)
        blocked   == bound # << >> /\ ~exception["allowed"]
        issued    == ~blocked /\ profile # "secret"
        entries   == IF issued THEN <<CredentialEntry(principal)>> ELSE << >>
    IN  /\ Live
        /\ Authorizes(bound)
        /\ RecordAuditEvent("credentials.vend-attempted", Ident, "credentials-vend", principal,
               "table" :> Ident @@ "storage-location" :> "root"
                   @@ "storage-profile-id" :> ProfileId @@ "storage-profile" :> StorageProfile
                   @@ "secret-ref-present" :> (profile = "secret") @@ "mode" :> Mode
                   @@ "credential-count" :> Len(entries)
                   @@ "credential-response-evidence" :> entries
                   @@ Restricting("credentials-vend", principal)
                   @@ (IF blocked
                       THEN "lakecat:credential-block-reason" :> exception["reason"]
                       ELSE << >>),
               "now" :> table @@ "issued" :> issued)
        /\ UNCHANGED catalog

-----------------------------------------------------------------------------
(* Management *)

(* Upserts and listings of the hierarchy.  Ids are primary keys of the store. *)
RecordUpsert(type, action, payload) ==
    RecordAuditEvent(type, Null, action, Human, payload, None)

RecordList(type, action, scope, ids) ==
    RecordAuditEvent(type, Null, action, Human,
        ListRule(type).count :> Len(ids) @@ ListRule(type).list :> ids @@ scope, None)

BindPolicy(policy) ==
    /\ Len(bound) < MaxPolicies
    /\ bound' = Append(bound, policy)
    /\ RecordUpsert("policy-binding.upserted", "policy-manage",
           "warehouse" :> Warehouse
               @@ "policy" :> ("policy-id" :> Len(bound) + 1 @@ "warehouse" :> Warehouse
                      @@ "namespace" :> <<"ns">> @@ "table" :> "t" @@ "enforced" :> TRUE
                      @@ "odrl" :> policy @@ "odrl-hash" :> <<"digest", policy>>))
    /\ UNCHANGED <<table, profile, namespaces, receipts, clock>>

UpsertProfile(kind) ==
    /\ profile' = kind
    /\ RecordUpsert("storage-profile.upserted", "storage-profile-manage",
           "warehouse" :> Warehouse @@ "storage-profile" :> StorageProfileOf(kind))
    /\ UNCHANGED <<table, bound, namespaces, receipts, clock>>

(* redact_server_event_payload and redact_warehouse_event_payload replace the *)
(* endpoint and the storage root by their digest.                             *)
UpsertServer ==
    /\ RecordUpsert("server.upserted", "server-manage",
           "server-id" :> "s"
               @@ "server-record" :> ("server-id" :> "s" @@ "display-name" :> Null
                      @@ "endpoint-url-hash" :> "hash" @@ "properties" :> << >>))
    /\ UNCHANGED catalog

UpsertProject ==
    /\ RecordUpsert("project.upserted", "project-manage",
           "project-id" :> "p"
               @@ "project-record" :> ("project-id" :> "p" @@ "server-id" :> "s"
                      @@ "display-name" :> Null @@ "properties" :> << >>))
    /\ UNCHANGED catalog

(* By the route of the warehouse, or by the one of its project. *)
UpsertWarehouse(route) ==
    /\ RecordUpsert("warehouse.upserted", "warehouse-manage",
           "warehouse" :> Warehouse @@ route
               @@ "warehouse-record" :> ("warehouse" :> Warehouse @@ "project-id" :> "p"
                      @@ "storage-root-hash" :> "hash" @@ "properties" :> << >>))
    /\ UNCHANGED catalog

ListPolicyBindings ==
    /\ RecordList("policy-binding.listed", "policy-manage", "warehouse" :> Warehouse,
                  [i \in DOMAIN bound |-> i])
    /\ UNCHANGED catalog

ListStorageProfiles ==
    /\ RecordList("storage-profile.listed", "storage-profile-manage",
                  "warehouse" :> Warehouse,
                  IF profile = "inferred" THEN << >> ELSE <<profile>>)
    /\ UNCHANGED catalog

ListServers ==
    RecordList("server.listed", "server-manage", << >>, <<"s">>) /\ UNCHANGED catalog

ListProjects ==
    RecordList("project.listed", "project-manage", << >>, <<"p">>) /\ UNCHANGED catalog

(* All warehouses, or those of a project. *)
ListWarehouses(scope) ==
    /\ RecordList("warehouse.listed", "warehouse-manage", scope, <<Warehouse>>)
    /\ UNCHANGED catalog

(* publish_model writes its own audit row, without an authorization receipt.  *)
PublishModel ==
    /\ Append1("model.published",
               "audit-event-id" :> "hash" @@ "event-type" :> "model.published"
                   @@ "payload" :> ("event-type" :> "model.published"
                          @@ "warehouse" :> Warehouse @@ "model-id" :> "model"
                          @@ "version" :> 1 @@ "publisher" :> Human),
               None)
    /\ UNCHANGED catalog

GetConfig ==
    /\ RecordAuditEvent("catalog.config-read", Null, "catalog-config", Human,
           "warehouse" :> Warehouse @@ "defaults" :> << >> @@ "overrides" :> << >>
               @@ "endpoints" :> <<"endpoint">>,
           None)
    /\ UNCHANGED catalog

-----------------------------------------------------------------------------
(* Namespaces.  A part of a namespace may hold dots, so a part is itself a    *)
(* sequence of labels, and path() joins everything with dots.                 *)

PathOf(namespace) == FlattenSeq(namespace)

RecordNamespace(type, action, namespace, more) ==
    RecordAuditEvent(type, Null, action, Human,
        "warehouse" :> Warehouse @@ "namespace" :> namespace, more)

CreateNamespace(namespace) ==
    /\ namespace \notin namespaces
    /\ namespaces' = namespaces \cup {namespace}
    /\ RecordNamespace("namespace.created", "namespace-create", namespace,
                       "changes" :> "namespace")
    /\ UNCHANGED <<table, bound, profile, receipts, clock>>

DropNamespace(namespace) ==
    /\ namespace \in namespaces
    /\ namespaces' = namespaces \ {namespace}
    /\ RecordNamespace("namespace.dropped", "namespace-drop", namespace,
                       "changes" :> "namespace")
    /\ UNCHANGED <<table, bound, profile, receipts, clock>>

LoadNamespace(namespace) ==
    /\ namespace \in namespaces
    /\ RecordNamespace("namespace.loaded", "namespace-load", namespace, None)
    /\ UNCHANGED catalog

UpdateNamespaceProperties(namespace) ==
    /\ namespace \in namespaces
    /\ RecordNamespace("namespace.properties-updated", "namespace-update", namespace, None)
    /\ UNCHANGED catalog

ListNamespaces ==
    LET all   == SetToSeq(namespaces)
        paths == [i \in DOMAIN all |-> PathOf(all[i])]
    IN  /\ RecordAuditEvent("namespace.listed", Null, "namespace-list", Human,
               "warehouse" :> Warehouse @@ "namespace-count" :> Len(paths)
                   @@ "namespace-paths" :> paths,
               "paths" :> paths)
        /\ UNCHANGED catalog

-----------------------------------------------------------------------------
(* Views *)

Latest == receipts[Len(receipts)]
ViewExists == receipts # << >> /\ Latest.operation = "upsert"

ViewResponse(version) ==
    "warehouse" :> Warehouse @@ "namespace" :> <<"ns">> @@ "name" :> "v"
        @@ "view-version" :> version @@ "sql" :> "sql" @@ "dialect" :> "sql"
        @@ "schema-version" :> 1 @@ "columns" :> << >> @@ "properties" :> << >>

(* The Iceberg routes add the name of the interface. *)
Interface(rest) == IF rest THEN "interface" :> "iceberg-rest" ELSE << >>

RecordView(type, action, rest, version, more) ==
    RecordAuditEvent(type, Null, action, Human,
        "warehouse" :> Warehouse @@ "namespace" :> <<"ns">>
            @@ "view" :> ViewResponse(version) @@ Interface(rest) @@ more,
        "changes" :> IF type = "view.loaded" THEN Null ELSE "view")

(* The store appends a receipt, stamped with its clock: two receipts may get   *)
(* the same stamp.                                                            *)
AppendReceipt(operation, version, stamp) ==
    /\ stamp \in {clock, clock + 1}
    /\ clock' = stamp
    /\ receipts' = Append(receipts,
           [operation |-> operation, version |-> version, at |-> stamp,
            hash |-> Len(receipts) + 1,
            previous |-> IF receipts = << >> THEN Null ELSE Latest.hash])
    /\ UNCHANGED <<table, bound, profile, namespaces>>

UpsertView(rest, stamp) ==
    LET version == IF receipts = << >> THEN 1 ELSE Latest.version + 1
    IN  /\ AppendReceipt("upsert", version, stamp)
        /\ RecordView("view.upserted", "view-manage", rest, version,
                      "expected-view-version" :> Null)

DropView(rest, stamp) ==
    /\ ViewExists
    /\ AppendReceipt("drop", Latest.version, stamp)
    /\ RecordView("view.dropped", "view-drop", rest, Latest.version,
                  "expected-view-version" :> Latest.version)

LoadView ==
    /\ ViewExists
    /\ RecordView("view.loaded", "view-load", TRUE, Latest.version, << >>)
    /\ UNCHANGED catalog

(* The management route is decided as view management. *)
ListViews(rest) ==
    LET names == IF ViewExists THEN <<"v">> ELSE << >>
    IN  /\ RecordAuditEvent("view.listed", Null,
               IF rest THEN "view-load" ELSE "view-manage", Human,
               "warehouse" :> Warehouse @@ "namespace" :> <<"ns">>
                   @@ "view-count" :> Len(names) @@ "view-names" :> names
                   @@ Interface(rest),
               "rest" :> rest)
        /\ UNCHANGED catalog

Hashes(chain) == [i \in DOMAIN chain |-> chain[i].hash]
Drops(chain) == SelectSeq(chain, LAMBDA r : r.operation = "drop")

ListReceipts ==
    /\ RecordAuditEvent("view.version-receipts-listed", Null, "view-load", Human,
           "warehouse" :> Warehouse @@ "namespace" :> <<"ns">> @@ "view" :> "v"
               @@ "receipt-count" :> Len(receipts) @@ "receipt-hashes" :> Hashes(receipts)
               @@ "drop-receipt-hashes" :> Hashes(Drops(receipts)),
           None)
    /\ UNCHANGED catalog

(* view_version_receipt_chains sorts by version, stamp and the name of the    *)
(* operation, so at one stamp a drop comes before the upsert it drops.         *)
ChainOrder(left, right) ==
    \/ left.version < right.version
    \/ left.version = right.version /\ left.at < right.at
    \/ /\ left.version = right.version /\ left.at = right.at
       /\ left.operation = "drop" /\ right.operation = "upsert"

Tied(chain) ==
    \E i, j \in DOMAIN chain :
        i # j /\ chain[i].version = chain[j].version /\ chain[i].at = chain[j].at

ListChains ==
    LET chain  == SortSeq(receipts, ChainOrder)
        last   == chain[Len(chain)]
        chains == IF receipts = << >> THEN << >>
                  ELSE <<"stable-id" :> "v" @@ "warehouse" :> Warehouse
                           @@ "namespace" :> <<"ns">> @@ "name" :> "v"
                           @@ "chain-hash" :> "hash"
                           @@ "chain-verified" :> ChainVerified(chain)
                           @@ "latest-view-version" :> last.version
                           @@ "latest-operation" :> last.operation
                           @@ "tombstoned" :> (last.operation = "drop")
                           @@ "receipt-count" :> Len(chain) @@ "receipts" :> chain>>
        Count(P(_)) == Cardinality({i \in DOMAIN chains : P(chains[i])})
    IN  /\ RecordAuditEvent("view.version-receipt-chains-listed", Null, "view-load", Human,
               "warehouse" :> Warehouse @@ "namespace" :> <<"ns">>
                   @@ "chain-count" :> Len(chains) @@ "receipt-count" :> Len(receipts)
                   @@ "tombstone-count" :> Count(LAMBDA c : c["tombstoned"])
                   @@ "chain-verified-count" :> Count(LAMBDA c : c["chain-verified"])
                   @@ "view-version-receipt-chains" :> chains
                   @@ "chain-hashes" :> [i \in DOMAIN chains |-> "hash"]
                   @@ "receipt-hashes" :> Hashes(chain)
                   @@ "drop-receipt-hashes" :> Hashes(Drops(chain)),
               "tied" :> Tied(receipts))
        /\ UNCHANGED catalog

(* querygraph_bootstrap: an unverified chain of a view is an error.  The      *)
(* store's sort is stable and knows no operation, so receipts at one stamp    *)
(* stay in the order they were appended.                                      *)
Bootstrap ==
    LET tables == IF Live THEN <<Ident>> ELSE << >>
        views  == IF ViewExists THEN <<"v">> ELSE << >>
    IN  /\ ViewExists => ChainVerified(receipts)
        /\ RecordAuditEvent("querygraph.bootstrap", Null, "graph-read", Human,
               "warehouse" :> Warehouse @@ "table-count" :> Len(tables)
                   @@ "view-count" :> Len(views) @@ "policy-binding-count" :> Len(bound)
                   @@ "verified-tables" :> tables @@ "verified-views" :> views
                   @@ "verified-view-versions" :> views
                   @@ "view-version-receipts" :>
                          [i \in DOMAIN views |-> [view |-> "v", version |-> Latest.version,
                                                   hash |-> Latest.hash]]
                   @@ "table-artifacts" :> tables @@ "view-artifacts" :> views
                   @@ "bundle-hash" :> "hash" @@ "graph-hash" :> "hash"
                   @@ "open-lineage-hash" :> "hash" @@ "querygraph-import-hash" :> "hash"
                   @@ "standards" :> <<"standard">>,
               None)
        /\ UNCHANGED catalog

-----------------------------------------------------------------------------
(* The drain *)

(* outbox_principal: the receipt names it, else it is anonymous and has no    *)
(* vertex.                                                                    *)
Anonymous(event) ==
    /\ ~Has(Inner(event), "authorization-receipt")
    /\ ~Has(event.body, "authorization-receipt")
    /\ ~Has(event.body, "commit")

PrincipalVertex(event) == IF Anonymous(event) THEN {} ELSE {"principal"}

(* outbox_table_projection *)
TableProjectedOnce ==
    {"table.created", "table.registered", "table.loaded", "table.scan-planned",
     "table.scan-tasks-fetched", "table.commit", "table.renamed"}

TableProjected ==
    {"table.created", "table.registered", "table.loaded", "table.scan-planned",
     "table.scan-tasks-fetched", "table.commit", "table.renamed", "table.deleted"}

TableTypes == TableProjectedOnce \cup {"table.deleted", "table.restored"}

(* outbox_table: null is no table. *)
AboutTable(event) == Given(event.body, "table")

(* project_table_metadata_graph_events *)
MetadataVertices(event) ==
    LET graphs == InPayload(Inner(event), "metadata-graph")
    IN  {"column" : graph \in {g \in graphs : g["fields"] # << >>}}
            \cup {"snapshot" : graph \in {g \in graphs : Given(g, "current-snapshot")}}

TableVertices(event) ==
    IF event.type \in TableProjected /\ AboutTable(event)
    THEN {"table"} \cup MetadataVertices(event)
             \cup (IF event.type \in {"table.scan-planned", "table.scan-tasks-fetched"}
                   THEN {"scan-plan"} ELSE {})
             \cup (IF event.type = "table.commit" THEN {"commit"} ELSE {})
    ELSE {}

(* project_table_commit_history_graph_events: the commits that were listed. *)
HistoryVertices(event) ==
    IF /\ event.type = "table.commits-listed" /\ AboutTable(event)
       /\ Inner(event)["sequence-numbers"] # << >>
    THEN {"commit"} ELSE {}

(* The vertex of every other event that has one. *)
VertexOf(event) ==
    LET type == event.type
    IN  CASE type \in {"catalog.config-read", "namespace.listed", "warehouse.upserted"} ->
               {"warehouse"}
          [] type \in {"namespace.created", "namespace.dropped", "namespace.loaded",
                       "namespace.properties-updated", "view.listed"} -> {"namespace"}
          [] type = "policy-binding.upserted"                         -> {"policy"}
          [] type = "model.published"                                 -> {"model"}
          [] type = "project.upserted"                                -> {"project"}
          [] type = "server.upserted"                                 -> {"server"}
          [] type \in {"storage-profile.upserted",
                       "credentials.vend-attempted"}                  -> {"storage-profile"}
          [] type \in {"view.upserted", "view.loaded", "view.dropped"} -> {"view"}
          [] type = "table.restored" /\ AboutTable(event)             -> {"table"}
          [] OTHER                                                    -> {}

(* What the vertex is made from; an event without it fails after its          *)
(* principal was emitted.                                                     *)
NamespaceNamed(payload) == Has(payload, "namespace") /\ payload["namespace"] # << >>

PolicyNamed(payload) == Has(payload, "policy") /\ Has(payload["policy"], "policy-id")

(* outbox_project and outbox_server: by the payload, else by its record. *)
Named(payload, id, record) ==
    Has(payload, id) \/ (Has(payload, record) /\ Has(payload[record], id))

ProfileNamed(payload) ==
    Has(payload, "storage-profile") /\ Has(payload["storage-profile"], "profile-id")

ViewNamed(payload) ==
    /\ Has(payload, "view") /\ Has(payload["view"], "name")
    /\ Has(payload["view"], "namespace") \/ Has(payload, "namespace")

CommitNumbered(payload) ==
    Has(payload, "commit") /\ Has(payload["commit"], "sequence_number")

HistoryPaired(payload) ==
    /\ Has(payload, "sequence-numbers") /\ Has(payload, "commit-hashes")
    /\ Len(payload["sequence-numbers"]) = Len(payload["commit-hashes"])

Addressed(event) ==
    LET type == event.type payload == Inner(event) vertex == VertexOf(event)
    IN  /\ "namespace" \in vertex => NamespaceNamed(payload)
        /\ "policy" \in vertex    => PolicyNamed(payload)
        /\ "project" \in vertex   => Named(payload, "project-id", "project-record")
        /\ "server" \in vertex    => Named(payload, "server-id", "server-record")
        /\ "view" \in vertex      => ViewNamed(payload)
        /\ "model" \in vertex     => Given(payload, "model-id")
        /\ type = "storage-profile.upserted" => ProfileNamed(payload)
        /\ type = "table.commit"             => CommitNumbered(payload)
        /\ type = "table.commits-listed"     => HistoryPaired(payload)

(* project_outbox_event.  Every branch ends with a lineage event; those of a   *)
(* table are only taken when the row names it.                                *)
Emitted(event) ==
    LET lineage == IF event.type \in KnownTypes \ TableTypes \/ AboutTable(event)
                   THEN {"lineage"} ELSE {}
    IN  {<<event.id, entity>> : entity \in
             PrincipalVertex(event) \cup
                 IF Addressed(event)
                 THEN TableVertices(event) \cup HistoryVertices(event)
                          \cup VertexOf(event) \cup lineage
                 ELSE {}}

-----------------------------------------------------------------------------
(* lineage_drain_event_summary, after the event was emitted: what the summary  *)
(* asks of the fields it copies.  It also runs the validators once more, with  *)
(* the answer they gave before.                                               *)

(* lineage_summary_string_array_field and lineage_summary_full_hash_array_field *)
ArrayValidNonempty(payload, field) ==
    Has(payload, field) => payload[field] # << >> /\ Distinct(payload[field])

ArrayValid(payload, field) == Has(payload, field) => Distinct(payload[field])

ListingsCounted(payload) ==
    \A type \in {"policy-binding.listed", "project.listed", "server.listed",
                 "storage-profile.listed", "warehouse.listed"} :
        Has(payload, ListRule(type).list) =>
            /\ ArrayValid(payload, ListRule(type).list)
            /\ Has(payload, ListRule(type).count)
            /\ payload[ListRule(type).count] = Len(payload[ListRule(type).list])

ReceiptHashesSummarized(payload) ==
    IF Has(payload, "view-version-receipts")
    THEN Distinct(Hashes(payload["view-version-receipts"]))
    ELSE IF Has(payload, "view-version-receipt-chains")
    THEN LET chains == payload["view-version-receipt-chains"]
         IN  \A i \in DOMAIN chains : Distinct(Hashes(chains[i]["receipts"]))
    ELSE TRUE

ChainsSummarized(payload) ==
    Has(payload, "view-version-receipt-chains") =>
        LET chains == payload["view-version-receipt-chains"]
        IN  /\ \A i \in DOMAIN chains : chains[i]["chain-verified"]
            /\ payload["chain-verified-count"] = Len(chains)

CommitCountsSummarized(payload) ==
    LET Listed1(field) == IF Has(payload, field) THEN payload[field] ELSE << >>
        numbers == Listed1("sequence-numbers")
        hashes  == Listed1("commit-hashes")
    IN  /\ \A i \in DOMAIN numbers : numbers[i] > 0
        /\ \A i, j \in DOMAIN numbers : i < j => numbers[i] < numbers[j]
        /\ Has(payload, "commit-count") =>
               Len(numbers) = payload["commit-count"] /\ Len(hashes) = payload["commit-count"]
        /\ numbers # << >> => Len(numbers) = Len(hashes)

StatsSummarized(payload) ==
    Has(payload, "stats-fields") =>
        /\ payload["stats-fields"] # << >>
        /\ Elements(payload["stats-fields"]) = Elements(payload["effective-stats-fields"])

FiltersSummarized(event) ==
    LET payload == Inner(event)
    IN  /\ event.type \in {"table.scan-planned", "table.scan-tasks-fetched"}
        /\ Has(payload, "required-filters") \/ Has(payload, "read-restriction")
        => FiltersMatch(payload)

(* The profile of an event, and the credentials a vend event counts. *)
ProfileSummarized(event) ==
    LET payload == Inner(event)
    IN  Has(payload, "storage-profile") =>
            /\ ProfileValid(payload["storage-profile"])
            /\ event.type = "credentials.vend-attempted" =>
                   payload["secret-ref-present"]
                       = payload["storage-profile"]["secret-ref-present"]

CredentialsSummarized(payload) ==
    Has(payload, "credential-response-evidence") =>
        LET entries == payload["credential-response-evidence"]
        IN  /\ Has(payload, "storage-profile")
            /\ \A i \in DOMAIN entries :
                   EntryValid(payload, payload["storage-profile"], entries[i])
            /\ Distinct([i \in DOMAIN entries |-> entries[i]["prefix-hash"]])
            /\ Has(payload, "credential-count") => payload["credential-count"] = Len(entries)

ExceptionSummarized(payload) ==
    Has(payload, "lakecat:raw-credential-exception") =>
        /\ ExceptionValid(payload)
        /\ BlockReasonValid(payload)

(* lineage_summary_positive_u64_field *)
ViewSummarized(event) ==
    event.type \in {"view.upserted", "view.loaded", "view.dropped"} =>
        ViewRecordValid(Inner(event), Inner(event)["view"])

Summarized(event) ==
    LET payload == Inner(event)
    IN  /\ \A field \in {"endpoints", "required-projection", "requested-projection",
                         "effective-projection", "requested-stats-fields",
                         "effective-stats-fields", "standards", "commit-hashes"} :
               ArrayValid(payload, field)
        /\ ViewSummarized(event)
        /\ ReceiptHashesSummarized(payload) /\ ChainsSummarized(payload)
        /\ ProfileSummarized(event)
        /\ CredentialsSummarized(payload) /\ ExceptionSummarized(payload)
        /\ CommitCountsSummarized(payload)
        /\ StatsSummarized(payload)
        /\ ListingsCounted(payload)
        /\ FiltersSummarized(event)

GoesThrough(event) == Accepted(event) /\ Addressed(event) /\ Summarized(event)

(* drain_outbox_once: the events are validated and emitted one by one; the    *)
(* first that fails ends the drain, and nothing of the batch is acknowledged. *)
BatchWhenFull == IF Len(pending) < BatchLimit THEN << >> ELSE SubSeq(pending, 1, BatchLimit)

Batch == SubSeq(pending, 1, IF Len(pending) < BatchLimit THEN Len(pending) ELSE BatchLimit)

Drain ==
    LET batch    == Batch
        accepted == {i \in DOMAIN batch : Accepted(batch[i])}
        passed   == {i \in accepted : GoesThrough(batch[i])}
        emitted  == {i \in accepted : 1..(i - 1) \subseteq passed}
    IN  /\ pending # << >>
        /\ projected' = projected \cup UNION {Emitted(batch[i]) : i \in emitted}
        /\ IF passed = DOMAIN batch
           THEN /\ delivered' = delivered \cup Elements(batch)
                /\ pending' = SubSeq(pending, Len(batch) + 1, Len(pending))
           ELSE UNCHANGED <<delivered, pending>>
        /\ UNCHANGED catalog

-----------------------------------------------------------------------------
(* The catalog starts from what earlier, delivered events left behind: a      *)
(* table with its policies and profile, or namespaces and a view.             *)
Registered == [name |-> "t", location |-> "m", version |-> 0, commits |-> 0, hidden |-> FALSE]
FirstReceipt == [operation |-> "upsert", version |-> 1, at |-> 0, hash |-> 1, previous |-> Null]

Init ==
    /\ \/ /\ table = Registered
          /\ bound \in {<< >>} \cup {<<policy>> : policy \in Policies}
          /\ profile \in {"inferred", "local"}
          /\ namespaces = {} /\ receipts = << >>
       \/ /\ table = NoTable /\ bound = << >> /\ profile = "inferred"
          /\ namespaces \in {{}} \cup {{namespace} : namespace \in Namespaces}
          /\ receipts \in {<< >>, <<FirstReceipt>>}
    /\ clock = 0
    /\ pending = << >> /\ delivered = {} /\ projected = {}

Tables ==
    \/ \E location \in {"m", Null} : CreateTable(location)
    \/ RegisterTable \/ LoadTable \/ ListTables
    \/ \E given \in BOOLEAN : CommitTable(given)
    \/ DeleteTable \/ RestoreTable \/ RenameTable \/ ListTableCommits

Reads ==
    \/ \E request \in Requests, verified \in BOOLEAN :
           PlanTableScan(request.projection, request.stats, verified)
    \/ FetchScanTasks
    \/ \E principal \in {Human, Agent} : LoadCredentials(principal)

Management ==
    \/ \E policy \in Policies : BindPolicy(policy)
    \/ \E kind \in {"local", "secret"} : UpsertProfile(kind)
    \/ UpsertServer \/ UpsertProject
    \/ \E route \in {<< >>, "project-id" :> "p"} :
           UpsertWarehouse(route) \/ ListWarehouses(route)
    \/ ListPolicyBindings \/ ListStorageProfiles \/ ListServers \/ ListProjects
    \/ PublishModel \/ GetConfig
    \/ \E namespace \in Namespaces :
           \/ CreateNamespace(namespace) \/ DropNamespace(namespace)
           \/ LoadNamespace(namespace) \/ UpdateNamespaceProperties(namespace)
    \/ ListNamespaces

Views ==
    \/ \E rest \in BOOLEAN, stamp \in {clock, clock + 1} :
           UpsertView(rest, stamp) \/ DropView(rest, stamp)
    \/ \E rest \in BOOLEAN : ListViews(rest)
    \/ LoadView \/ ListReceipts \/ ListChains \/ Bootstrap

Next == Tables \/ Reads \/ Management \/ Views \/ Drain

Spec == Init /\ [][Next]_vars

(* A scheduler or an operator calls the drain again and again. *)
FairSpec == Spec /\ WF_vars(Drain)

-----------------------------------------------------------------------------
(* Properties *)

(* What the bound policies must be like for a restricted read to be recorded  *)
(* in a form the rules accept.                                                *)
PoliciesReplayable(policies, predicates) ==
    policies # << >> =>
        /\ PurposesOf(policies) # {} /\ TtlsOf(policies) # {}
        /\ Len(Constrained(policies, "predicate")) \in predicates
        /\ Distinct(policies)

(* The events that can be replayed, told by the catalog they were recorded in *)
(* and not by what was written.                                               *)
Replayable(event) ==
    LET type == event.type facts == event.facts
    IN  CASE type \in {"table.listed", "table.restored"} -> FALSE
          [] type \in {"table.created", "table.loaded", "table.deleted", "table.renamed"} ->
                 facts.now.location # Null
          [] type = "table.commit" -> facts.table.location # Null
          [] type = "table.scan-planned" ->
                 /\ facts.table.location # Null
                 /\ facts.projection # << >> /\ facts.stats # << >>
                 /\ PoliciesReplayable(facts.bound, {1})
                 /\ ~(PurposesOf(facts.bound) # {} /\ facts.verified)
          [] type = "table.scan-tasks-fetched" ->
                 /\ facts.table.location # Null
                 /\ AllowedColumns(facts.bound) # Null
                 /\ PoliciesReplayable(facts.bound, {1})
          [] type = "credentials.vend-attempted" ->
                 /\ facts.profile # "inferred"
                 /\ PoliciesReplayable(facts.bound, {0, 1})
                 /\ facts.issued => facts.bound = << >> \/ GovernedRead(facts.bound)
          [] type = "namespace.listed" -> Distinct(facts.paths)
          [] type = "view.listed" -> facts.rest
          [] type = "view.version-receipt-chains-listed" -> ~facts.tied
          [] OTHER -> TRUE

(* The drain refuses exactly the events listed above: the two agree for every *)
(* event the handlers and the stores record (validate_outbox_event_evidence). *)
RefusalsAreKnown ==
    \A i \in DOMAIN pending : Accepted(pending[i]) <=> Replayable(pending[i])

(* Nothing is emitted of an event that the drain then fails to summarize: if  *)
(* it were, every retry would emit it again and never acknowledge it          *)
(* (lineage_drain_event_summary runs after project_outbox_event).             *)
EmittedIsAcknowledgeable ==
    \A i \in DOMAIN pending :
        (\E entry \in projected : entry[1] = pending[i].id) => GoesThrough(pending[i])

(* What an acknowledged event says changed is a vertex of the graph, and      *)
(* every acknowledged event is in the lineage (project_outbox_event).         *)
DeliveredIsProjected ==
    \A event \in delivered :
        /\ <<event.id, "lineage">> \in projected
        /\ \A entity \in {"table", "namespace", "view"} :
               event.facts.changes = entity => <<event.id, entity>> \in projected

(* The drain empties the outbox again and again unless a refused event is in   *)
(* the batch: only refusals hold the outbox up (drain_outbox_once).           *)
OnlyRefusalsBlock ==
    []<>(\/ pending = << >>
         \/ \E i \in DOMAIN pending : i <= BatchLimit /\ ~Replayable(pending[i]))

(* Every event the service records can be replayed by the drain. *)
RecordedEventsAreReplayable == \A i \in DOMAIN pending : Accepted(pending[i])

=============================================================================
