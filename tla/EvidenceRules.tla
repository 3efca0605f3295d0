---------------------------- MODULE EvidenceRules ----------------------------
(***************************************************************************)
(* The rules by which the outbox drain accepts or refuses an event         *)
(* (crates/lakecat-service/src/evidence).  An event is                     *)
(* [id, type, body]; a JSON object is a function from the source's field   *)
(* names to values and an array is a sequence.  A producer fixes the JSON  *)
(* kind of a field, so what the rules tell apart here is which fields an   *)
(* object carries, null, emptiness, repetition, counts and equality with   *)
(* other fields.  Digests, timestamps and locations that the producers     *)
(* always write well-formed are values without structure.                  *)
(***************************************************************************)
EXTENDS Naturals, Sequences, FiniteSets

CONSTANT Null        \* JSON null

Has(object, field) == field \in DOMAIN object

(* A field that is there and is not null. *)
Given(object, field) == Has(object, field) /\ object[field] # Null

(* validate_object_evidence_schema: no field outside the list. *)
Closed(object, fields) == DOMAIN object \subseteq fields

Distinct(list) == \A i, j \in DOMAIN list : list[i] = list[j] => i = j

Elements(list) == {list[i] : i \in DOMAIN list}

(* The object the rules look at: "payload" of the row, or the row itself. *)
Inner(event) ==
    IF Has(event.body, "payload") THEN event.body["payload"] ELSE event.body

OuterClosed(event, fields) == Has(event.body, "payload") => Closed(event.body, fields)

TableOuter == {"audit-event-id", "event-type", "table", "payload"}
PlainOuter == {"audit-event-id", "event-type", "payload"}

KnownTypesBeforeRename ==
    {"catalog.config-read", "credentials.vend-attempted", "model.published",
     "namespace.created", "namespace.dropped", "namespace.listed", "namespace.loaded",
     "namespace.properties-updated", "policy-binding.listed", "policy-binding.upserted",
     "project.listed", "project.upserted", "querygraph.bootstrap", "server.listed",
     "server.upserted", "storage-profile.listed", "storage-profile.upserted",
     "table.commit", "table.commits-listed", "table.created", "table.registered",
     "table.deleted", "table.loaded", "table.restored", "table.scan-planned",
     "table.scan-tasks-fetched", "view.dropped", "view.listed", "view.loaded",
     "view.upserted", "view.version-receipt-chains-listed",
     "view.version-receipts-listed", "warehouse.listed", "warehouse.upserted"}

KnownTypes == KnownTypesBeforeRename \cup {"table.renamed"}

(* The row and the object in it both name the event's type.  The inner one   *)
(* may do without it only when the event's id is not the hash of its payload, *)
(* and the stores make it that hash.                                         *)
TypeBound(event) ==
    /\ Given(event.body, "event-type") /\ event.body["event-type"] = event.type
    /\ Given(Inner(event), "event-type") /\ Inner(event)["event-type"] = event.type

-----------------------------------------------------------------------------
(* Authorization receipts *)

(* authorization_receipt_action_matches_event.  model.published is checked   *)
(* by no validator, so it has no entry.                                      *)
ActionOf(type) ==
    CASE type = "catalog.config-read"               -> {"catalog-config"}
      [] type = "credentials.vend-attempted"        -> {"credentials-vend"}
      [] type = "namespace.created"                 -> {"namespace-create"}
      [] type = "namespace.dropped"                 -> {"namespace-drop"}
      [] type = "namespace.listed"                  -> {"namespace-list"}
      [] type = "namespace.loaded"                  -> {"namespace-load"}
      [] type = "namespace.properties-updated"      -> {"namespace-update"}
      [] type \in {"policy-binding.listed", "policy-binding.upserted"}   -> {"policy-manage"}
      [] type \in {"project.listed", "project.upserted"}                 -> {"project-manage"}
      [] type = "querygraph.bootstrap"              -> {"graph-read"}
      [] type \in {"server.listed", "server.upserted"}                   -> {"server-manage"}
      [] type \in {"storage-profile.listed", "storage-profile.upserted"} -> {"storage-profile-manage"}
      [] type = "table.commit"                      -> {"table-commit"}
      [] type \in {"table.commits-listed", "table.loaded"}               -> {"table-load"}
      [] type = "table.created"                     -> {"table-create"}
      [] type = "table.registered"                  -> {"table-register"}
      [] type = "table.renamed"                     -> {"table-rename"}
      [] type = "table.deleted"                     -> {"table-drop"}
      [] type = "table.restored"                    -> {"table-restore"}
      [] type \in {"table.scan-planned", "table.scan-tasks-fetched"}     -> {"table-plan-scan"}
      [] type = "view.dropped"                      -> {"view-drop"}
      [] type \in {"view.listed", "view.loaded", "view.version-receipts-listed",
                   "view.version-receipt-chains-listed"}                 -> {"view-load"}
      [] type = "view.upserted"                     -> {"view-manage"}
      [] type \in {"warehouse.listed", "warehouse.upserted"}             -> {"warehouse-manage"}
      [] OTHER                                      -> {}

(* Principal, action, decision, engine and time of the receipt. *)
ReceiptDecides(event) ==
    LET payload == Inner(event) receipt == payload["authorization-receipt"]
    IN  /\ Given(payload, "authorization-receipt")
        /\ Given(receipt, "principal")
        /\ receipt["action"] \in ActionOf(event.type)
        /\ receipt["allowed"]
        /\ Given(receipt, "engine") /\ Given(receipt, "checked_at")

(* The same, with the closed schemas of the receipt and its context. *)
ReceiptValid(event) ==
    LET receipt == Inner(event)["authorization-receipt"]
    IN  /\ ReceiptDecides(event)
        /\ Closed(receipt, {"principal", "action", "table", "allowed", "engine",
                            "policy_hash", "context", "request-identity", "checked_at"})
        /\ Closed(receipt["context"],
                  {"warehouse", "policy-bindings", "destination-table",
                   "destination-policy-bindings", "read-restriction",
                   "lakecat:raw-credential-exception", "request-identity"})

(* A field of the context of the receipt, and one of the payload, as an       *)
(* Option: a set with at most one element.                                    *)
InContext(payload, field) ==
    LET context == payload["authorization-receipt"]["context"]
    IN  {context[field] : f \in {field} \cap DOMAIN context}

InPayload(payload, field) == {payload[field] : f \in {field} \cap DOMAIN payload}

-----------------------------------------------------------------------------
(* Read restrictions *)

(* validate_read_restriction_policy_hashes: checked when the field is there. *)
HashesValid(restriction) ==
    Has(restriction, "policy-hashes") =>
        /\ restriction["policy-hashes"] # << >>
        /\ Distinct(restriction["policy-hashes"])

RestrictionSchema(restriction) ==
    /\ Closed(restriction, {"allowed-columns", "row-predicate", "purpose",
                            "policy-hashes", "max-credential-ttl-seconds"})
    /\ Has(restriction, "row-predicate") =>
           Closed(restriction["row-predicate"], {"type", "term", "value"})

PurposeAndTtl(restriction) ==
    /\ Given(restriction, "purpose")
    /\ Given(restriction, "max-credential-ttl-seconds")
    /\ restriction["max-credential-ttl-seconds"] > 0

(* The restriction of the payload is the one the receipt decided under. *)
RestrictionMatchesReceipt(payload) ==
    InPayload(payload, "read-restriction") = InContext(payload, "read-restriction")

(* What was read stays inside the columns that the restriction allows. *)
WithinAllowedColumns(payload, restriction) ==
    Has(restriction, "allowed-columns") =>
        /\ restriction["allowed-columns"] # << >>
        /\ Elements(payload["effective-projection"])
               \subseteq Elements(restriction["allowed-columns"])
        /\ Elements(payload["effective-stats-fields"])
               \subseteq Elements(restriction["allowed-columns"])

(* What a scan event adds: hashes and a row predicate are required. *)
ScanRestriction(payload) ==
    \A restriction \in InPayload(payload, "read-restriction") :
        /\ RestrictionSchema(restriction)
        /\ Has(restriction, "policy-hashes") /\ HashesValid(restriction)
        /\ Has(restriction, "row-predicate")
        /\ Has(restriction["row-predicate"], "term")
        /\ PurposeAndTtl(restriction)
        /\ WithinAllowedColumns(payload, restriction)

(* required-filters repeats exactly the row predicate of the restriction. *)
FiltersMatch(payload) ==
    /\ Has(payload, "required-filters")
    /\ payload["required-filters"] =
           IF Has(payload, "read-restriction")
           THEN <<payload["read-restriction"]["row-predicate"]>>
           ELSE << >>

(* A required array of strings: there, not empty, without repetition. *)
Listed(payload, field) ==
    Has(payload, field) /\ payload[field] # << >> /\ Distinct(payload[field])

(* validate_optional_location_evidence: absent is fine and null is not. *)
LocationValid(object, field) == Has(object, field) => object[field] # Null

-----------------------------------------------------------------------------
(* Tables *)

(* The identity hints of the payload repeat the table of the row. *)
ScopeMatches(event) ==
    LET payload == Inner(event)
    IN  /\ Given(event.body, "table")
        /\ Has(payload, "table") => payload["table"] \in
               {event.body["table"], event.body["table"]["name"]}
        /\ Has(payload, "warehouse") =>
               payload["warehouse"] = event.body["table"]["warehouse"]
        /\ Has(payload, "namespace") =>
               payload["namespace"] = event.body["table"]["namespace"]

CommitFields ==
    {"table", "previous_metadata_location", "new_metadata_location", "sequence_number",
     "principal", "format_version", "snapshot_id", "policy_hash", "request_hash",
     "response_hash", "idempotency_key_sha256", "committed_at"}

CommitValid(event) ==
    LET payload == Inner(event) commit == payload["commit"]
    IN  /\ OuterClosed(event, TableOuter)
        /\ Closed(payload, {"audit-event-id", "event-type", "authorization-receipt",
                            "warehouse", "namespace", "table", "commit"})
        /\ Given(payload, "commit")
        /\ Closed(commit, CommitFields)
        /\ ScopeMatches(event)
        /\ commit["table"] = event.body["table"]
        /\ ReceiptDecides(event)
        /\ commit["principal"] = payload["authorization-receipt"]["principal"]
        /\ commit["sequence_number"] > 0
        /\ commit["format_version"] > 0
        /\ commit["snapshot_id"] >= 0
        /\ Given(commit, "new_metadata_location")
        /\ LocationValid(commit, "previous_metadata_location")

HistoryValid(event) ==
    LET payload == Inner(event) numbers == payload["sequence-numbers"]
    IN  /\ OuterClosed(event, TableOuter)
        /\ Closed(payload, {"event-type", "authorization-receipt", "warehouse",
                            "namespace", "table", "commit-count", "commit-hashes",
                            "sequence-numbers", "principal-subject", "principal-kind"})
        /\ ScopeMatches(event) /\ Has(payload, "table")
        /\ ReceiptDecides(event)
        /\ Distinct(payload["commit-hashes"])
        /\ \A i \in DOMAIN numbers : numbers[i] > 0
        /\ \A i, j \in DOMAIN numbers : i < j => numbers[i] < numbers[j]
        /\ payload["commit-count"] = Len(payload["commit-hashes"])
        /\ payload["commit-count"] = Len(numbers)
        /\ [subject |-> payload["principal-subject"], kind |-> payload["principal-kind"]]
               = payload["authorization-receipt"]["principal"]

LifecycleOuter == {"audit-event-id", "event-type", "table", "soft-delete", "payload"}

SoftDeleteFields ==
    {"table", "metadata-location", "version", "format-version", "principal",
     "authorization-receipt", "deleted-at"}

LifecycleValid(event) ==
    LET payload == Inner(event)
        deletes == InPayload(IF Has(payload, "soft-delete") THEN payload ELSE event.body,
                             "soft-delete")
    IN  /\ OuterClosed(event, LifecycleOuter)
        /\ Closed(payload, {"audit-event-id", "event-type", "authorization-receipt",
                            "warehouse", "namespace", "table", "metadata-location",
                            "location", "format-version", "version", "soft-delete",
                            "metadata-graph"})
        /\ ScopeMatches(event)
        /\ ReceiptValid(event)
        /\ event.type # "table.deleted" =>
               Given(payload, "format-version") /\ Given(payload, "version")
        /\ event.type = "table.deleted" => deletes # {}
        /\ \A delete \in deletes :
               /\ Closed(delete, SoftDeleteFields)
               /\ delete["table"] = event.body["table"]
               /\ Given(delete, "version") /\ Given(delete, "format-version")
               /\ LocationValid(delete, "metadata-location")
        /\ LocationValid(payload, "metadata-location")
        /\ LocationValid(payload, "location")

RenameValid(event) ==
    LET payload == Inner(event) receipt == payload["authorization-receipt"]
    IN  /\ OuterClosed(event, TableOuter)
        /\ Closed(payload, {"event-type", "table", "source", "destination",
                            "authorization-receipt", "metadata-location",
                            "format-version", "version"})
        /\ event.body["table"] = payload["destination"]
        /\ payload["table"] = payload["destination"]
        /\ payload["source"] # payload["destination"]
        /\ payload["source"]["warehouse"] = payload["destination"]["warehouse"]
        /\ ReceiptValid(event)
        /\ receipt["table"] = payload["source"]
        /\ receipt["context"]["destination-table"] = payload["destination"]
        /\ Given(payload, "format-version") /\ Given(payload, "version")
        /\ LocationValid(payload, "metadata-location")

ScanPlannedFields ==
    {"event-type", "table", "authorization-receipt", "planned-by", "snapshot-id",
     "plan-task", "scan-task-count", "storage-location", "metadata-location",
     "read-restriction", "requested-projection", "effective-projection",
     "requested-stats-fields", "effective-stats-fields", "required-projection",
     "required-filters"}

ScanPlannedValid(event) ==
    LET payload == Inner(event)
    IN  /\ OuterClosed(event, TableOuter)
        /\ Closed(payload, ScanPlannedFields)
        /\ ScopeMatches(event) /\ Has(payload, "table")
        /\ Given(payload, "scan-task-count")
        /\ ReceiptValid(event)
        /\ LocationValid(payload, "storage-location")
        /\ LocationValid(payload, "metadata-location")
        /\ \A field \in {"requested-projection", "effective-projection",
                         "requested-stats-fields", "effective-stats-fields"} :
               Listed(payload, field)
        /\ Elements(payload["effective-projection"])
               \subseteq Elements(payload["requested-projection"])
        /\ Elements(payload["effective-stats-fields"])
               \subseteq Elements(payload["requested-stats-fields"])
        /\ RestrictionMatchesReceipt(payload)
        /\ ScanRestriction(payload)
        /\ Has(payload, "read-restriction") \/ Has(payload, "required-filters")
               => FiltersMatch(payload)

TasksFetchedValid(event) ==
    LET payload == Inner(event)
    IN  /\ OuterClosed(event, TableOuter)
        /\ Closed(payload, (ScanPlannedFields \ {"scan-task-count", "requested-projection"})
                           \cup {"file-scan-task-count", "delete-file-count",
                                 "child-plan-task-count", "stats-fields"})
        /\ ScopeMatches(event) /\ Has(payload, "table")
        /\ ReceiptValid(event)
        /\ \A field \in {"file-scan-task-count", "delete-file-count",
                         "child-plan-task-count"} : Given(payload, field)
        /\ LocationValid(payload, "storage-location")
        /\ LocationValid(payload, "metadata-location")
        /\ \A field \in {"required-projection", "effective-projection",
                         "requested-stats-fields", "effective-stats-fields"} :
               Listed(payload, field)
        /\ Elements(payload["effective-projection"]) = Elements(payload["required-projection"])
        /\ Elements(payload["effective-stats-fields"])
               = Elements(payload["requested-stats-fields"])
        /\ RestrictionMatchesReceipt(payload)
        /\ ScanRestriction(payload)
        /\ FiltersMatch(payload)

-----------------------------------------------------------------------------
(* Credentials and storage profiles *)

(* Provider, issuance mode and secret reference of a profile agree. *)
ProfileValid(profile) ==
    /\ Closed(profile, {"profile-id", "warehouse", "location-prefix-hash", "provider",
                        "issuance-mode", "secret-ref-present", "public-config",
                        "secret-ref-provider", "secret-ref-hash"})
    /\ Given(profile, "location-prefix-hash")
    /\ profile["secret-ref-present"] = Given(profile, "secret-ref-provider")
    /\ profile["secret-ref-present"] = Given(profile, "secret-ref-hash")
    /\ profile["secret-ref-present"] = (profile["issuance-mode"] = "short-lived-secret-ref")
    /\ profile["issuance-mode"] = "local-file-no-secret" => profile["provider"] = "file"
    /\ profile["issuance-mode"] = "short-lived-secret-ref" =>
           profile["provider"] \in {"s3", "gcs", "azure"}

(* validate_storage_profile_id_evidence: one path segment.  The id of a       *)
(* profile inferred for a warehouse, "warehouse:provider", is none.           *)
ProfileIdValid(id) == id.kind = "segment"

BlockReasonValid(payload) ==
    LET reasons == InPayload(payload, "lakecat:credential-block-reason")
    IN  IF Has(payload, "lakecat:raw-credential-exception")
        THEN IF payload["lakecat:raw-credential-exception"]["allowed"]
             THEN reasons \subseteq {Null}
             ELSE /\ payload["credential-count"] = 0
                  /\ reasons = {payload["lakecat:raw-credential-exception"]["reason"]}
        ELSE reasons # {} => payload["credential-count"] = 0 /\ Null \notin reasons

(* validate_credential_response_entry_evidence *)
EntryValid(payload, profile, entry) ==
    LET restrictions == InPayload(payload, "read-restriction")
        ttls == {r["max-credential-ttl-seconds"] :
                     r \in {q \in restrictions : Has(q, "max-credential-ttl-seconds")}}
    IN  /\ Closed(entry, {"prefix-hash", "storage-profile-id", "storage-provider",
                          "credential-mode", "authorization-principal",
                          "governed-read-required", "max-credential-ttl-seconds",
                          "secret-ref-provider", "secret-ref-hash",
                          "issuer-config-entry-count", "issuer-config-hash",
                          "catalog-profile-id", "receipt-principal"})
        /\ entry["storage-profile-id"] = profile["profile-id"]
        /\ entry["catalog-profile-id"] = profile["profile-id"]
        /\ entry["storage-provider"] = profile["provider"]
        /\ entry["credential-mode"] = profile["issuance-mode"]
        /\ entry["authorization-principal"] =
               payload["authorization-receipt"]["principal"].subject
        /\ entry["receipt-principal"] = entry["authorization-principal"]
        /\ entry["governed-read-required"] = (restrictions # {})
        /\ \A field \in {"secret-ref-provider", "secret-ref-hash"} :
               entry[field] = IF profile["secret-ref-present"] THEN profile[field] ELSE Null
        /\ IF ttls = {} THEN entry["max-credential-ttl-seconds"] = Null
           ELSE entry["max-credential-ttl-seconds"] \in ttls

(* The exception of the payload is the one the receipt decided about. *)
ExceptionValid(payload) ==
    /\ InPayload(payload, "lakecat:raw-credential-exception")
           = InContext(payload, "lakecat:raw-credential-exception")
    /\ \A exception \in InPayload(payload, "lakecat:raw-credential-exception") :
           Closed(exception, {"requested", "allowed", "reason"})

VendValid(event) ==
    LET payload == Inner(event) entries == payload["credential-response-evidence"]
        profile == payload["storage-profile"]
    IN  /\ OuterClosed(event, TableOuter)
        /\ Closed(payload, {"audit-event-id", "event-type", "table",
                            "authorization-receipt", "storage-location",
                            "storage-profile-id", "storage-profile", "secret-ref-present",
                            "credential-count", "credential-response-evidence", "mode",
                            "read-restriction", "lakecat:raw-credential-exception",
                            "lakecat:credential-block-reason"})
        /\ \A r \in InPayload(payload, "read-restriction") :
               RestrictionSchema(r) /\ HashesValid(r) /\ PurposeAndTtl(r)
        /\ RestrictionMatchesReceipt(payload)
        /\ ExceptionValid(payload)
        /\ ReceiptValid(event)
        /\ ScopeMatches(event)
        /\ payload["credential-count"] = Len(entries)
        /\ BlockReasonValid(payload)
        /\ ProfileValid(profile)
        /\ LocationValid(payload, "storage-location")
        /\ ProfileIdValid(profile["profile-id"])
        /\ profile["warehouse"] = event.body["table"]["warehouse"]
        /\ payload["storage-profile-id"] = profile["profile-id"]
        /\ payload["mode"] = profile["issuance-mode"]
        /\ \A i \in DOMAIN entries : EntryValid(payload, profile, entries[i])
        /\ \A i, j \in DOMAIN entries :
               entries[i]["prefix-hash"] = entries[j]["prefix-hash"] => i = j
        /\ payload["secret-ref-present"] = profile["secret-ref-present"]

-----------------------------------------------------------------------------
(* The management hierarchy *)

(* One row per kind of record: the fields of the payload, the field that      *)
(* holds the record, the fields of the record, and the identifier that        *)
(* payload and record both carry.                                             *)
UpsertRule(type) ==
    CASE type = "server.upserted" ->
           [fields |-> {"event-type", "authorization-receipt", "server-id", "server-record"},
            record |-> "server-record", id |-> "server-id",
            closed |-> {"server-id", "display-name", "endpoint-url",
                        "endpoint-url-hash", "properties"}]
      [] type = "project.upserted" ->
           [fields |-> {"event-type", "authorization-receipt", "project-id", "project-record"},
            record |-> "project-record", id |-> "project-id",
            closed |-> {"project-id", "server-id", "display-name", "properties"}]
      [] type = "warehouse.upserted" ->
           [fields |-> {"event-type", "authorization-receipt", "project-id", "warehouse",
                        "warehouse-record"},
            record |-> "warehouse-record", id |-> "warehouse",
            closed |-> {"warehouse", "project-id", "storage-root",
                        "storage-root-hash", "properties"}]
      [] type = "storage-profile.upserted" ->
           [fields |-> {"event-type", "authorization-receipt", "warehouse", "storage-profile"},
            record |-> "storage-profile", id |-> "warehouse",
            closed |-> {"profile-id", "warehouse", "location-prefix-hash", "provider",
                        "issuance-mode", "secret-ref-present", "public-config",
                        "secret-ref-provider", "secret-ref-hash"}]
      [] type = "policy-binding.upserted" ->
           [fields |-> {"event-type", "authorization-receipt", "warehouse", "policy"},
            record |-> "policy", id |-> "warehouse",
            closed |-> {"policy-id", "warehouse", "namespace", "table", "enforced",
                        "odrl", "odrl-hash"}]
      [] type \in {"view.upserted", "view.loaded", "view.dropped"} ->
           [fields |-> {"event-type", "interface", "authorization-receipt", "warehouse",
                        "namespace", "view", "expected-view-version"},
            record |-> "view", id |-> "warehouse",
            closed |-> {"warehouse", "namespace", "name", "view-version", "sql", "dialect",
                        "schema-version", "columns", "properties"}]

(* A raw endpoint or storage root is only there with the digest of its value. *)
DigestBound(record, field, digest) ==
    Given(record, field) => Given(record, digest) /\ record[digest] = <<"digest", record[field]>>

ServerRecordValid(record) == DigestBound(record, "endpoint-url", "endpoint-url-hash")

ProjectRecordValid(record) == Has(record, "server-id") => record["server-id"] # ""

WarehouseRecordValid(payload, record) ==
    /\ Has(payload, "project-id") => payload["project-id"] = record["project-id"]
    /\ DigestBound(record, "storage-root", "storage-root-hash")

ProfileRecordValid(record) == ProfileValid(record) /\ ProfileIdValid(record["profile-id"])

PolicyRecordValid(record) == record["odrl-hash"] = <<"digest", record["odrl"]>>

ViewRecordValid(payload, record) ==
    /\ record["view-version"] > 0
    /\ Has(payload, "namespace") => payload["namespace"] = record["namespace"]
    /\ Given(payload, "expected-view-version") => payload["expected-view-version"] > 0

UpsertValid(event) ==
    LET payload == Inner(event) rule == UpsertRule(event.type)
        record == payload[rule.record]
    IN  /\ OuterClosed(event, PlainOuter)
        /\ Closed(payload, rule.fields)
        /\ Has(payload, rule.record)
        /\ Closed(record, rule.closed)
        /\ Given(record, rule.id)
        /\ Has(payload, rule.id) => payload[rule.id] = record[rule.id]
        /\ rule.record = "server-record" => ServerRecordValid(record)
        /\ rule.record = "project-record" => ProjectRecordValid(record)
        /\ rule.record = "warehouse-record" => WarehouseRecordValid(payload, record)
        /\ rule.record = "storage-profile" => ProfileRecordValid(record)
        /\ rule.record = "policy" => PolicyRecordValid(record)
        /\ rule.record = "view" => ViewRecordValid(payload, record)
        /\ ReceiptValid(event)

(* One row per listing: its count, its list and its other fields. *)
ListRule(type) ==
    CASE type = "namespace.listed"   -> [count |-> "namespace-count", list |-> "namespace-paths",
                                         other |-> {"warehouse"}]
      [] type = "view.listed"        -> [count |-> "view-count", list |-> "view-names",
                                         other |-> {"warehouse", "namespace", "interface"}]
      [] type = "policy-binding.listed"  -> [count |-> "policy-count", list |-> "policy-ids",
                                             other |-> {"warehouse"}]
      [] type = "project.listed"     -> [count |-> "project-count", list |-> "project-ids",
                                         other |-> {}]
      [] type = "server.listed"      -> [count |-> "server-count", list |-> "server-ids",
                                         other |-> {}]
      [] type = "storage-profile.listed" -> [count |-> "storage-profile-count",
                                             list |-> "storage-profile-ids",
                                             other |-> {"warehouse"}]
      [] type = "warehouse.listed"   -> [count |-> "warehouse-count", list |-> "warehouse-names",
                                         other |-> {"project-id"}]

ListValid(event) ==
    LET payload == Inner(event) rule == ListRule(event.type)
    IN  /\ OuterClosed(event, PlainOuter)
        /\ Closed(payload, {"event-type", "authorization-receipt", rule.count, rule.list}
                           \cup rule.other)
        /\ "warehouse" \in rule.other => Given(payload, "warehouse")
        /\ payload[rule.count] = Len(payload[rule.list])
        /\ Distinct(payload[rule.list])
        /\ ReceiptValid(event)

NamespaceLifecycleValid(event) ==
    LET payload == Inner(event)
    IN  /\ OuterClosed(event, PlainOuter)
        /\ Closed(payload, {"event-type", "authorization-receipt", "warehouse", "namespace"})
        /\ Given(payload, "warehouse")
        /\ Given(payload, "namespace") /\ payload["namespace"] # << >>
        /\ ReceiptValid(event)

(* The tenant records of a configuration answer, each with its own schema. *)
TenantRecordsValid(payload) ==
    \A type \in {"server.upserted", "project.upserted", "warehouse.upserted"} :
        \A record \in InPayload(payload, UpsertRule(type).record) :
            /\ Closed(record, UpsertRule(type).closed)
            /\ DigestBound(record, "endpoint-url", "endpoint-url-hash")
            /\ DigestBound(record, "storage-root", "storage-root-hash")

ConfigReadValid(event) ==
    LET payload == Inner(event)
    IN  /\ OuterClosed(event, PlainOuter)
        /\ Closed(payload, {"audit-event-id", "event-type", "authorization-receipt",
                            "warehouse", "defaults", "overrides", "endpoints",
                            "warehouse-record", "project-record", "server-record"})
        /\ Given(payload, "warehouse")
        /\ ReceiptValid(event)
        /\ TenantRecordsValid(payload)

-----------------------------------------------------------------------------
(* View receipts and the QueryGraph bootstrap *)

(* view_version_receipt_chain_verified. *)
ChainVerified(chain) ==
    /\ chain # << >>
    /\ \A i \in DOMAIN chain :
           IF i = 1
           THEN /\ chain[1].operation = "upsert" /\ chain[1].version = 1
                /\ chain[1].previous = Null
           ELSE /\ chain[i].previous = chain[i - 1].hash
                /\ chain[i].version = IF chain[i].operation = "upsert"
                                      THEN chain[i - 1].version + 1
                                      ELSE chain[i - 1].version

(* One chain of a listing, walked again from its evidence. *)
ChainValid(chain) ==
    /\ Closed(chain, {"stable-id", "warehouse", "namespace", "name", "chain-hash",
                      "chain-verified", "latest-view-version", "latest-operation",
                      "tombstoned", "receipt-count", "receipts"})
    /\ chain["chain-verified"]
    /\ ChainVerified(chain["receipts"])
    /\ chain["receipt-count"] = Len(chain["receipts"])

ReceiptListValid(event) ==
    LET payload == Inner(event)
    IN  /\ OuterClosed(event, PlainOuter)
        /\ Closed(payload, {"event-type", "authorization-receipt", "warehouse", "namespace",
                            "view", "receipt-count", "receipt-hashes", "drop-receipt-hashes"})
        /\ \A field \in {"warehouse", "namespace", "view"} : Given(payload, field)
        /\ ReceiptValid(event)
        /\ Distinct(payload["receipt-hashes"])
        /\ Distinct(payload["drop-receipt-hashes"])
        /\ payload["receipt-count"] = Len(payload["receipt-hashes"])
        /\ Elements(payload["drop-receipt-hashes"]) \subseteq Elements(payload["receipt-hashes"])

ChainListValid(event) ==
    LET payload == Inner(event)
        chains  == payload["view-version-receipt-chains"]
        listed  == UNION {Elements(chains[i]["receipts"]) : i \in DOMAIN chains}
    IN  /\ OuterClosed(event, PlainOuter)
        /\ Closed(payload, {"event-type", "authorization-receipt", "warehouse", "namespace",
                            "chain-count", "receipt-count", "tombstone-count",
                            "chain-verified-count", "view-version-receipt-chains",
                            "chain-hashes", "receipt-hashes", "drop-receipt-hashes"})
        /\ ReceiptValid(event)
        /\ payload["chain-count"] = Len(chains)
        /\ \A i \in DOMAIN chains : ChainValid(chains[i])
        /\ payload["chain-verified-count"] = Len(chains)
        /\ payload["tombstone-count"] =
               Cardinality({i \in DOMAIN chains : chains[i]["tombstoned"]})
        /\ payload["receipt-count"] = Cardinality(listed)
        /\ Distinct(payload["receipt-hashes"]) /\ Distinct(payload["drop-receipt-hashes"])
        /\ Elements(payload["receipt-hashes"]) = {r.hash : r \in listed}
        /\ Elements(payload["drop-receipt-hashes"]) =
               {r.hash : r \in {q \in listed : q.operation = "drop"}}

(* The artifacts are those of the verified tables and views. *)
ArtifactsValid(payload) ==
    /\ Elements(payload["table-artifacts"]) = Elements(payload["verified-tables"])
    /\ Elements(payload["view-artifacts"]) = Elements(payload["verified-views"])

(* One receipt, with a positive version, for every verified view. *)
ViewReceiptsValid(payload) ==
    LET receipts == payload["view-version-receipts"]
    IN  /\ Len(receipts) = payload["view-count"]
        /\ {receipts[i].view : i \in DOMAIN receipts} = Elements(payload["verified-views"])
        /\ \A i \in DOMAIN receipts : receipts[i].version > 0

BootstrapValid(event) ==
    LET payload == Inner(event)
    IN  /\ OuterClosed(event, PlainOuter)
        /\ Closed(payload, {"audit-event-id", "event-type", "authorization-receipt",
                            "warehouse", "table-count", "view-count",
                            "policy-binding-count", "verified-tables", "verified-views",
                            "verified-view-versions", "view-version-receipts",
                            "bundle-hash", "graph-hash", "open-lineage-hash",
                            "querygraph-import-hash", "table-artifacts",
                            "view-artifacts", "standards"})
        /\ Given(payload, "warehouse")
        /\ ReceiptValid(event)
        /\ Distinct(payload["verified-tables"]) /\ Distinct(payload["verified-views"])
        /\ payload["table-count"] = Len(payload["verified-tables"])
        /\ payload["view-count"] = Len(payload["verified-views"])
        /\ ArtifactsValid(payload)
        /\ ViewReceiptsValid(payload)

-----------------------------------------------------------------------------
(* validate_outbox_event_evidence *)
Accepted(event) ==
    LET type == event.type payload == Inner(event)
    IN  /\ type \in KnownTypes
        /\ TypeBound(event)
        /\ \A r \in InPayload(payload, "read-restriction") : HashesValid(r)
        /\ type = "table.commit"             => CommitValid(event)
        /\ type = "table.commits-listed"     => HistoryValid(event)
        /\ type = "table.scan-planned"       => ScanPlannedValid(event)
        /\ type = "table.scan-tasks-fetched" => TasksFetchedValid(event)
        /\ type \in {"table.created", "table.registered", "table.loaded",
                     "table.deleted", "table.restored"} => LifecycleValid(event)
        /\ type = "table.renamed"              => RenameValid(event)
        /\ type = "credentials.vend-attempted" => VendValid(event)
        /\ type \in {"storage-profile.upserted", "policy-binding.upserted",
                     "project.upserted", "server.upserted", "warehouse.upserted",
                     "view.upserted", "view.loaded", "view.dropped"} => UpsertValid(event)
        /\ type = "catalog.config-read" => ConfigReadValid(event)
        /\ type \in {"namespace.listed", "view.listed", "policy-binding.listed",
                     "project.listed", "server.listed", "storage-profile.listed",
                     "warehouse.listed"} => ListValid(event)
        /\ type \in {"namespace.created", "namespace.dropped", "namespace.loaded",
                     "namespace.properties-updated"} => NamespaceLifecycleValid(event)
        /\ type = "view.version-receipts-listed"       => ReceiptListValid(event)
        /\ type = "view.version-receipt-chains-listed" => ChainListValid(event)
        /\ type = "querygraph.bootstrap"               => BootstrapValid(event)

=============================================================================
