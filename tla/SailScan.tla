-------------------------------- MODULE SailScan --------------------------------
(***************************************************************************)
(* Scan planning over Iceberg metadata (lakecat-sail sail_integration):    *)
(* plan tokens for a snapshot or for the appends between two snapshots,    *)
(* their later validation against the metadata of that moment, their       *)
(* expansion into file scan tasks with delete files, and the pruning of    *)
(* files by their column metrics.                                          *)
(*                                                                         *)
(* The reader plans once and fetches every token it is given, while        *)
(* writers add snapshots and expire old ones.  Files have one column; its  *)
(* values are byte strings.  What a metadata document or a manifest holds  *)
(* is given by its content, a token by its decoded fields.                 *)
(***************************************************************************)
EXTENDS Integers, FiniteSets, Sequences

CONSTANTS
    Files,        \* data files that writers may add
    Layouts,      \* what the files may hold: functions to [rows, bounds, counts]
    Filters,      \* filters, with all the filters inside them
    Depth,        \* how deep a filter is nested
    MaxDepth,     \* bound: filters inside filters
    Asked,        \* the filters the reader asks with
    MaxByte,      \* the greatest byte
    MaxSnapshots, \* bound: snapshots ever written
    Null,         \* the null value of the column
    None          \* an absent value

Bytes == Seq(0..MaxByte)
Literals == {"eq", "not-eq", "lt", "lt-eq", "gt", "gt-eq", "starts-with", "not-starts-with"}

\* The filters directly inside a filter.
Inside(f) == CASE f.type \in {"and", "or"} -> {f.left, f.right}
               [] f.type = "not"           -> {f.child}
               [] OTHER                    -> {}

ASSUME BoundsAssumption == MaxByte \in Nat /\ MaxSnapshots \in Nat /\ MaxDepth \in Nat

ASSUME SentinelAssumption ==
    /\ Null \notin Bytes /\ None \notin Bytes
    /\ None \notin Nat /\ None \notin Files
    /\ \A n \in 1..MaxSnapshots : <<"deletes", n>> \notin Files

ASSUME LayoutAssumption ==
    \A layout \in Layouts, f \in Files :
       /\ layout[f].rows \subseteq Bytes \cup {Null} /\ IsFiniteSet(layout[f].rows)
       /\ layout[f].bounds \in BOOLEAN /\ layout[f].counts \in BOOLEAN

\* A filter is a finite tree of the known types.
ASSUME FilterAssumption ==
    /\ Asked \subseteq Filters
    /\ Depth \in [Filters -> 0..MaxDepth]
    /\ \A f \in Filters :
          /\ f.type \in Literals \cup {"true", "false", "and", "or", "not", "in", "not-in",
                                       "is-null", "not-null"}
          /\ f.type \in Literals => f.value \in Bytes
          /\ f.type \in {"in", "not-in"} => f.values \subseteq Bytes
          /\ \A g \in Inside(f) : g \in Filters /\ Depth[g] < Depth[f]

VARIABLES
    format,       \* "v1": snapshots list manifests; "v2": they name a manifest list; "v4"
    local,        \* whether metadata and manifests are on the local file system
    content,      \* one of Layouts; bounds and counts say which metrics are present
    snaps,        \* every snapshot ever written: [parent, op, manifests, did]
    kept,         \* the snapshots the table metadata still lists
    current,      \* the current snapshot, 0 when there is none
    scan          \* the reader: [request, todo, read], read by whether a list was expanded

vars == <<format, local, content, snaps, kept, current, scan>>
table == <<format, local, content, snaps, kept, current>>

-----------------------------------------------------------------------------
(* Metrics and filters *)

IsPrefix(s, t) == Len(s) <= Len(t) /\ \A i \in 1..Len(s) : s[i] = t[i]

\* Byte strings are compared at the first place where they differ.
Before(s, t) ==
    \E i \in 1..Len(t) :
       /\ \A j \in 1..(i - 1) : j <= Len(s) /\ s[j] = t[j]
       /\ i = Len(s) + 1 \/ (i <= Len(s) /\ s[i] < t[i])
AtMost(s, t) == s = t \/ Before(s, t)

Values(d) == d.rows \ {Null}
Lower(d) == IF d.bounds /\ Values(d) # {}
            THEN CHOOSE v \in Values(d) : \A w \in Values(d) : AtMost(v, w) ELSE None
Upper(d) == IF d.bounds /\ Values(d) # {}
            THEN CHOOSE v \in Values(d) : \A w \in Values(d) : AtMost(w, v) ELSE None
RecordCount(d) == Cardinality(d.rows)

\* null_value_counts.get(..).unwrap_or(0)
NullCount(d) == IF d.counts /\ Null \in d.rows THEN 1 ELSE 0

\* The single value the bounds leave, if they are equal.
ExactValue(d) == IF Lower(d) # None /\ Lower(d) = Upper(d) THEN Lower(d) ELSE None

\* The least string above every string with this prefix, if there is one.
\* (The code also gives up where that string is not UTF-8; it then keeps the
\* file, so the definition prunes at least as much as the code.)
NextPrefix(p) ==
    LET open == {i \in DOMAIN p : p[i] # MaxByte} IN
    IF open = {} THEN None
    ELSE LET i == CHOOSE i \in open : \A j \in open : j <= i
         IN  Append(SubSeq(p, 1, i - 1), p[i] + 1)

OverlapsBounds(v, d) ==
    /\ Lower(d) = None \/ AtMost(Lower(d), v)
    /\ Upper(d) = None \/ AtMost(v, Upper(d))

\* A variant that looks for the prefix itself between the bounds.
PrefixAsValue(p, d) == OverlapsBounds(p, d)

PrefixOverlapsBounds(p, d) ==
    /\ Upper(d) = None \/ ~Before(Upper(d), p)
    /\ NextPrefix(p) = None \/ Lower(d) = None \/ Before(Lower(d), NextPrefix(p))

LiteralMayMatch(d, op, v) ==
    CASE op = "eq"              -> OverlapsBounds(v, d)
      [] op = "not-eq"          -> ExactValue(d) # v
      [] op = "lt"              -> Lower(d) = None \/ Before(Lower(d), v)
      [] op = "lt-eq"           -> Lower(d) = None \/ AtMost(Lower(d), v)
      [] op = "gt"              -> Upper(d) = None \/ Before(v, Upper(d))
      [] op = "gt-eq"           -> Upper(d) = None \/ AtMost(v, Upper(d))
      [] op = "starts-with"     -> PrefixOverlapsBounds(v, d)
      [] op = "not-starts-with" -> ExactValue(d) = None \/ ~IsPrefix(v, ExactValue(d))
      [] OTHER                  -> TRUE

\* What data_file_may_match_filter says of a filter, given what it says of
\* the filters inside it.
MayMatchStep(d, may, f) ==
    CASE f.type = "false"    -> FALSE
      [] f.type = "and"      -> may[f.left] /\ may[f.right]
      [] f.type = "or"       -> may[f.left] \/ may[f.right]
      [] f.type = "in"       -> \E v \in f.values : LiteralMayMatch(d, "eq", v)
      [] f.type = "not-in"   -> ExactValue(d) = None \/ ExactValue(d) \notin f.values
      [] f.type \in Literals -> LiteralMayMatch(d, f.type, f.value)
      [] f.type = "is-null"  -> NullCount(d) > 0
      [] f.type = "not-null" -> NullCount(d) < RecordCount(d)
      [] OTHER               -> TRUE

MayMatch(d, f) == LET may[g \in Filters] == MayMatchStep(d, may, g) IN may[f]

MayMatchAll(d, fs) == \A f \in fs : MayMatch(d, f)

-----------------------------------------------------------------------------
(* What a filter means for a row: a reference definition, with the three   *)
(* truth values of SQL, that the pruning is compared with.                 *)

Compare(row, f) ==
    CASE f.type = "in"              -> row \in f.values
      [] f.type = "not-in"          -> row \notin f.values
      [] f.type = "eq"              -> row = f.value
      [] f.type = "not-eq"          -> row # f.value
      [] f.type = "lt"              -> Before(row, f.value)
      [] f.type = "lt-eq"           -> AtMost(row, f.value)
      [] f.type = "gt"              -> Before(f.value, row)
      [] f.type = "gt-eq"           -> AtMost(f.value, row)
      [] f.type = "starts-with"     -> IsPrefix(f.value, row)
      [] f.type = "not-starts-with" -> ~IsPrefix(f.value, row)

Known(b) == IF b THEN "true" ELSE "false"
Not(v) == CASE v = "true" -> "false" [] v = "false" -> "true" [] OTHER -> v
And(v, w) == IF v = "false" \/ w = "false" THEN "false"
             ELSE IF v = "true" /\ w = "true" THEN "true" ELSE "unknown"
Or(v, w) == Not(And(Not(v), Not(w)))

MeaningStep(row, is, f) ==
    CASE f.type = "true"     -> "true"
      [] f.type = "false"    -> "false"
      [] f.type = "and"      -> And(is[f.left], is[f.right])
      [] f.type = "or"       -> Or(is[f.left], is[f.right])
      [] f.type = "not"      -> Not(is[f.child])
      [] f.type = "is-null"  -> Known(row = Null)
      [] f.type = "not-null" -> Known(row # Null)
      [] OTHER               -> IF row = Null THEN "unknown" ELSE Known(Compare(row, f))

Meaning(row, f) == LET is[g \in Filters] == MeaningStep(row, is, g) IN is[f]

HasMatchingRow(d, fs) == \E row \in d.rows : \A f \in fs : Meaning(row, f) = "true"

-----------------------------------------------------------------------------
(* Snapshots, manifests and the reader's tokens *)

Typed == format # "v4"

\* A variant without sequence numbers of its own for a carried entry.
ManifestSequence(m, e) == m.seq

\* A manifest entry's sequence number, inherited when it has none of its own.
SequenceOf(m, e) == IF e.seq = None THEN m.seq ELSE e.seq

\* The entries of a manifest that are not tombstones.
Live(m) ==
    {[file |-> e.file, target |-> e.target, seq |-> SequenceOf(m, e)] :
        e \in {e \in m.entries : e.status \in {"added", "existing"}}}

\* What expand_manifest_list_files_with_delete_refs collects from the
\* manifests of one kind.
Collected(ms, kind) == UNION {Live(m) : m \in {m \in ms : m.content = kind}}

\* Sail's DeleteFileIndex: a positional delete names its file, an equality
\* delete (target None) applies to every older file.
Applies(x, d) ==
    IF x.target = None THEN x.seq > d.seq ELSE x.target = d.file /\ x.seq >= d.seq

FileTasks(ms, fs) ==
    {[file |-> d.file, deletes |-> {x.file : x \in {y \in Collected(ms, "deletes") : Applies(y, d)}}] :
        d \in {d \in Collected(ms, "data") : MayMatchAll(content[d.file], fs)}}

Token(kind, s, path, fs) == [kind |-> kind, snap |-> s, path |-> path, filters |-> fs]

\* A v2 snapshot has a manifest list, which is named after it; a v1 snapshot
\* lists its manifests itself.  A manifest is named after its content.
ListTokens(kind, s, fs) ==
    CASE format = "v1" -> {}
      [] format = "v2" -> {Token(kind, s, s, fs)}
      [] format = "v4" -> {Token(kind, s, current, fs)}
V1Tokens(s, fs) ==
    IF format = "v1" THEN {Token("manifest", s, m, fs) : m \in snaps[s].manifests} ELSE {}

FullTokens(s, fs) == ListTokens("manifest-list", s, fs) \cup V1Tokens(s, fs)

\* A variant that expands every manifest of the list in every mode.
IncludedAlways(t) == snaps[t.snap].manifests

\* Manifests a token stands for, by expansion mode.
Included(t) ==
    {m \in snaps[t.snap].manifests : t.kind = "manifest-list" \/ m.added = t.snap}

IncrementalTokens(s, fs) ==
    (IF \E m \in snaps[s].manifests : m.added = s
     THEN ListTokens("incremental-manifest-list", s, fs) ELSE {}) \cup V1Tokens(s, fs)

\* incremental_snapshot_chain: the snapshots after start up to end.  The walk
\* along the parents has no result when it leaves the metadata before it
\* finds start, and at most one.
Chains(start, end) ==
    IF start = end THEN {{}}
    ELSE {chain \in SUBSET (kept \ {start}) :
            /\ start \in kept /\ end \in chain
            /\ \A s \in chain : snaps[s].parent \in chain \cup {start}
            /\ \A s \in chain \ {end} : \E c \in chain : snaps[c].parent = s}

\* A variant that knows manifests only from the snapshots that list them.
TokenValidByMetadata(t) ==
    /\ Typed /\ t.snap \in kept
    /\ IF t.kind = "manifest" THEN format = "v1" ELSE t.path = t.snap

\* validate_decoded_plan_task, against the metadata of the moment.
TokenValid(t) ==
    IF Typed
    THEN /\ t.snap \in kept
         /\ IF t.kind = "manifest" THEN t.path \in snaps[t.snap].manifests
            ELSE format # "v1" /\ t.path = t.snap
    ELSE t.kind = "manifest-list" /\ t.snap = current /\ t.path = current

FromList(t) == t.kind # "manifest"

\* expand_manifest_list_task: a token for every manifest, and the files.
ListExpansion(t) ==
    [tasks |-> {Token("manifest", t.snap, m, t.filters) : m \in Included(t)},
     files |-> IF Typed THEN FileTasks(Included(t), t.filters) ELSE {}]

\* expand_manifest_task: every data entry, without filters and delete files.
ManifestExpansion(t) ==
    [tasks |-> {},
     files |-> IF t.path.content = "data"
               THEN {[file |-> e.file, deletes |-> {}] : e \in t.path.entries} ELSE {}]

\* What cannot be read locally is handed back as it is.
Expansion(t) ==
    IF ~local THEN [tasks |-> {t}, files |-> {}]
    ELSE IF t.kind = "manifest" THEN ManifestExpansion(t) ELSE ListExpansion(t)

-----------------------------------------------------------------------------
Unread == [fromList \in BOOLEAN |-> {}]
NoScan == [request |-> None, todo |-> {}, read |-> Unread]

Init ==
    /\ format \in {"v1", "v2", "v4"}
    /\ local \in BOOLEAN /\ (local \/ format = "v2")
    /\ content \in Layouts
    /\ snaps = <<>> /\ kept = {} /\ current = 0
    /\ scan = NoScan

(* Writers: Iceberg engines committing through the catalog. *)

Next1 == Len(snaps) + 1
Present == IF current = 0 THEN {} ELSE snaps[current].manifests
Written == UNION {{e.file : e \in m.entries} : m \in UNION {snaps[s].manifests : s \in DOMAIN snaps}}

\* did tells what the snapshot did, for the reference definitions below.
Snapshot(op, did, manifests) ==
    /\ Len(snaps) < MaxSnapshots
    /\ snaps' = Append(snaps, [parent |-> current, op |-> op, manifests |-> manifests, did |-> did])
    /\ kept' = kept \cup {Next1} /\ current' = Next1
    /\ UNCHANGED <<format, local, content, scan>>

Manifest(kind, entries) ==
    [added |-> Next1, content |-> kind, seq |-> Next1, entries |-> entries]
Entry(f, target, status, seq) ==
    [file |-> f, target |-> target, status |-> status, seq |-> seq]
Carried(ds) == {Entry(d.file, d.target, "existing", d.seq) : d \in ds}

\* A writer appends a file in a manifest of its own.
AppendFile ==
    \E f \in Files \ Written :
        Snapshot("append", <<"add", f>>, Present \cup {Manifest("data", {Entry(f, None, "added", None)})})

\* A writer appends a file and merges the data manifests into one.
MergeAppend ==
    \E f \in Files \ Written :
        /\ current # 0
        /\ Snapshot("append", <<"merge", f>>,
              {m \in Present : m.content = "deletes"} \cup
              {Manifest("data", {Entry(f, None, "added", None)} \cup Carried(Collected(Present, "data")))})

\* A writer removes a file, leaving a tombstone in the manifest it rewrites.
RemoveFile ==
    \E m \in Present : \E e \in m.entries :
        /\ m.content = "data" /\ e.status # "deleted"
        /\ Snapshot("delete", <<"remove", e.file>>,
              (Present \ {m}) \cup
              {Manifest("data", {Entry(e.file, None, "deleted", SequenceOf(m, e))} \cup
                                Carried({d \in Collected({m}, "data") : d.file # e.file}))})

\* A writer deletes rows, of one file by position or of all files by value.
DeleteRows ==
    \E target \in {d.file : d \in Collected(Present, "data")} \cup {None} :
        /\ current # 0
        /\ Snapshot("delete", <<"rows", target>>,
              Present \cup {Manifest("deletes", {Entry(<<"deletes", Next1>>, target, "added", None)})})

\* The table is set back to an earlier snapshot.
Rollback ==
    \E s \in kept \ {current} :
        current' = s /\ UNCHANGED <<format, local, content, snaps, kept, scan>>

ExpireSnapshot ==
    \E s \in kept \ {current} :
        kept' = kept \ {s} /\ UNCHANGED <<format, local, content, snaps, current, scan>>

-----------------------------------------------------------------------------
(* The reader *)

\* plan_scan for the current or a given snapshot.
PlanFull ==
    /\ scan = NoScan
    /\ \E s \in kept, f \in Asked :
          scan' = [request |-> [start |-> None, end |-> s, filters |-> {f}],
                   todo    |-> FullTokens(s, {f}),
                   read    |-> Unread]
    /\ UNCHANGED table

\* plan_scan for the appends in (start, end].
PlanIncremental ==
    /\ scan = NoScan /\ Typed /\ local
    /\ \E start \in 1..Len(snaps), end \in kept, f \in Asked :
       \E chain \in Chains(start, end) :
          /\ \A s \in chain : snaps[s].op = "append"
          /\ scan' = [request |-> [start |-> start, end |-> end, filters |-> {f}],
                      todo    |-> UNION {IncrementalTokens(s, {f}) : s \in chain},
                      read    |-> Unread]
    /\ UNCHANGED table

\* fetch_scan_tasks: the token is checked again and expanded.
FetchTask ==
    /\ \E t \in scan.todo :
          IF TokenValid(t)
          THEN scan' = [request |-> scan.request,
                        todo    |-> (scan.todo \ {t}) \cup Expansion(t).tasks,
                        read    |-> [scan.read EXCEPT ![FromList(t)] = @ \cup Expansion(t).files]]
          ELSE scan' = NoScan
    /\ UNCHANGED table

\* The reader is done and may plan again.
EndScan == scan # NoScan /\ scan.todo = {} /\ scan' = NoScan /\ UNCHANGED table

Next ==
    \/ AppendFile \/ MergeAppend \/ RemoveFile \/ DeleteRows \/ Rollback \/ ExpireSnapshot
    \/ PlanFull \/ PlanIncremental \/ FetchTask \/ EndScan

Spec == Init /\ [][Next]_vars

-----------------------------------------------------------------------------
(* Properties *)

\* A snapshot and its ancestors: what every set of snapshots has in common
\* that contains the snapshot and all parents.
Lineage(s) ==
    {p \in DOMAIN snaps :
       \A S \in SUBSET DOMAIN snaps :
          s \in S /\ (\A q \in S : snaps[q].parent \in S \cup {0}) => p \in S}

\* The snapshot that added a file, and the files and the deletes of a snapshot,
\* from what the writers did.
AddedBy(f) == CHOOSE s \in DOMAIN snaps : snaps[s].did \in {<<"add", f>>, <<"merge", f>>}
FilesOf(s) ==
    {f \in Written \cap Files :
        AddedBy(f) \in Lineage(s) /\ \A p \in Lineage(s) : snaps[p].did # <<"remove", f>>}
DeletesOf(f, s) ==
    {<<"deletes", p>> : p \in {p \in Lineage(s) :
        \/ snaps[p].did = <<"rows", f>>
        \/ snaps[p].did = <<"rows", None>> /\ p > AddedBy(f)}}

\* All tokens of manifest lists have been expanded.
Listed == /\ scan.request # None /\ format = "v2" /\ local
          /\ \A t \in scan.todo : t.kind = "manifest"

Read == {r.file : r \in scan.read[TRUE]}
Wanted(fs, matching) == {f \in matching : HasMatchingRow(content[f], fs) /\ content[f].counts}

\* However the table moved on since the plan, the files a manifest-list token
\* expands to are files of the planned snapshot, among them every file with a
\* row the filters want, each with exactly the delete files that apply to it.
SnapshotScanIsComplete ==
    Listed /\ scan.request.start = None =>
        LET s == scan.request.end IN
        /\ Read \subseteq FilesOf(s)
        /\ Wanted(scan.request.filters, FilesOf(s)) \subseteq Read
        /\ \A r \in scan.read[TRUE] : r.deletes = DeletesOf(r.file, s)

\* An incremental scan reads every file appended after start up to end that the
\* filters want, only files of the end snapshot, and no file from before start
\* unless a writer merged manifests in between.
IncrementalScanIsComplete ==
    Listed /\ scan.request.start # None =>
        LET range == Lineage(scan.request.end) \ Lineage(scan.request.start)
            added == {f \in Written \cap Files : AddedBy(f) \in range} IN
        /\ Wanted(scan.request.filters, added) \subseteq Read
        /\ Read \subseteq FilesOf(scan.request.end)
        /\ (\A p \in range : snaps[p].did[1] # "merge") => Read \subseteq added

\* Every token the reader holds is accepted by fetch_scan_tasks for as long as
\* its snapshot is not expired, tokens that an expansion handed out included.
TokensStayValid ==
    \A t \in scan.todo : Typed /\ t.snap \in kept => TokenValid(t)

\* Pruning never drops a file that holds a row the filter wants, provided that
\* its null counts are present.  (A file never changes: looking at the files
\* before anything else has happened looks at all of them.)
PruningIsSound ==
    snaps = <<>> => \A f \in Files, p \in Filters :
        content[f].counts /\ HasMatchingRow(content[f], {p}) => MayMatch(content[f], p)

\* The README has it that predicates are applied conservatively and that missing
\* metrics keep the file: a scan of a snapshot reads every file with a row the
\* filters want, whichever metrics are present.
MissingMetricsKeepTheFile ==
    Listed /\ scan.request.start = None =>
        {f \in FilesOf(scan.request.end) : HasMatchingRow(content[f], scan.request.filters)}
            \subseteq Read
=============================================================================
