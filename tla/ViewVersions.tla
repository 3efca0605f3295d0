---------------------------- MODULE ViewVersions ----------------------------
(***************************************************************************)
(* Views and their version receipts.  upsert_view_if_version and           *)
(* drop_view_if_version change the view's row and append a receipt that    *)
(* links to the latest one, in one transaction of write_txn: it is         *)
(* rejected when the view's row was written since its snapshot.  Every     *)
(* call first validates the chain that it is about to extend, so a broken  *)
(* chain would make the view unusable for good.                            *)
(*                                                                         *)
(* The memory store runs the same bodies under its one lock: behaviours in *)
(* which every call begins and commits without a step between.             *)
(***************************************************************************)
EXTENDS Naturals, Sequences, FiniteSets, SequencesExt

CONSTANTS
    Views,          \* view keys (component-safe)
    StableIdOf,     \* StableIdOf[v]: the dotted identity of v
    Clients,
    NoVersion,      \* Option::None of a version
    NoReceipt,      \* Option::None of a receipt hash
    MaxReceipts,    \* bound: receipts per view
    MaxTime         \* bound: ticks of the clock

ASSUME ViewAssumption ==
    /\ DOMAIN StableIdOf = Views
    /\ NoVersion \notin Nat
    /\ MaxReceipts \in Nat /\ MaxTime \in Nat

VARIABLES
    views,      \* Views -> the view's version, or NoVersion
    receipts,   \* Views -> Seq(Receipt), in the order they were committed
    now,        \* the wall clock
    tx          \* Clients -> the state of the call

vars == <<views, receipts, now, tx>>

-----------------------------------------------------------------------------
\* A receipt's hash covers its link to the one before it, so along a chain
\* the hash is named by the view and the place in the chain.
Hash(v, i) == <<v, i>>

Hashes == {Hash(v, i) : v \in Views, i \in 1..MaxReceipts}

Versions == 1..MaxReceipts

Receipt ==
    [hash : Hashes, view : Views, view_version : Versions,
     previous_view_version : Versions \cup {NoVersion},
     previous_receipt_hash : Hashes \cup {NoReceipt},
     operation : {"upsert", "drop"}, recorded_at : 0..MaxTime]

Idle == [phase |-> "idle"]

\* A call: on which view, what, the version it expects (or none), and the
\* receipts there were when the client learned that version.
Call ==
    [view : Views, operation : {"upsert", "drop"},
     expected : Versions \cup {NoVersion}, seen : 0..MaxReceipts]

TypeOK ==
    /\ views \in [Views -> Versions \cup {NoVersion}]
    /\ receipts \in [Views -> Seq(Receipt)]
    /\ now \in 0..MaxTime
    /\ \A c \in Clients :
          \/ tx[c] = Idle
          \/ tx[c] \in [phase : {"called"}, call : Call]
          \/ /\ tx[c].phase = "running"
             /\ tx[c].call \in Call
             /\ tx[c].version \in Versions \cup {NoVersion}
             /\ tx[c].chain \in Seq(Receipt)
             /\ tx[c].begun \in 0..now
             /\ tx[c].dirty \in BOOLEAN

Init ==
    /\ views = [v \in Views |-> NoVersion]
    /\ receipts = [v \in Views |-> <<>>]
    /\ now = 0
    /\ tx = [c \in Clients |-> Idle]

-----------------------------------------------------------------------------
(* validate_view_receipt_chains.                                            *)

\* By version, then time, then upsert before drop.
SortsBefore(q, r) ==
    \/ q.view_version < r.view_version
    \/ /\ q.view_version = r.view_version
       /\ \/ q.recorded_at < r.recorded_at
          \/ /\ q.recorded_at = r.recorded_at
             /\ q.operation = "upsert" /\ r.operation = "drop"

\* sort_by, which is stable: UpTo are the receipts that it puts before the
\* i-th one, with the i-th itself; their number is where it goes.
UpTo(chain, i) ==
    {j \in DOMAIN chain : \/ SortsBefore(chain[j], chain[i])
                          \/ j <= i /\ ~SortsBefore(chain[i], chain[j])}

Rank(chain, i) == Cardinality(UpTo(chain, i))

Sorted(chain) ==
    [k \in DOMAIN chain |-> chain[CHOOSE i \in DOMAIN chain : Rank(chain, i) = k]]

Starts(r) ==
    /\ r.operation = "upsert"
    /\ r.view_version = 1
    /\ r.previous_view_version = NoVersion
    /\ r.previous_receipt_hash = NoReceipt

Links(q, r) ==
    /\ r.previous_receipt_hash = q.hash
    /\ r.previous_view_version = q.view_version
    /\ r.view_version = IF r.operation = "upsert" THEN q.view_version + 1
                        ELSE q.view_version

ValidChain(chain) ==
    LET sorted == Sorted(chain)
    IN  \A i \in DOMAIN sorted :
           IF i = 1 THEN Starts(sorted[1]) ELSE Links(sorted[i - 1], sorted[i])

\* latest_view_receipt_evidence: the greatest receipt in that order.
Latest(chain) == Last(Sorted(chain))

\* The receipts that carry one dotted identity.
ReceiptsWith(id) ==
    FlattenSeq(SetToSeq({receipts[v] : v \in {v \in Views : StableIdOf[v] = id}}))

-----------------------------------------------------------------------------
(* The calls.                                                               *)

\* A client calls, without a version or with the one it has loaded.
CallUpsertOrDrop(c, v, operation, guarded) ==
    /\ tx[c] = Idle
    /\ guarded => views[v] # NoVersion
    /\ tx' = [tx EXCEPT ![c] =
                [phase |-> "called",
                 call |-> [view |-> v, operation |-> operation,
                           expected |-> IF guarded THEN views[v] ELSE NoVersion,
                           seen |-> Len(receipts[v])]]]
    /\ UNCHANGED <<views, receipts, now>>

\* BEGIN CONCURRENT: the body reads the view's row and its receipts from here.
Begin(c) ==
    /\ tx[c].phase = "called"
    /\ tx' = [tx EXCEPT ![c] =
                [phase |-> "running", call |-> tx[c].call,
                 version |-> views[tx[c].call.view],
                 chain |-> receipts[tx[c].call.view],
                 begun |-> now, dirty |-> FALSE]]
    /\ UNCHANGED <<views, receipts, now>>

\* Mutant of Expected: a guarded call on a missing view goes through.
ExpectedIfPresent(x) ==
    x.call.expected # NoVersion /\ x.version # NoVersion => x.version = x.call.expected

\* require_expected_view_version.
Expected(x) == x.call.expected # NoVersion => x.version = x.call.expected

\* The body gets to its writes; a drop needs the view.
Admits(x) ==
    /\ Expected(x)
    /\ x.call.operation = "drop" => x.version # NoVersion
    /\ ValidChain(x.chain)

LatestVersion(x) ==
    IF x.chain = <<>> THEN NoVersion ELSE Latest(x.chain).view_version

\* Mutant of NextVersion: the versions of a view that was dropped start over.
NextVersionOfRow(x) == IF x.version = NoVersion THEN 1 ELSE x.version + 1

\* with_next_version_after_history: one more than the row's version and the
\* latest receipt's.
NextVersion(x) ==
    LET known == {x.version, LatestVersion(x)} \ {NoVersion}
    IN  IF known = {} THEN 1 ELSE Max(known) + 1

\* ViewVersionReceipt::upsert and ::drop.
ReceiptOf(x, at) ==
    LET v == x.call.view
        upsert == x.call.operation = "upsert"
    IN  [hash |-> Hash(v, Len(x.chain) + 1), view |-> v,
         view_version |-> IF upsert THEN NextVersion(x) ELSE x.version,
         previous_view_version |->
            IF x.version # NoVersion THEN x.version ELSE LatestVersion(x),
         previous_receipt_hash |->
            IF x.chain = <<>> THEN NoReceipt ELSE Latest(x.chain).hash,
         operation |-> x.call.operation,
         recorded_at |-> at]

\* Mutant of RowAfter: a drop leaves the row.
RowKept(receipt) == receipt.view_version

\* The view's row after the writes: upserted, or deleted.
RowAfter(receipt) ==
    IF receipt.operation = "upsert" THEN receipt.view_version ELSE NoVersion

\* Nobody wrote the view's row since the snapshot.
Unconflicted(x) == ~x.dirty

\* The body's writes and COMMIT.  The body read the clock at some moment
\* since the snapshot.
Commit(c) ==
    LET x == tx[c]
        v == x.call.view
    IN  /\ x.phase = "running"
        /\ Len(receipts[v]) < MaxReceipts
        /\ Admits(x)
        /\ Unconflicted(x)
        /\ \E at \in x.begun..now :
              LET receipt == ReceiptOf(x, at)
              IN  /\ views' = [views EXCEPT ![v] = RowAfter(receipt)]
                  /\ receipts' = [receipts EXCEPT ![v] = Append(@, receipt)]
        /\ tx' = [d \in Clients |->
                    IF d = c THEN Idle
                    ELSE IF tx[d].phase = "running" /\ tx[d].call.view = v
                    THEN [tx[d] EXCEPT !.dirty = TRUE]
                    ELSE tx[d]]
        /\ UNCHANGED now

\* An error of the body's own.
Refuse(c) ==
    /\ tx[c].phase = "running"
    /\ ~Admits(tx[c])
    /\ tx' = [tx EXCEPT ![c] = Idle]
    /\ UNCHANGED <<views, receipts, now>>

\* A lost race: the body runs again on a new snapshot.
Rollback(c) ==
    /\ tx[c].phase = "running"
    /\ tx' = [tx EXCEPT ![c] = [phase |-> "called", call |-> tx[c].call]]
    /\ UNCHANGED <<views, receipts, now>>

\* The attempts are used up, or the caller is gone.
GiveUp(c) ==
    /\ tx[c] # Idle
    /\ tx' = [tx EXCEPT ![c] = Idle]
    /\ UNCHANGED <<views, receipts, now>>

Tick ==
    /\ now < MaxTime
    /\ now' = now + 1
    /\ UNCHANGED <<views, receipts, tx>>

Next ==
    \/ \E c \in Clients, v \in Views, operation \in {"upsert", "drop"},
          guarded \in BOOLEAN : CallUpsertOrDrop(c, v, operation, guarded)
    \/ \E c \in Clients :
          Begin(c) \/ Commit(c) \/ Refuse(c) \/ Rollback(c) \/ GiveUp(c)
    \/ Tick

Spec == Init /\ [][Next]_vars

-----------------------------------------------------------------------------
(* Properties.                                                              *)

\* list_warehouse_view_version_receipts never fails, nor do the listings of
\* a namespace and of a view, and no view becomes unusable: under every
\* dotted identity the receipts form one valid chain.
ReceiptChainsValid == \A v \in Views : ValidChain(ReceiptsWith(StableIdOf[v]))

\* The receipts explain the views: a view is there, at this version, exactly
\* when its latest receipt is an upsert to this version.
ReceiptsTellViews ==
    \A v \in Views :
       views[v] = IF receipts[v] = <<>> \/ Latest(receipts[v]).operation = "drop"
                  THEN NoVersion ELSE Latest(receipts[v]).view_version

\* No lost update and no ABA: a call with an expected version takes effect
\* only on the very view the client read, with no upsert, drop or recreation
\* in between.
GuardedCallsSeeNoChange ==
    [][\A c \in Clients :
          /\ tx[c].phase = "running"
          /\ tx[c].call.expected # NoVersion
          /\ receipts'[tx[c].call.view] # receipts[tx[c].call.view]
          /\ tx'[c] = Idle
          => tx[c].call.seen = Len(receipts[tx[c].call.view])]_vars
=============================================================================
