------------------------- MODULE ViewVersionsProofs -------------------------
(***************************************************************************)
(* The receipts of a view are one valid chain that explains the view, for  *)
(* any number of views and callers and chains of any length.               *)
(***************************************************************************)
EXTENDS ViewVersions, FiniteSetTheorems, TLAPS

-----------------------------------------------------------------------------
(* Chains in order.                                                         *)

\* The order in which receipts are appended: a later one has a higher
\* version, or is the drop of the version that the earlier one upserted.
Before(q, r) ==
    \/ q.view_version < r.view_version
    \/ /\ q.view_version = r.view_version
       /\ q.operation = "upsert" /\ r.operation = "drop"
       /\ q.recorded_at <= r.recorded_at

\* A chain of view v whose receipts were all recorded by time t.
InOrder(v, chain, t) ==
    /\ chain \in Seq(Receipt)
    /\ Len(chain) <= MaxReceipts
    /\ \A i \in 1..Len(chain) :
          /\ chain[i].hash = Hash(v, i)
          /\ chain[i].view_version <= i
          /\ chain[i].recorded_at <= t
    /\ \A i \in 1..Len(chain) :
          IF i = 1 THEN Starts(chain[1]) ELSE Links(chain[i - 1], chain[i])
    /\ \A i, j \in 1..Len(chain) : i < j => Before(chain[i], chain[j])

\* The row that a chain leaves behind.
RowOf(chain) ==
    IF chain = <<>> \/ chain[Len(chain)].operation = "drop" THEN NoVersion
    ELSE chain[Len(chain)].view_version

LEMMA ReceiptFields ==
    ASSUME NEW r \in Receipt
    PROVE  /\ r.view_version \in Nat /\ r.view_version \in Versions
           /\ r.recorded_at \in Nat
           /\ r.operation \in {"upsert", "drop"}
           /\ r.hash \in Hashes
BY ViewAssumption DEF Receipt, Versions

LEMMA BeforeSorts ==
    ASSUME NEW q \in Receipt, NEW r \in Receipt, Before(q, r)
    PROVE  SortsBefore(q, r) /\ ~SortsBefore(r, q)
BY ReceiptFields DEF Before, SortsBefore

LEMMA BeforeTransitive ==
    ASSUME NEW q \in Receipt, NEW r \in Receipt, NEW s \in Receipt,
           Before(q, r), Before(r, s)
    PROVE  Before(q, s)
BY ReceiptFields DEF Before

LEMMA NotBeforeItself ==
    ASSUME NEW r \in Receipt
    PROVE  ~SortsBefore(r, r)
BY ReceiptFields DEF SortsBefore

\* In a chain in order every receipt is where the sort puts it.
LEMMA RankIsPlace ==
    ASSUME NEW v, NEW chain, NEW t, InOrder(v, chain, t), NEW i \in 1..Len(chain)
    PROVE  Rank(chain, i) = i
<1>1. /\ chain \in Seq(Receipt) /\ DOMAIN chain = 1..Len(chain) /\ Len(chain) \in Nat
      /\ \A j \in 1..Len(chain) : chain[j] \in Receipt
  BY DEF InOrder
<1>2. ASSUME NEW j \in 1..Len(chain)
      PROVE  /\ j < i => SortsBefore(chain[j], chain[i]) /\ ~SortsBefore(chain[i], chain[j])
             /\ j = i => ~SortsBefore(chain[i], chain[j])
             /\ i < j => SortsBefore(chain[i], chain[j]) /\ ~SortsBefore(chain[j], chain[i])
  BY <1>1, BeforeSorts, NotBeforeItself DEF InOrder
<1>3. UpTo(chain, i) = 1..i
  <2>1. ASSUME NEW j \in UpTo(chain, i) PROVE j \in 1..i
    BY <1>1, <1>2, <2>1 DEF UpTo
  <2>2. ASSUME NEW j \in 1..i PROVE j \in UpTo(chain, i)
    BY <1>1, <1>2, <2>2 DEF UpTo
  <2> QED BY <2>1, <2>2
<1>4. Cardinality(1..i) = i
  BY <1>1, FS_Interval
<1> QED BY <1>3, <1>4 DEF Rank

LEMMA SortedIsChain ==
    ASSUME NEW v, NEW chain, NEW t, InOrder(v, chain, t)
    PROVE  Sorted(chain) = chain
<1>1. chain \in Seq(Receipt) /\ DOMAIN chain = 1..Len(chain)
  BY DEF InOrder
<1>2. ASSUME NEW k \in 1..Len(chain)
      PROVE  (CHOOSE i \in DOMAIN chain : Rank(chain, i) = k) = k
  <2>1. \A i \in DOMAIN chain : Rank(chain, i) = i
    BY <1>1, RankIsPlace
  <2> QED BY <1>1, <2>1
<1> DEFINE f(k) == CHOOSE i \in DOMAIN chain : Rank(chain, i) = k
<1>3. Sorted(chain) = [k \in DOMAIN chain |-> chain[f(k)]]
  BY Zenon DEF Sorted
<1>4. \A k \in DOMAIN chain : f(k) = k
  BY <1>1, <1>2
<1> HIDE DEF f
<1>5. [k \in DOMAIN chain |-> chain[f(k)]] = [k \in DOMAIN chain |-> chain[k]]
  BY <1>4
<1> QED BY <1>1, <1>3, <1>5

LEMMA OrderedIsValid ==
    ASSUME NEW v, NEW chain, NEW t, InOrder(v, chain, t)
    PROVE  /\ ValidChain(chain)
           /\ chain # <<>> => Latest(chain) = chain[Len(chain)]
<1>1. Sorted(chain) = chain
  BY SortedIsChain
<1>2. DOMAIN chain = 1..Len(chain)
  BY DEF InOrder
<1> QED BY <1>1, <1>2 DEF ValidChain, Latest, Last, InOrder
\* A receipt that follows the last one extends the chain.
LEMMA AppendInOrder ==
    ASSUME NEW v, NEW chain, NEW t \in Nat, NEW t2 \in Nat, t <= t2, InOrder(v, chain, t),
           Len(chain) < MaxReceipts, NEW r \in Receipt,
           r.hash = Hash(v, Len(chain) + 1), r.view_version <= Len(chain) + 1,
           r.recorded_at <= t2,
           IF chain = <<>> THEN Starts(r)
           ELSE Links(chain[Len(chain)], r) /\ Before(chain[Len(chain)], r)
    PROVE  InOrder(v, Append(chain, r), t2)
<1> DEFINE n == Len(chain)
           longer == Append(chain, r)
<1>1. /\ chain \in Seq(Receipt) /\ n \in Nat
      /\ \A i \in 1..n : chain[i] \in Receipt
  BY DEF InOrder
<1>2. /\ longer \in Seq(Receipt) /\ Len(longer) = n + 1
      /\ \A i \in 1..n : longer[i] = chain[i]
      /\ longer[n + 1] = r
  BY <1>1
<1>3. n + 1 <= MaxReceipts
  BY <1>1, ViewAssumption
<1>4. \A i \in 1..n : chain[i].recorded_at <= t2
  BY <1>1, ReceiptFields DEF InOrder
<1>5. n = 0 <=> chain = <<>>
  BY <1>1
<1> HIDE DEF longer
<1>6. \A i \in 1..(n + 1) : /\ longer[i].hash = Hash(v, i)
                            /\ longer[i].view_version <= i
                            /\ longer[i].recorded_at <= t2
  BY <1>1, <1>2, <1>4 DEF InOrder
<1>7. ASSUME NEW i \in 1..(n + 1)
      PROVE  IF i = 1 THEN Starts(longer[1]) ELSE Links(longer[i - 1], longer[i])
  <2>1. CASE i = n + 1
    BY <1>1, <1>2, <1>5, <2>1
  <2>2. CASE i # n + 1
    <3>1. i \in 1..n /\ (i # 1 => i - 1 \in 1..n) /\ 1 \in 1..n
      BY <1>1, <2>2
    <3> QED BY <1>2, <3>1 DEF InOrder
  <2> QED BY <2>1, <2>2
<1>8. ASSUME NEW i \in 1..(n + 1), NEW j \in 1..(n + 1), i < j
      PROVE  Before(longer[i], longer[j])
  <2>1. CASE j = n + 1
    <3>1. i \in 1..n /\ n \in 1..n /\ chain # <<>>
      BY <1>1, <1>5, <1>8, <2>1
    <3>2. Before(chain[n], r)
      BY <3>1
    <3>3. CASE i = n
      BY <1>2, <2>1, <3>1, <3>2, <3>3
    <3>4. CASE i < n
      <4>1. Before(chain[i], chain[n])
        BY <3>1, <3>4 DEF InOrder
      <4>2. Before(chain[i], r)
        BY <1>1, <3>1, <3>2, <4>1, BeforeTransitive
      <4> QED BY <1>2, <2>1, <3>1, <4>2
    <3> QED BY <3>1, <3>3, <3>4
  <2>2. CASE j # n + 1
    <3>1. i \in 1..n /\ j \in 1..n
      BY <1>1, <1>8, <2>2
    <3> QED BY <1>2, <1>8, <3>1 DEF InOrder
  <2> QED BY <2>1, <2>2
<1> QED BY <1>2, <1>3, <1>6, <1>7, <1>8 DEF InOrder, longer

\* Time passes.
LEMMA InOrderLater ==
    ASSUME NEW v, NEW chain, NEW t \in Nat, NEW t2 \in Nat, t <= t2, InOrder(v, chain, t)
    PROVE  InOrder(v, chain, t2)
<1>1. \A i \in 1..Len(chain) : chain[i] \in Receipt
  BY DEF InOrder
<1>2. \A i \in 1..Len(chain) : chain[i].recorded_at <= t2
  BY <1>1, ReceiptFields DEF InOrder
<1> QED BY <1>2 DEF InOrder

-----------------------------------------------------------------------------
(* The inductive invariant.                                                 *)

\* A guarded call knows the receipt that its client has seen: the upsert of
\* the version it expects.
CallOK(call, R) ==
    /\ call \in Call
    /\ call.expected # NoVersion =>
          /\ call.seen \in 1..Len(R[call.view])
          /\ R[call.view][call.seen].view_version = call.expected
          /\ R[call.view][call.seen].operation = "upsert"

CalledTx == [phase : {"called"}, call : Call]

RunningTx ==
    [phase : {"running"}, call : Call, version : Versions \cup {NoVersion},
     chain : Seq(Receipt), begun : 0..MaxTime, dirty : BOOLEAN]

\* A snapshot is a chain in order and its row, and as long as the
\* transaction is not dirty it is what the view is now.
SnapshotOK(x, V, R, t) ==
    /\ x.begun <= t
    /\ InOrder(x.call.view, x.chain, x.begun)
    /\ ~x.dirty => x.chain = R[x.call.view] /\ x.version = V[x.call.view]

TxOK(x, V, R, t) ==
    \/ x = Idle
    \/ x \in CalledTx /\ CallOK(x.call, R)
    \/ x \in RunningTx /\ CallOK(x.call, R) /\ SnapshotOK(x, V, R, t)

ViewsOK ==
    /\ now \in 0..MaxTime
    /\ views \in [Views -> Versions \cup {NoVersion}]
    /\ receipts \in [Views -> Seq(Receipt)]
    /\ \A v \in Views : InOrder(v, receipts[v], now) /\ views[v] = RowOf(receipts[v])

CallsOK ==
    /\ tx = [c \in Clients |-> tx[c]]
    /\ \A c \in Clients : TxOK(tx[c], views, receipts, now)

IInv == ViewsOK /\ CallsOK
-----------------------------------------------------------------------------
(* What a transaction writes.                                               *)

\* The latest receipt of a snapshot that is current.
LEMMA LastReceipt ==
    ASSUME NEW v, NEW chain, NEW t, InOrder(v, chain, t), chain # <<>>
    PROVE  /\ Len(chain) \in Nat /\ Len(chain) \in 1..Len(chain)
           /\ chain[Len(chain)] \in Receipt
           /\ chain[Len(chain)].hash = Hash(v, Len(chain))
           /\ chain[Len(chain)].view_version <= Len(chain)
           /\ chain[Len(chain)].recorded_at <= t
           /\ Latest(chain) = chain[Len(chain)]
<1>1. chain \in Seq(Receipt)
  BY DEF InOrder
<1>2. Len(chain) \in Nat /\ Len(chain) \in 1..Len(chain)
  BY <1>1
<1>3. Latest(chain) = chain[Len(chain)]
  BY OrderedIsValid
<1>4. /\ chain[Len(chain)] \in Receipt
      /\ chain[Len(chain)].hash = Hash(v, Len(chain))
      /\ chain[Len(chain)].view_version <= Len(chain)
      /\ chain[Len(chain)].recorded_at <= t
  BY <1>1, <1>2 DEF InOrder
<1> QED BY <1>2, <1>3, <1>4

LEMMA MaxOfOne ==
    ASSUME NEW n \in Nat
    PROVE  Max({n}) = n
BY DEF Max

\* One more than the latest receipt's version, whatever the row says.
LEMMA NextIsOneMore ==
    ASSUME NEW x, NEW v, NEW t, InOrder(v, x.chain, t), x.version = RowOf(x.chain)
    PROVE  NextVersion(x) = IF x.chain = <<>> THEN 1
                            ELSE x.chain[Len(x.chain)].view_version + 1
<1> DEFINE known == {x.version, LatestVersion(x)} \ {NoVersion}
           lv == x.chain[Len(x.chain)].view_version
<1>1. CASE x.chain = <<>>
  <2>1. known = {}
    BY <1>1 DEF LatestVersion, RowOf
  <2> QED BY <1>1, <2>1 DEF NextVersion
<1>2. CASE x.chain # <<>>
  <2>1. LatestVersion(x) = lv /\ lv \in Nat
    BY <1>2, LastReceipt, ReceiptFields DEF LatestVersion
  <2>2. x.version \in {lv, NoVersion}
    BY <1>2 DEF RowOf
  <2>3. known = {lv}
    BY <2>1, <2>2, ViewAssumption
  <2>4. NextVersion(x) = Max(known) + 1
    BY <2>3 DEF NextVersion
  <2> QED BY <1>2, <2>1, <2>3, <2>4, MaxOfOne
<1> QED BY <1>1, <1>2

\* The receipt that a transaction on a current snapshot writes extends the
\* snapshot's chain.
LEMMA ReceiptExtends ==
    ASSUME NEW x \in RunningTx, NEW at \in 0..MaxTime, x.begun <= at,
           InOrder(x.call.view, x.chain, x.begun), x.version = RowOf(x.chain),
           Len(x.chain) < MaxReceipts, Admits(x)
    PROVE  LET r == ReceiptOf(x, at)
               n == Len(x.chain)
           IN  /\ r \in Receipt
               /\ r.hash = Hash(x.call.view, n + 1)
               /\ r.view_version <= n + 1
               /\ r.recorded_at = at
               /\ r.operation = x.call.operation
               /\ IF x.chain = <<>> THEN Starts(r)
                  ELSE Links(x.chain[n], r) /\ Before(x.chain[n], r)
<1> DEFINE r == ReceiptOf(x, at)
           n == Len(x.chain)
           v == x.call.view
           last == x.chain[n]
<1>1. /\ v \in Views /\ x.call.operation \in {"upsert", "drop"}
      /\ x.begun \in Nat /\ at \in Nat /\ n \in Nat
  BY ViewAssumption DEF RunningTx, Call
<1>2. /\ r.hash = Hash(v, n + 1) /\ r.view = v
      /\ r.view_version = IF x.call.operation = "upsert" THEN NextVersion(x) ELSE x.version
      /\ r.previous_view_version = IF x.version # NoVersion THEN x.version ELSE LatestVersion(x)
      /\ r.previous_receipt_hash = IF x.chain = <<>> THEN NoReceipt ELSE Latest(x.chain).hash
      /\ r.operation = x.call.operation /\ r.recorded_at = at
      /\ r = [hash |-> r.hash, view |-> r.view, view_version |-> r.view_version,
              previous_view_version |-> r.previous_view_version,
              previous_receipt_hash |-> r.previous_receipt_hash,
              operation |-> r.operation, recorded_at |-> r.recorded_at]
  BY DEF ReceiptOf
<1>3. Hash(v, n + 1) \in Hashes
  <2>1. n + 1 \in 1..MaxReceipts
    BY <1>1, ViewAssumption
  <2> QED BY <1>1, <2>1 DEF Hashes
<1> HIDE DEF r
<1>4. CASE x.chain = <<>>
  <2>1. x.version = NoVersion /\ x.call.operation = "upsert"
    BY <1>1, <1>4 DEF RowOf, Admits
  <2>2. NextVersion(x) = 1 /\ LatestVersion(x) = NoVersion /\ n = 0
    BY <1>4, NextIsOneMore DEF LatestVersion
  <2>3. Starts(r)
    BY <1>2, <1>4, <2>1, <2>2 DEF Starts
  <2>4. r.view_version = 1 /\ 1 \in Versions /\ r.previous_view_version = NoVersion
        /\ r.previous_receipt_hash = NoReceipt
    BY <1>2, <1>4, <2>1, <2>2, ViewAssumption DEF Versions
  <2>5. r \in Receipt
    BY <1>1, <1>2, <1>3, <2>4 DEF Receipt
  <2> QED BY <1>2, <1>4, <2>2, <2>3, <2>4, <2>5 DEF r
<1>5. CASE x.chain # <<>>
  <2>1. /\ last \in Receipt /\ last.hash = Hash(v, n) /\ last.view_version <= n
        /\ last.recorded_at <= x.begun /\ Latest(x.chain) = last /\ n >= 1
        /\ LatestVersion(x) = last.view_version
    BY <1>5, LastReceipt DEF LatestVersion
  <2>2. /\ last.view_version \in Versions /\ last.recorded_at \in Nat /\ last.hash \in Hashes
        /\ last.view_version \in Nat /\ last.operation \in {"upsert", "drop"}
    BY <2>1, ReceiptFields
  <2>3. NextVersion(x) = last.view_version + 1
    BY <1>5, NextIsOneMore
  <2>4. /\ r.previous_view_version = last.view_version
        /\ r.previous_receipt_hash = last.hash
    BY <1>2, <1>5, <2>1 DEF RowOf
  <2>5. x.call.operation = "drop" => last.operation = "upsert" /\ x.version = last.view_version
    BY <1>5, <2>2 DEF RowOf, Admits
  <2>6. r.view_version = IF r.operation = "upsert" THEN last.view_version + 1
                         ELSE last.view_version
    BY <1>1, <1>2, <2>3, <2>5
  <2>7. Links(last, r)
    BY <2>4, <2>6 DEF Links
  <2>8. Before(last, r)
    BY <1>1, <1>2, <2>1, <2>2, <2>5, <2>6 DEF Before
  <2>9. r.view_version \in Versions /\ r.view_version <= n + 1
    BY <1>1, <2>1, <2>2, <2>6, ViewAssumption DEF Versions
  <2>10. r \in Receipt
    BY <1>1, <1>2, <1>3, <2>2, <2>4, <2>9 DEF Receipt
  <2> QED BY <1>2, <1>5, <2>7, <2>8, <2>9, <2>10 DEF r
<1> QED BY <1>4, <1>5
-----------------------------------------------------------------------------
(* The invariant holds at first and every step keeps it.                    *)

LEMMA InitOK ==
    ASSUME Init
    PROVE  IInv
<1>1. <<>> \in Seq(Receipt) /\ Len(<<>>) = 0 /\ 1..0 = {}
  OBVIOUS
<1>2. \A v \in Views : InOrder(v, <<>>, 0) /\ RowOf(<<>>) = NoVersion
  BY <1>1, ViewAssumption DEF InOrder, RowOf
<1>3. now \in 0..MaxTime
  BY ViewAssumption DEF Init
<1> QED BY <1>1, <1>2, <1>3 DEF Init, IInv, ViewsOK, CallsOK, TxOK

\* The three kinds of call.
LEMMA IdleOK ==
    ASSUME NEW V, NEW R, NEW t
    PROVE  TxOK(Idle, V, R, t)
BY DEF TxOK

LEMMA PhaseTells ==
    ASSUME NEW x, NEW V, NEW R, NEW t, TxOK(x, V, R, t)
    PROVE  /\ x.phase = "called" => x \in CalledTx /\ CallOK(x.call, R)
           /\ x.phase = "running" =>
                 x \in RunningTx /\ CallOK(x.call, R) /\ SnapshotOK(x, V, R, t)
           /\ x # Idle => CallOK(x.call, R)
BY DEF TxOK, CalledTx, RunningTx, Idle

LEMMA CalledAgain ==
    ASSUME NEW call, NEW V, NEW R, NEW t, CallOK(call, R)
    PROVE  TxOK([phase |-> "called", call |-> call], V, R, t)
BY DEF TxOK, CalledTx, CallOK

\* A step that changes only the state of one call keeps the invariant when
\* that call's new state is in order.
LEMMA OneCall ==
    ASSUME IInv, NEW c \in Clients, NEW y, TxOK(y, views, receipts, now),
           tx' = [tx EXCEPT ![c] = y], UNCHANGED <<views, receipts, now>>
    PROVE  IInv'
<1>1. ViewsOK'
  BY DEF IInv, ViewsOK
<1>2. /\ tx = [d \in Clients |-> tx[d]]
      /\ \A d \in Clients : tx'[d] = IF d = c THEN y ELSE tx[d]
      /\ tx' = [d \in Clients |-> tx'[d]]
  BY DEF IInv, CallsOK
<1>3. \A d \in Clients : TxOK(tx[d], views, receipts, now)
  BY DEF IInv, CallsOK
<1>4. \A d \in Clients : TxOK(tx'[d], views, receipts, now)
  BY <1>2, <1>3
<1>5. \A d \in Clients : TxOK(tx'[d], views', receipts', now')
  BY <1>4
<1> QED BY <1>1, <1>2, <1>5 DEF IInv, CallsOK

LEMMA CallOKStep ==
    ASSUME IInv, NEW c \in Clients, NEW v \in Views,
           NEW operation \in {"upsert", "drop"}, NEW guarded \in BOOLEAN,
           CallUpsertOrDrop(c, v, operation, guarded)
    PROVE  IInv'
<1> DEFINE e == IF guarded THEN views[v] ELSE NoVersion
           n == Len(receipts[v])
           call == [view |-> v, operation |-> operation, expected |-> e, seen |-> n]
<1>1. /\ views[v] \in Versions \cup {NoVersion} /\ views[v] = RowOf(receipts[v])
      /\ InOrder(v, receipts[v], now)
  BY DEF IInv, ViewsOK
<1>2. n \in 0..MaxReceipts
  BY <1>1, ViewAssumption DEF InOrder
<1>3. e \in Versions \cup {NoVersion}
  BY <1>1
<1>4. ASSUME e # NoVersion
      PROVE  /\ n \in 1..n /\ receipts[v][n].view_version = e
             /\ receipts[v][n].operation = "upsert"
  <2>1. e = views[v] /\ RowOf(receipts[v]) # NoVersion
    BY <1>1, <1>4
  <2>2. receipts[v] # <<>> /\ receipts[v][n].operation # "drop"
        /\ RowOf(receipts[v]) = receipts[v][n].view_version
    BY <2>1 DEF RowOf
  <2>3. n \in 1..n /\ receipts[v][n] \in Receipt
    BY <1>1, <2>2, LastReceipt
  <2>4. receipts[v][n].operation \in {"upsert", "drop"}
    BY <2>3, ReceiptFields
  <2> QED BY <1>1, <2>1, <2>2, <2>3, <2>4
<1>5. tx' = [tx EXCEPT ![c] = [phase |-> "called", call |-> call]]
      /\ UNCHANGED <<views, receipts, now>>
  BY DEF CallUpsertOrDrop
<1> HIDE DEF e
<1>6. call \in Call
  BY <1>2, <1>3 DEF Call
<1>7. CallOK(call, receipts)
  BY <1>4, <1>6 DEF CallOK
<1>8. TxOK([phase |-> "called", call |-> call], views, receipts, now)
  BY <1>7, CalledAgain
<1> HIDE DEF call
<1> QED BY <1>5, <1>8, OneCall

LEMMA BeginOK ==
    ASSUME IInv, NEW c \in Clients, Begin(c)
    PROVE  IInv'
<1> DEFINE call == tx[c].call
           x == [phase |-> "running", call |-> call, version |-> views[call.view],
                 chain |-> receipts[call.view], begun |-> now, dirty |-> FALSE]
<1>1. tx[c].phase = "called" /\ tx' = [tx EXCEPT ![c] = x] /\ UNCHANGED <<views, receipts, now>>
  BY DEF Begin
<1>2. TxOK(tx[c], views, receipts, now)
  BY DEF IInv, CallsOK
<1>3. CallOK(call, receipts)
  BY <1>1, <1>2, PhaseTells
<1>4. call \in Call /\ call.view \in Views
  BY <1>3 DEF CallOK, Call
<1>5. /\ views[call.view] \in Versions \cup {NoVersion}
      /\ receipts[call.view] \in Seq(Receipt) /\ now \in 0..MaxTime
      /\ InOrder(call.view, receipts[call.view], now)
  BY <1>4 DEF IInv, ViewsOK
<1> HIDE DEF call
<1>6. x \in RunningTx
  BY <1>4, <1>5 DEF RunningTx
<1>7. SnapshotOK(x, views, receipts, now)
  BY <1>5 DEF SnapshotOK
<1>8. TxOK(x, views, receipts, now)
  BY <1>3, <1>6, <1>7 DEF TxOK
<1> HIDE DEF x
<1> QED BY <1>1, <1>8, OneCall

LEMMA RefuseOK ==
    ASSUME IInv, NEW c \in Clients, Refuse(c) \/ GiveUp(c)
    PROVE  IInv'
<1>1. tx' = [tx EXCEPT ![c] = Idle] /\ UNCHANGED <<views, receipts, now>>
  BY DEF Refuse, GiveUp
<1> QED BY <1>1, IdleOK, OneCall

LEMMA RollbackOK ==
    ASSUME IInv, NEW c \in Clients, Rollback(c)
    PROVE  IInv'
<1>1. /\ tx[c].phase = "running" /\ UNCHANGED <<views, receipts, now>>
      /\ tx' = [tx EXCEPT ![c] = [phase |-> "called", call |-> tx[c].call]]
  BY DEF Rollback
<1>2. TxOK(tx[c], views, receipts, now)
  BY DEF IInv, CallsOK
<1>3. CallOK(tx[c].call, receipts)
  BY <1>1, <1>2, PhaseTells
<1>4. TxOK([phase |-> "called", call |-> tx[c].call], views, receipts, now)
  BY <1>3, CalledAgain
<1> QED BY <1>1, <1>4, OneCall

LEMMA TickOK ==
    ASSUME IInv, Tick
    PROVE  IInv'
<1>1. /\ now \in Nat /\ now' \in 0..MaxTime /\ now' \in Nat /\ now <= now'
      /\ UNCHANGED <<views, receipts, tx>>
  BY ViewAssumption DEF IInv, ViewsOK, Tick
<1>2. \A v \in Views : InOrder(v, receipts[v], now')
  BY <1>1, InOrderLater DEF IInv, ViewsOK
<1>3. ViewsOK'
  BY <1>1, <1>2 DEF IInv, ViewsOK
<1>4. ASSUME NEW c \in Clients
      PROVE  TxOK(tx[c], views, receipts, now')
  <2>1. TxOK(tx[c], views, receipts, now)
    BY DEF IInv, CallsOK
  <2>2. CASE tx[c] \in RunningTx /\ CallOK(tx[c].call, receipts)
             /\ SnapshotOK(tx[c], views, receipts, now)
    <3>1. tx[c].begun \in Nat
      BY <2>2, ViewAssumption DEF RunningTx
    <3>2. tx[c].begun <= now'
      BY <1>1, <2>2, <3>1 DEF SnapshotOK
    <3> QED BY <2>2, <3>2 DEF SnapshotOK, TxOK
  <2> QED BY <2>1, <2>2 DEF TxOK
<1>5. CallsOK'
  BY <1>1, <1>4 DEF IInv, CallsOK
<1> QED BY <1>3, <1>5 DEF IInv
\* What Commit(c) does: the snapshot is current and the view's chain and row
\* change as the receipt says.
LEMMA CommitWrites ==
    ASSUME IInv, NEW c \in Clients, Commit(c)
    PROVE  LET x == tx[c]
               v == x.call.view
           IN  /\ x \in RunningTx /\ v \in Views /\ CallOK(x.call, receipts)
               /\ x.version = views[v] /\ Admits(x)
               /\ UNCHANGED now
               /\ \E r \in Receipt :
                     /\ InOrder(v, Append(receipts[v], r), now)
                     /\ r.operation = x.call.operation
                     /\ views' = [views EXCEPT ![v] = RowAfter(r)]
                     /\ receipts' = [receipts EXCEPT ![v] = Append(receipts[v], r)]
<1> DEFINE x == tx[c]
           v == x.call.view
<1>1. TxOK(x, views, receipts, now)
  BY DEF IInv, CallsOK
<1>2. x.phase = "running" /\ Len(receipts[v]) < MaxReceipts /\ Admits(x) /\ ~x.dirty
      /\ now' = now
  BY DEF Commit, Unconflicted
<1>3. x \in RunningTx /\ CallOK(x.call, receipts) /\ SnapshotOK(x, views, receipts, now)
  BY <1>1, <1>2, PhaseTells
<1>4. v \in Views
  BY <1>3 DEF CallOK, Call
<1>5. /\ x.begun <= now /\ InOrder(v, x.chain, x.begun)
      /\ x.chain = receipts[v] /\ x.version = views[v]
  BY <1>2, <1>3 DEF SnapshotOK
<1>6. x.begun \in 0..MaxTime /\ now \in 0..MaxTime
  BY <1>3 DEF RunningTx, IInv, ViewsOK
<1>7. PICK at \in x.begun..now :
         /\ views' = [views EXCEPT ![v] = RowAfter(ReceiptOf(x, at))]
         /\ receipts' = [receipts EXCEPT ![v] = Append(receipts[v], ReceiptOf(x, at))]
  BY DEF Commit
<1>8. at \in 0..MaxTime /\ x.begun <= at /\ at <= now
      /\ at \in Nat /\ now \in Nat /\ x.begun \in Nat
  BY <1>6, ViewAssumption
<1>9. x.version = RowOf(x.chain)
  BY <1>4, <1>5 DEF IInv, ViewsOK
<1> DEFINE r == ReceiptOf(x, at)
<1> HIDE DEF x
<1>10. /\ r \in Receipt
       /\ r.hash = Hash(v, Len(x.chain) + 1)
       /\ r.view_version <= Len(x.chain) + 1
       /\ r.recorded_at = at
       /\ r.operation = x.call.operation
       /\ IF x.chain = <<>> THEN Starts(r)
          ELSE Links(x.chain[Len(x.chain)], r) /\ Before(x.chain[Len(x.chain)], r)
  BY <1>2, <1>3, <1>5, <1>8, <1>9, ReceiptExtends
<1> HIDE DEF r
<1>11. InOrder(v, Append(x.chain, r), now)
  BY <1>2, <1>5, <1>8, <1>10, AppendInOrder
<1>12. /\ InOrder(v, Append(receipts[v], r), now)
       /\ r.operation = x.call.operation
       /\ views' = [views EXCEPT ![v] = RowAfter(r)]
       /\ receipts' = [receipts EXCEPT ![v] = Append(receipts[v], r)]
  BY <1>5, <1>7, <1>10, <1>11 DEF r
<1>13. \E q \in Receipt :
          /\ InOrder(v, Append(receipts[v], q), now)
          /\ q.operation = x.call.operation
          /\ views' = [views EXCEPT ![v] = RowAfter(q)]
          /\ receipts' = [receipts EXCEPT ![v] = Append(receipts[v], q)]
  BY <1>10, <1>12, Zenon
<1> QED BY <1>2, <1>3, <1>4, <1>5, <1>13, Zenon DEF x

LEMMA RowOfAppended ==
    ASSUME NEW chain \in Seq(Receipt), NEW r \in Receipt
    PROVE  /\ RowOf(Append(chain, r)) = RowAfter(r)
           /\ RowAfter(r) \in Versions \cup {NoVersion}
<1> DEFINE longer == Append(chain, r)
<1>1. longer # <<>> /\ longer[Len(longer)] = r
  OBVIOUS
<1>2. r.operation \in {"upsert", "drop"} /\ r.view_version \in Versions
  BY ReceiptFields
<1> HIDE DEF longer
<1>3. RowOf(longer) = RowAfter(r)
  BY <1>1, <1>2 DEF RowOf, RowAfter
<1> QED BY <1>2, <1>3 DEF RowAfter, longer

LEMMA CommitOK ==
    ASSUME IInv, NEW c \in Clients, Commit(c)
    PROVE  IInv'
<1> DEFINE x == tx[c]
           v == x.call.view
           dirtied(y) == IF y.phase = "running" /\ y.call.view = v
                         THEN [y EXCEPT !.dirty = TRUE] ELSE y
<1>1. x \in RunningTx /\ v \in Views /\ now' = now
  BY CommitWrites
<1>2. PICK r \in Receipt :
         /\ InOrder(v, Append(receipts[v], r), now)
         /\ views' = [views EXCEPT ![v] = RowAfter(r)]
         /\ receipts' = [receipts EXCEPT ![v] = Append(receipts[v], r)]
  BY CommitWrites
<1>3. tx' = [d \in Clients |-> IF d = c THEN Idle ELSE dirtied(tx[d])]
  BY DEF Commit
<1> HIDE DEF x
<1>4. /\ views \in [Views -> Versions \cup {NoVersion}]
      /\ receipts \in [Views -> Seq(Receipt)]
      /\ \A w \in Views : InOrder(w, receipts[w], now) /\ views[w] = RowOf(receipts[w])
      /\ now \in 0..MaxTime
  BY DEF IInv, ViewsOK
<1>5. /\ receipts[v] \in Seq(Receipt) /\ Append(receipts[v], r) \in Seq(Receipt)
      /\ RowOf(Append(receipts[v], r)) = RowAfter(r)
      /\ RowAfter(r) \in Versions \cup {NoVersion}
  <2>1. receipts[v] \in Seq(Receipt)
    BY <1>1, <1>4
  <2> QED BY <2>1, RowOfAppended
<1>6. /\ views'[v] = RowAfter(r) /\ receipts'[v] = Append(receipts[v], r)
      /\ \A w \in Views : w # v => views'[w] = views[w] /\ receipts'[w] = receipts[w]
      /\ views' \in [Views -> Versions \cup {NoVersion}]
      /\ receipts' \in [Views -> Seq(Receipt)]
  BY <1>1, <1>2, <1>4, <1>5
<1>7. ASSUME NEW w \in Views
      PROVE  InOrder(w, receipts'[w], now') /\ views'[w] = RowOf(receipts'[w])
  BY <1>1, <1>2, <1>4, <1>5, <1>6
<1>8. ViewsOK'
  BY <1>1, <1>4, <1>6, <1>7 DEF ViewsOK
<1>9. ASSUME NEW w \in Views
      PROVE  /\ Len(receipts[w]) \in Nat /\ Len(receipts'[w]) \in Nat
             /\ Len(receipts[w]) <= Len(receipts'[w])
             /\ \A i \in 1..Len(receipts[w]) : receipts'[w][i] = receipts[w][i]
  <2>1. ASSUME NEW chain \in Seq(Receipt)
        PROVE  /\ Len(chain) \in Nat /\ Len(Append(chain, r)) = Len(chain) + 1
               /\ \A i \in 1..Len(chain) : Append(chain, r)[i] = chain[i]
    OBVIOUS
  <2>2. receipts[w] \in Seq(Receipt)
    BY <1>4
  <2>3. CASE w = v
    BY <1>6, <2>1, <2>2, <2>3
  <2>4. CASE w # v
    BY <1>6, <2>1, <2>2, <2>4
  <2> QED BY <2>3, <2>4
<1>10. ASSUME NEW call, CallOK(call, receipts)
       PROVE  CallOK(call, receipts')
  <2>1. call \in Call /\ call.view \in Views
    BY <1>10 DEF CallOK, Call
  <2>2. ASSUME call.expected # NoVersion
        PROVE  /\ call.seen \in 1..Len(receipts'[call.view])
               /\ receipts'[call.view][call.seen] = receipts[call.view][call.seen]
    <3>1. call.seen \in 1..Len(receipts[call.view])
      BY <1>10, <2>2 DEF CallOK
    <3> QED BY <1>9, <2>1, <3>1
  <2> QED BY <1>10, <2>1, <2>2 DEF CallOK
<1>11. ASSUME NEW y, TxOK(y, views, receipts, now)
       PROVE  TxOK(dirtied(y), views', receipts', now')
  <2>1. CASE y = Idle
    <3>1. dirtied(y) = Idle
      BY <2>1 DEF Idle
    <3> QED BY <3>1, IdleOK
  <2>2. CASE y \in CalledTx /\ CallOK(y.call, receipts)
    <3>1. dirtied(y) = y
      BY <2>2 DEF CalledTx
    <3>2. CallOK(y.call, receipts')
      BY <1>10, <2>2
    <3> QED BY <2>2, <3>1, <3>2 DEF TxOK
  <2>3. CASE y \in RunningTx /\ CallOK(y.call, receipts) /\ SnapshotOK(y, views, receipts, now)
    <3>1. CallOK(y.call, receipts') /\ y.call.view \in Views /\ y.phase = "running"
      BY <1>10, <2>3 DEF RunningTx, Call
    <3>2. CASE y.call.view = v
      <4> DEFINE z == [y EXCEPT !.dirty = TRUE]
      <4>1. dirtied(y) = z
        BY <3>1, <3>2
      <4>2. z \in RunningTx /\ z.call = y.call /\ z.begun = y.begun /\ z.chain = y.chain /\ z.dirty = TRUE
        BY <2>3 DEF RunningTx
      <4> HIDE DEF z
      <4>3. SnapshotOK(z, views', receipts', now')
        BY <1>1, <2>3, <4>2 DEF SnapshotOK
      <4>4. TxOK(z, views', receipts', now')
        BY <3>1, <4>2, <4>3 DEF TxOK
      <4> QED BY <4>1, <4>4
    <3>3. CASE y.call.view # v
      <4>1. dirtied(y) = y
        BY <3>3
      <4>2. SnapshotOK(y, views', receipts', now')
        BY <1>1, <1>6, <2>3, <3>1, <3>3 DEF SnapshotOK
      <4> QED BY <2>3, <3>1, <4>1, <4>2 DEF TxOK
    <3> QED BY <3>2, <3>3
  <2> QED BY <1>11, <2>1, <2>2, <2>3 DEF TxOK
<1> HIDE DEF dirtied
<1>12. \A d \in Clients : TxOK(tx[d], views, receipts, now)
  BY DEF IInv, CallsOK
<1>13. ASSUME NEW d \in Clients PROVE TxOK(tx'[d], views', receipts', now')
  <2>1. CASE d = c
    BY <1>3, <2>1, IdleOK
  <2>2. CASE d # c
    <3>1. tx'[d] = dirtied(tx[d])
      BY <1>3, <2>2
    <3> QED BY <1>11, <1>12, <3>1
  <2> QED BY <2>1, <2>2
<1>14. tx' = [d \in Clients |-> tx'[d]]
  BY <1>3
<1> QED BY <1>8, <1>13, <1>14 DEF IInv, CallsOK

LEMMA Inductive ==
    ASSUME IInv, [Next]_vars
    PROVE  IInv'
<1>1. ASSUME NEW c \in Clients, NEW v \in Views, NEW operation \in {"upsert", "drop"},
             NEW guarded \in BOOLEAN, CallUpsertOrDrop(c, v, operation, guarded)
      PROVE  IInv'
  BY <1>1, CallOKStep
<1>2. ASSUME NEW c \in Clients, Begin(c) PROVE IInv'
  BY <1>2, BeginOK
<1>3. ASSUME NEW c \in Clients, Commit(c) PROVE IInv'
  BY <1>3, CommitOK
<1>4. ASSUME NEW c \in Clients, Refuse(c) \/ GiveUp(c) PROVE IInv'
  BY <1>4, RefuseOK
<1>5. ASSUME NEW c \in Clients, Rollback(c) PROVE IInv'
  BY <1>5, RollbackOK
<1>6. CASE Tick
  BY <1>6, TickOK
<1>7. CASE UNCHANGED vars
  BY <1>7 DEF vars, IInv, ViewsOK, CallsOK
<1> QED BY <1>1, <1>2, <1>3, <1>4, <1>5, <1>6, <1>7 DEF Next

LEMMA Invariance == Spec => []IInv
BY InitOK, Inductive, PTL DEF Spec

-----------------------------------------------------------------------------
(* The theorems.                                                            *)

\* The state of the views, of their receipts and of the calls has its type.
THEOREM TypeCorrect == Spec => []TypeOK
<1>1. ASSUME IInv PROVE TypeOK
  <2>1. ASSUME NEW c \in Clients
        PROVE  \/ tx[c] = Idle
               \/ tx[c] \in CalledTx
               \/ /\ tx[c].phase = "running"
                  /\ tx[c].call \in Call
                  /\ tx[c].version \in Versions \cup {NoVersion}
                  /\ tx[c].chain \in Seq(Receipt)
                  /\ tx[c].begun \in 0..now
                  /\ tx[c].dirty \in BOOLEAN
    <3>1. TxOK(tx[c], views, receipts, now)
      BY <1>1 DEF IInv, CallsOK
    <3>2. CASE tx[c] \in RunningTx /\ SnapshotOK(tx[c], views, receipts, now)
      <4>1. tx[c].begun \in 0..MaxTime /\ tx[c].begun <= now /\ now \in 0..MaxTime
        BY <1>1, <3>2 DEF RunningTx, SnapshotOK, IInv, ViewsOK
      <4>2. tx[c].begun \in 0..now
        BY <4>1, ViewAssumption
      <4>3. /\ tx[c].phase = "running"
            /\ tx[c].call \in Call
            /\ tx[c].version \in Versions \cup {NoVersion}
            /\ tx[c].chain \in Seq(Receipt)
            /\ tx[c].dirty \in BOOLEAN
        BY <3>2, Zenon DEF RunningTx
      <4> QED BY <4>2, <4>3
    <3> QED BY <3>1, <3>2 DEF TxOK
  <2> QED BY <1>1, <2>1 DEF TypeOK, IInv, ViewsOK, CalledTx
<1> QED BY <1>1, Invariance, PTL

\* A view is there, at a version, exactly when the latest of its receipts is
\* the upsert to this version: the receipts explain the views, whatever calls
\* race and however often they are retried.
THEOREM ReceiptsExplainViews == Spec => []ReceiptsTellViews
<1>1. ASSUME IInv PROVE ReceiptsTellViews
  <2>1. ASSUME NEW v \in Views
        PROVE  views[v] = IF receipts[v] = <<>> \/ Latest(receipts[v]).operation = "drop"
                          THEN NoVersion ELSE Latest(receipts[v]).view_version
    <3>1. InOrder(v, receipts[v], now) /\ views[v] = RowOf(receipts[v])
      BY <1>1 DEF IInv, ViewsOK
    <3>2. receipts[v] # <<>> => Latest(receipts[v]) = receipts[v][Len(receipts[v])]
      BY <3>1, OrderedIsValid
    <3> QED BY <3>1, <3>2 DEF RowOf
  <2> QED BY <2>1 DEF ReceiptsTellViews
<1> QED BY <1>1, Invariance, PTL

\* Two sequences of one.
LEMMA SeqOfOne ==
    ASSUME NEW s
    PROVE  SetToSeq({s}) = <<s>>
<1>1. Cardinality({s}) = 1
  BY FS_Singleton
<1>2. SetToSeq({s}) = CHOOSE f \in [1..1 -> {s}] : IsInjective(f)
  BY <1>1 DEF SetToSeq
<1>3. \A f \in [1..1 -> {s}] : f = <<s>>
  OBVIOUS
<1>4. <<s>> \in [1..1 -> {s}] /\ IsInjective(<<s>>)
  BY DEF IsInjective
<1> QED BY <1>2, <1>3, <1>4

LEMMA FlattenOfOne ==
    ASSUME NEW s
    PROVE  FlattenSeq(<<s>>) = s
<1> DEFINE F(f) == [i \in 1..1 |-> IF i = 1 THEN <<s>>[i] ELSE f[i - 1] \o <<s>>[i]]
           g == [i \in 1..1 |-> s]
<1>1. g = F(g)
  OBVIOUS
<1> DEFINE h == CHOOSE f : f = F(f)
<1>2. h = F(h)
  BY <1>1, Zenon
<1>3. h[1] = s
  BY <1>2
<1>4. FlattenSeq(<<s>>) = h[1]
  BY DEF FlattenSeq
<1> QED BY <1>3, <1>4

\* No two views of the catalog share a dotted identity.
DistinctIds == \A v, w \in Views : StableIdOf[v] = StableIdOf[w] => v = w

\* No listing of receipts ever fails and no view becomes unusable, as long as
\* no two views share a dotted identity: the receipts under every identity
\* are one valid chain.
THEOREM ChainsAreValid ==
    ASSUME DistinctIds
    PROVE  Spec => []ReceiptChainsValid
<1>1. ASSUME IInv PROVE ReceiptChainsValid
  <2>1. ASSUME NEW v \in Views
        PROVE  ValidChain(ReceiptsWith(StableIdOf[v]))
    <3>1. {w \in Views : StableIdOf[w] = StableIdOf[v]} = {v}
      BY DEF DistinctIds
    <3>2. {receipts[w] : w \in {w \in Views : StableIdOf[w] = StableIdOf[v]}} = {receipts[v]}
      BY <3>1
    <3>3. ReceiptsWith(StableIdOf[v]) = receipts[v]
      BY <3>2, SeqOfOne, FlattenOfOne DEF ReceiptsWith
    <3>4. InOrder(v, receipts[v], now)
      BY <1>1 DEF IInv, ViewsOK
    <3> QED BY <3>3, <3>4, OrderedIsValid
  <2> QED BY <2>1 DEF ReceiptChainsValid
<1> QED BY <1>1, Invariance, PTL

\* A call that names the version it expects takes effect only on the very
\* view its client read: between the read and the commit no other call
\* upserted, dropped or recreated the view.
THEOREM GuardedCallsAreExact == Spec => GuardedCallsSeeNoChange
<1> DEFINE exact(c) ==
             /\ tx[c].phase = "running"
             /\ tx[c].call.expected # NoVersion
             /\ receipts'[tx[c].call.view] # receipts[tx[c].call.view]
             /\ tx'[c] = Idle
             => tx[c].call.seen = Len(receipts[tx[c].call.view])
<1>1. ASSUME IInv, [Next]_vars PROVE [\A c \in Clients : exact(c)]_vars
  <2>1. ASSUME NEW c \in Clients, NEW d \in Clients, Commit(d) PROVE exact(c)
    <3>1. SUFFICES ASSUME tx[c].phase = "running", tx[c].call.expected # NoVersion,
                          tx'[c] = Idle
                   PROVE  tx[c].call.seen = Len(receipts[tx[c].call.view])
      OBVIOUS
    <3> DEFINE x == tx[c]
               v == x.call.view
               n == Len(receipts[v])
    <3>2. TxOK(x, views, receipts, now)
      BY <1>1 DEF IInv, CallsOK
    <3>3. x \in RunningTx /\ CallOK(x.call, receipts)
      BY <3>1, <3>2, PhaseTells
    <3>4. c = d
      <4>1. CASE c # d
        <5>1. tx'[c] = IF x.phase = "running" /\ x.call.view = tx[d].call.view
                       THEN [x EXCEPT !.dirty = TRUE] ELSE x
          BY <2>1, <4>1 DEF Commit
        <5>2. tx'[c].phase = "running"
          BY <3>1, <3>3, <5>1 DEF RunningTx
        <5> QED BY <3>1, <5>2 DEF Idle
      <4> QED BY <4>1
    <3>5. v \in Views /\ x.version = views[v] /\ Admits(x)
      BY <1>1, <2>1, <3>4, CommitWrites
    <3>6. views[v] = x.call.expected
      BY <3>1, <3>5 DEF Admits, Expected
    <3>7. InOrder(v, receipts[v], now) /\ views[v] = RowOf(receipts[v])
      BY <1>1, <3>5 DEF IInv, ViewsOK
    <3>8. receipts[v] # <<>> /\ receipts[v][n].operation # "drop"
          /\ receipts[v][n].view_version = x.call.expected
      BY <3>1, <3>6, <3>7 DEF RowOf
    <3>9. /\ x.call.seen \in 1..n /\ receipts[v][x.call.seen].view_version = x.call.expected
      BY <3>1, <3>3 DEF CallOK
    <3>10. /\ n \in Nat /\ n \in 1..n /\ receipts[v][n] \in Receipt
      BY <3>7, <3>8, LastReceipt
    <3>11. receipts[v][n].view_version \in Nat
      BY <3>10, ReceiptFields
    <3>12. CASE x.call.seen < n
      <4>1. Before(receipts[v][x.call.seen], receipts[v][n])
        BY <3>7, <3>9, <3>10, <3>12 DEF InOrder
      <4> QED BY <3>8, <3>9, <3>11, <4>1 DEF Before
    <3> QED BY <3>9, <3>10, <3>12
  <2>2. ASSUME NEW c \in Clients, UNCHANGED receipts PROVE exact(c)
    BY <2>2
  <2>3. CASE \E d \in Clients : Commit(d)
    BY <2>1, <2>3
  <2>4. CASE UNCHANGED receipts
    BY <2>2, <2>4
  <2>5. UNCHANGED vars \/ UNCHANGED receipts \/ \E d \in Clients : Commit(d)
    BY <1>1 DEF Next, CallUpsertOrDrop, Begin, Refuse, Rollback, GiveUp, Tick
  <2> QED BY <2>3, <2>4, <2>5
<1> QED BY <1>1, Invariance, PTL DEF Spec, GuardedCallsSeeNoChange
=============================================================================
