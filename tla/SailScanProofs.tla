---------------------------- MODULE SailScanProofs ----------------------------
(***************************************************************************)
(* Scan planning, for every set of files, filters, layouts and snapshots:  *)
(*   - pruning by column metrics never drops a file with a row the filter  *)
(*     is true of (PruningTheorem);                                        *)
(*   - the manifests of every snapshot hold what it and its ancestors did, *)
(*     and the reader's tokens stand for what is still to be read of it    *)
(*     (ScanInvariant);                                                    *)
(*   - hence scans of a snapshot and of the appends between two snapshots  *)
(*     read what they should, and tokens stay valid.                       *)
(***************************************************************************)
EXTENDS SailScan, FiniteSetTheorems, WellFoundedInduction, TLAPS

Less == {p \in Nat \X Nat : p[1] < p[2]}

LEMMA LessIsWellFounded == IsWellFoundedOn(Less, Nat)
BY NatLessThanWellFounded, Zenon DEF OpToRel, Less

\* Least counterexamples take the place of inductions.
LEMMA Least ==
    ASSUME NEW S, S \subseteq Nat, S # {}
    PROVE  \E x \in S : \A y \in S : x <= y
<1>1. PICK x \in S : \A y \in S : ~(<<y, x>> \in Less)
  BY LessIsWellFounded, WFMin
<1>2. ASSUME NEW y \in S PROVE x <= y
  <2>1. ~(y < x)
    BY <1>1 DEF Less
  <2> QED BY <2>1
<1> QED BY <1>2

-----------------------------------------------------------------------------
(* Recursive definitions over the filters.  One that looks only at filters   *)
(* of smaller depth has a solution, so what is written as a recursive        *)
(* function satisfies its own equation.                                      *)

\* Step is one unfolding: the value at f, given a function of all filters.
Unfolds(step, V) ==
    /\ step \in [Filters -> [[Filters -> V] -> V]]
    /\ \A f \in Filters : \A g, h \in [Filters -> V] :
          (\A x \in Inside(f) : g[x] = h[x]) => step[f][g] = step[f][h]

\* Take a solution for the least depth that has none: one step further solves
\* it.
LEMMA Solvable ==
    ASSUME NEW V, V # {}, NEW step, Unfolds(step, V)
    PROVE  \E g \in [Filters -> V] : \A f \in Filters : g[f] = step[f][g]
<1> DEFINE Solved(n) == {g \in [Filters -> V] :
                            \A f \in Filters : Depth[f] < n => g[f] = step[f][g]}
           Stuck == {n \in Nat : Solved(n) = {}}
<1>1. Solved(0) # {}
  <2>1. PICK v \in V : TRUE
    OBVIOUS
  <2>2. [f \in Filters |-> v] \in Solved(0)
    BY FilterAssumption
  <2> QED BY <2>2
<1>2. ASSUME NEW n \in Nat, NEW g \in Solved(n) PROVE Solved(n + 1) # {}
  <2> DEFINE h == [f \in Filters |-> IF Depth[f] < n THEN g[f] ELSE step[f][g]]
  <2>1. h \in [Filters -> V]
    BY DEF Unfolds
  <2>2. ASSUME NEW f \in Filters, Depth[f] < n + 1 PROVE h[f] = step[f][h]
    <3>1. \A x \in Inside(f) : x \in Filters /\ Depth[x] < n
      BY <2>2, FilterAssumption, BoundsAssumption
    <3>2. step[f][h] = step[f][g]
      BY <2>1, <3>1 DEF Unfolds
    <3> QED BY <3>2
  <2>3. h \in Solved(n + 1)
    BY <2>1, <2>2
  <2> QED BY <2>3
<1>3. Stuck = {}
  <2> SUFFICES ASSUME Stuck # {} PROVE FALSE
    OBVIOUS
  <2>0. Stuck \in SUBSET Nat
    OBVIOUS
  <2>1. PICK n \in Stuck : \A m \in Stuck : n <= m
    <3> HIDE DEF Stuck
    <3> QED BY <2>0, Least
  <2>2. n # 0
    BY <1>1
  <2>3. n - 1 \in Nat /\ n - 1 \notin Stuck /\ (n - 1) + 1 = n
    BY <2>1, <2>2
  <2>4. PICK g \in Solved(n - 1) : TRUE
    BY <2>3
  <2>5. Solved((n - 1) + 1) # {}
    BY <1>2, <2>3, <2>4
  <2> QED BY <2>3, <2>5
<1>4. PICK g \in Solved(MaxDepth + 1) : TRUE
  <2>1. MaxDepth + 1 \in Nat
    BY BoundsAssumption
  <2>2. MaxDepth + 1 \notin Stuck
    <3> HIDE DEF Stuck
    <3> QED BY <1>3
  <2> QED BY <2>1, <2>2
<1>5. \A f \in Filters : Depth[f] < MaxDepth + 1
  BY FilterAssumption, BoundsAssumption
<1> QED BY <1>4, <1>5

\* A set of filters that has no innermost filter is empty.
LEMMA LeastDepth ==
    ASSUME NEW S, S \subseteq Filters, \A f \in S : \E x \in S : Depth[x] < Depth[f]
    PROVE  S = {}
<1> DEFINE D == {Depth[f] : f \in S}
<1> SUFFICES ASSUME S # {} PROVE FALSE
  OBVIOUS
<1>1. D \subseteq Nat /\ D # {}
  BY FilterAssumption, BoundsAssumption
<1>2. PICK n \in D : \A k \in D : n <= k
  <2> HIDE DEF D
  <2> QED BY <1>1, Least
<1>3. PICK f \in S : n = Depth[f]
  BY <1>2
<1>4. PICK x \in S : Depth[x] < Depth[f]
  BY <1>3
<1>5. Depth[x] \in D
  OBVIOUS
<1>6. n \in Nat /\ Depth[x] \in Nat /\ n <= Depth[x]
  BY <1>1, <1>2, <1>5
<1> QED BY <1>3, <1>4, <1>6

\* Every answer about a literal is a truth value.
LEMMA LiteralIsBoolean ==
    ASSUME NEW d, NEW op, NEW v PROVE LiteralMayMatch(d, op, v) \in BOOLEAN
<1>1. \A s, t : Before(s, t) \in BOOLEAN
  BY DEF Before
<1>2. \A s, t : AtMost(s, t) \in BOOLEAN
  BY DEF AtMost
<1>3. \A s, t : IsPrefix(s, t) \in BOOLEAN
  BY DEF IsPrefix
<1>4. OverlapsBounds(v, d) \in BOOLEAN
  BY DEF OverlapsBounds
<1>5. PrefixOverlapsBounds(v, d) \in BOOLEAN
  BY DEF PrefixOverlapsBounds
<1> QED BY <1>1, <1>2, <1>3, <1>4, <1>5 DEF LiteralMayMatch

\* What is inside a filter, and the cases of data_file_may_match_filter.
LEMMA Insides ==
    ASSUME NEW f
    PROVE  /\ f.type \in {"and", "or"} => Inside(f) = {f.left, f.right}
           /\ f.type = "not" => Inside(f) = {f.child}
BY DEF Inside

\* MayMatchStep, case by case.
LEMMA MayMatchCases ==
    ASSUME NEW d, NEW m, NEW f \in Filters
    PROVE  /\ f.type = "false" => ~MayMatchStep(d, m, f)
           /\ f.type = "and" => (MayMatchStep(d, m, f) <=> m[f.left] /\ m[f.right])
           /\ f.type = "or" => (MayMatchStep(d, m, f) <=> m[f.left] \/ m[f.right])
           /\ f.type = "in" => (MayMatchStep(d, m, f) <=>
                                   \E v \in f.values : LiteralMayMatch(d, "eq", v))
           /\ f.type = "not-in" => (MayMatchStep(d, m, f) <=>
                                       ExactValue(d) = None \/ ExactValue(d) \notin f.values)
           /\ f.type \in Literals =>
                 (MayMatchStep(d, m, f) <=> LiteralMayMatch(d, f.type, f.value))
           /\ f.type = "is-null" => (MayMatchStep(d, m, f) <=> NullCount(d) > 0)
           /\ f.type = "not-null" => (MayMatchStep(d, m, f) <=> NullCount(d) < RecordCount(d))
           /\ f.type \in {"true", "not"} => MayMatchStep(d, m, f)
BY DEF MayMatchStep, Literals

\* One step of the pruning answers yes or no.
LEMMA MayMatchIsBoolean ==
    ASSUME NEW d, NEW f \in Filters, NEW m, \A x \in Inside(f) : m[x] \in BOOLEAN
    PROVE  MayMatchStep(d, m, f) \in BOOLEAN
<1>1. CASE f.type \in {"and", "or"}
  BY <1>1, Insides DEF MayMatchStep, Literals
<1>2. CASE f.type \in {"true", "false", "not"}
  <2>1. MayMatchStep(d, m, f) = (f.type # "false")
    BY <1>2 DEF MayMatchStep, Literals
  <2> QED BY <2>1, Zenon
<1>6. CASE f.type = "is-null"
  BY <1>6 DEF MayMatchStep, Literals
<1>7. CASE f.type = "not-null"
  BY <1>7 DEF MayMatchStep, Literals
<1>4. CASE f.type = "in"
  <2>1. MayMatchStep(d, m, f) = (\E v \in f.values : LiteralMayMatch(d, "eq", v))
    BY <1>4 DEF MayMatchStep, Literals
  <2> QED BY <2>1, Zenon
<1>5. CASE f.type = "not-in"
  BY <1>5 DEF MayMatchStep, Literals
<1>3. CASE f.type \in Literals
  <2>1. MayMatchStep(d, m, f) = LiteralMayMatch(d, f.type, f.value)
    BY <1>3 DEF MayMatchStep, Literals
  <2> QED BY <2>1, LiteralIsBoolean, Zenon
<1> QED BY <1>1, <1>2, <1>3, <1>4, <1>5, <1>6, <1>7, FilterAssumption

\* data_file_may_match_filter is what its cases say.
LEMMA MayMatchUnfolds ==
    ASSUME NEW d
    PROVE  \E may \in [Filters -> BOOLEAN] :
              \A f \in Filters : /\ MayMatch(d, f) = may[f]
                                 /\ may[f] = MayMatchStep(d, may, f)
<1> DEFINE step == [f \in Filters |-> [m \in [Filters -> BOOLEAN] |-> MayMatchStep(d, m, f)]]
           M == CHOOSE m : m = [g \in Filters |-> MayMatchStep(d, m, g)]
<1>1. ASSUME NEW f \in Filters, NEW m \in [Filters -> BOOLEAN]
      PROVE  MayMatchStep(d, m, f) \in BOOLEAN
  BY MayMatchIsBoolean, FilterAssumption
<1>2. ASSUME NEW f \in Filters, NEW g \in [Filters -> BOOLEAN], NEW h \in [Filters -> BOOLEAN],
             \A x \in Inside(f) : g[x] = h[x]
      PROVE  MayMatchStep(d, g, f) = MayMatchStep(d, h, f)
  <2>1. f.type \in {"and", "or"} => g[f.left] = h[f.left] /\ g[f.right] = h[f.right]
    BY <1>2, Insides
  <2>2. MayMatchStep(d, g, f) <=> MayMatchStep(d, h, f)
    BY <2>1, MayMatchCases, FilterAssumption
  <2>3. MayMatchStep(d, g, f) \in BOOLEAN /\ MayMatchStep(d, h, f) \in BOOLEAN
    BY <1>1
  <2> QED BY <2>2, <2>3
<1>3. Unfolds(step, BOOLEAN)
  <2>1. step \in [Filters -> [[Filters -> BOOLEAN] -> BOOLEAN]]
    BY <1>1
  <2>2. \A f \in Filters : \A g \in [Filters -> BOOLEAN] : step[f][g] = MayMatchStep(d, g, f)
    OBVIOUS
  <2> HIDE DEF step
  <2>3. ASSUME NEW f \in Filters, NEW g \in [Filters -> BOOLEAN], NEW h \in [Filters -> BOOLEAN],
               \A x \in Inside(f) : g[x] = h[x]
        PROVE  step[f][g] = step[f][h]
    <3>1. MayMatchStep(d, g, f) = MayMatchStep(d, h, f)
      BY <1>2, <2>3
    <3> QED BY <2>2, <3>1
  <2> QED BY <2>1, <2>3, Zenon DEF Unfolds
<1>4. PICK m \in [Filters -> BOOLEAN] : \A f \in Filters : m[f] = step[f][m]
  <2> HIDE DEF step
  <2> DEFINE B == BOOLEAN
  <2>1. B # {} /\ Unfolds(step, B)
    BY <1>3
  <2> HIDE DEF B
  <2>2. \E g \in [Filters -> B] : \A f \in Filters : g[f] = step[f][g]
    BY <2>1, Solvable
  <2> QED BY <2>2 DEF B
<1>5. m = [g \in Filters |-> MayMatchStep(d, m, g)]
  BY <1>4
<1>6. M = [g \in Filters |-> MayMatchStep(d, M, g)]
  BY <1>5
<1>7. \A f \in Filters : M[f] = MayMatchStep(d, M, f)
  BY <1>6
<1>8. \A f \in Filters : M[f] \in BOOLEAN
  <2> DEFINE Odd == {f \in Filters : M[f] \notin BOOLEAN}
  <2>1. ASSUME NEW f \in Odd PROVE \E x \in Odd : Depth[x] < Depth[f]
    <3>1. PICK x \in Inside(f) : M[x] \notin BOOLEAN
      BY <1>7, MayMatchIsBoolean
    <3> QED BY <3>1, FilterAssumption
  <2> QED BY <2>1, LeastDepth
<1>9. \A f \in Filters : MayMatch(d, f) = M[f]
  BY DEF MayMatch
<1> QED BY <1>6, <1>7, <1>8, <1>9

-----------------------------------------------------------------------------
(* The reference definition satisfies its equation too.                      *)

Truths == {"true", "false", "unknown"}

\* MeaningStep, case by case.
LEMMA MeaningCases ==
    ASSUME NEW row, NEW is, NEW f \in Filters
    PROVE  /\ f.type = "true" => MeaningStep(row, is, f) = "true"
           /\ f.type = "false" => MeaningStep(row, is, f) = "false"
           /\ f.type = "and" => MeaningStep(row, is, f) = And(is[f.left], is[f.right])
           /\ f.type = "or" => MeaningStep(row, is, f) = Or(is[f.left], is[f.right])
           /\ f.type = "not" => MeaningStep(row, is, f) = Not(is[f.child])
           /\ f.type = "is-null" => MeaningStep(row, is, f) = Known(row = Null)
           /\ f.type = "not-null" => MeaningStep(row, is, f) = Known(row # Null)
           /\ f.type \in Literals \cup {"in", "not-in"} =>
                 MeaningStep(row, is, f) = IF row = Null THEN "unknown" ELSE Known(Compare(row, f))
BY DEF MeaningStep, Literals

\* One step of the reference definition gives one of the three truth values.
LEMMA MeaningIsTruth ==
    ASSUME NEW row, NEW f \in Filters, NEW is, \A x \in Inside(f) : is[x] \in Truths
    PROVE  MeaningStep(row, is, f) \in Truths
<1>1. CASE f.type \in {"and", "or"}
  <2>1. is[f.left] \in Truths /\ is[f.right] \in Truths
    BY <1>1, Insides
  <2> QED BY <1>1, <2>1, MeaningCases DEF And, Or, Not, Truths
<1>2. CASE f.type = "not"
  <2>1. is[f.child] \in Truths
    BY <1>2, Insides
  <2> QED BY <1>2, <2>1, MeaningCases DEF Not, Truths
<1>3. CASE f.type \notin {"and", "or", "not"}
  <2>1. \A b : Known(b) \in Truths
    BY DEF Known, Truths
  <2> QED BY <1>3, <2>1, MeaningCases, FilterAssumption DEF Truths
<1> QED BY <1>1, <1>2, <1>3

\* The same for the reference definition.
LEMMA MeaningUnfolds ==
    ASSUME NEW row
    PROVE  \E is \in [Filters -> Truths] :
              \A f \in Filters : /\ Meaning(row, f) = is[f]
                                 /\ is[f] = MeaningStep(row, is, f)
<1> DEFINE step == [f \in Filters |-> [m \in [Filters -> Truths] |-> MeaningStep(row, m, f)]]
           M == CHOOSE m : m = [g \in Filters |-> MeaningStep(row, m, g)]
<1>1. ASSUME NEW f \in Filters, NEW m \in [Filters -> Truths]
      PROVE  MeaningStep(row, m, f) \in Truths
  BY MeaningIsTruth, FilterAssumption
<1>2. ASSUME NEW f \in Filters, NEW g \in [Filters -> Truths], NEW h \in [Filters -> Truths],
             \A x \in Inside(f) : g[x] = h[x]
      PROVE  MeaningStep(row, g, f) = MeaningStep(row, h, f)
  <2>1. /\ f.type \in {"and", "or"} => g[f.left] = h[f.left] /\ g[f.right] = h[f.right]
        /\ f.type = "not" => g[f.child] = h[f.child]
    BY <1>2, Insides
  <2> QED BY <2>1, MeaningCases, FilterAssumption
<1>3. Unfolds(step, Truths)
  <2>1. step \in [Filters -> [[Filters -> Truths] -> Truths]]
    BY <1>1
  <2>2. \A f \in Filters : \A g \in [Filters -> Truths] : step[f][g] = MeaningStep(row, g, f)
    OBVIOUS
  <2> HIDE DEF step
  <2>3. ASSUME NEW f \in Filters, NEW g \in [Filters -> Truths], NEW h \in [Filters -> Truths],
               \A x \in Inside(f) : g[x] = h[x]
        PROVE  step[f][g] = step[f][h]
    <3>1. MeaningStep(row, g, f) = MeaningStep(row, h, f)
      BY <1>2, <2>3
    <3> QED BY <2>2, <3>1
  <2> QED BY <2>1, <2>3, Zenon DEF Unfolds
<1>4. PICK m \in [Filters -> Truths] : \A f \in Filters : m[f] = step[f][m]
  <2> HIDE DEF step
  <2>1. Truths # {}
    BY DEF Truths
  <2> DEFINE T == Truths
  <2>2. T # {} /\ Unfolds(step, T)
    BY <1>3, <2>1
  <2> HIDE DEF T
  <2>3. \E g \in [Filters -> T] : \A f \in Filters : g[f] = step[f][g]
    BY <2>2, Solvable
  <2> QED BY <2>3 DEF T
<1>5. m = [g \in Filters |-> MeaningStep(row, m, g)]
  BY <1>4
<1>6. M = [g \in Filters |-> MeaningStep(row, M, g)]
  BY <1>5
<1>7. \A f \in Filters : M[f] = MeaningStep(row, M, f)
  BY <1>6
<1>8. \A f \in Filters : M[f] \in Truths
  <2> DEFINE Odd == {f \in Filters : M[f] \notin Truths}
  <2>1. ASSUME NEW f \in Odd PROVE \E x \in Odd : Depth[x] < Depth[f]
    <3>1. PICK x \in Inside(f) : M[x] \notin Truths
      <4> HIDE DEF M
      <4> QED BY <1>7, MeaningIsTruth
    <3> QED BY <3>1, FilterAssumption
  <2> QED BY <2>1, LeastDepth
<1>9. \A f \in Filters : Meaning(row, f) = M[f]
  BY DEF Meaning
<1> QED BY <1>6, <1>7, <1>8, <1>9

-----------------------------------------------------------------------------
(* Byte strings: a total order with least and greatest elements of finite    *)
(* sets.                                                                     *)

\* The facts about byte strings that the provers need.
LEMMA BytesAre ==
    ASSUME NEW s \in Bytes
    PROVE  Len(s) \in Nat /\ \A j \in 1..Len(s) : s[j] \in 0..MaxByte /\ s[j] \in Int
<1>1. Len(s) \in Nat
  BY DEF Bytes
<1>2. ASSUME NEW j \in 1..Len(s) PROVE s[j] \in 0..MaxByte
  BY BoundsAssumption DEF Bytes
<1>3. ASSUME NEW j \in 1..Len(s) PROVE s[j] \in Int
  BY <1>2, BoundsAssumption
<1> QED BY <1>1, <1>2, <1>3

\* Two strings that differ have a first place where they do.
LEMMA FirstDifference ==
    ASSUME NEW s \in Bytes, NEW t \in Bytes, s # t
    PROVE  Before(s, t) \/ Before(t, s)
<1> DEFINE D == {i \in Nat : /\ i \in 1..Len(s) \/ i \in 1..Len(t)
                             /\ ~(i \in 1..Len(s) /\ i \in 1..Len(t) /\ s[i] = t[i])}
<1>1. D # {}
  <2> SUFFICES ASSUME D = {} PROVE FALSE
    OBVIOUS
  <2>1. \A i \in Nat : i \in 1..Len(s) <=> i \in 1..Len(t)
    OBVIOUS
  <2>2. Len(s) = Len(t)
    BY <2>1 DEF Bytes
  <2>3. \A i \in 1..Len(s) : s[i] = t[i]
    OBVIOUS
  <2> QED BY <2>2, <2>3 DEF Bytes
<1>2. PICK i \in D : \A j \in D : i <= j
  <2>1. D \subseteq Nat
    OBVIOUS
  <2> HIDE DEF D
  <2> QED BY <1>1, <2>1, Least
<1>3. \A j \in 1..(i - 1) : j <= Len(s) /\ j <= Len(t) /\ s[j] = t[j]
  BY <1>2 DEF Bytes
<1>4. \A j \in 1..Len(s) : s[j] \in Int
  BY BytesAre
<1>5. \A j \in 1..Len(t) : t[j] \in Int
  BY BytesAre
<1>6. Len(s) \in Nat /\ Len(t) \in Nat /\ i \in Nat
  BY BytesAre
<1>7. CASE i > Len(s)
  BY <1>3, <1>6, <1>7 DEF Before
<1>8. CASE i > Len(t)
  BY <1>3, <1>6, <1>8 DEF Before
<1>9. CASE i <= Len(s) /\ i <= Len(t)
  BY <1>3, <1>4, <1>5, <1>6, <1>9 DEF Before
<1> QED BY <1>6, <1>7, <1>8, <1>9

\* Of two different strings at most one comes before the other.
LEMMA BeforeIsStrict ==
    ASSUME NEW s \in Bytes, NEW t \in Bytes, Before(s, t)
    PROVE  s # t /\ ~Before(t, s)
<1>1. PICK i \in 1..Len(t) :
         /\ \A j \in 1..(i - 1) : j <= Len(s) /\ s[j] = t[j]
         /\ i = Len(s) + 1 \/ (i <= Len(s) /\ s[i] < t[i])
  BY DEF Before
<1>2. /\ \A j \in 1..Len(s) : s[j] \in Int
      /\ \A j \in 1..Len(t) : t[j] \in Int
      /\ Len(s) \in Nat /\ Len(t) \in Nat
  BY BytesAre
<1>3. s # t
  BY <1>1, <1>2
<1>4. ASSUME NEW k \in 1..Len(s),
             \A j \in 1..(k - 1) : j <= Len(t) /\ t[j] = s[j],
             k = Len(t) + 1 \/ (k <= Len(t) /\ t[k] < s[k])
      PROVE  FALSE
  <2>1. CASE k < i
    BY <1>1, <1>2, <1>4, <2>1
  <2>2. CASE k = i
    BY <1>1, <1>2, <1>4, <2>2
  <2>3. CASE k > i
    BY <1>1, <1>2, <1>4, <2>3
  <2> QED BY <1>2, <2>1, <2>2, <2>3
<1> QED BY <1>3, <1>4 DEF Before

\* The order of byte strings is transitive.
LEMMA BeforeIsTransitive ==
    ASSUME NEW s \in Bytes, NEW t \in Bytes, NEW u \in Bytes, Before(s, t), Before(t, u)
    PROVE  Before(s, u)
<1>1. PICK i \in 1..Len(t) :
         /\ \A j \in 1..(i - 1) : j <= Len(s) /\ s[j] = t[j]
         /\ i = Len(s) + 1 \/ (i <= Len(s) /\ s[i] < t[i])
  BY DEF Before
<1>2. PICK k \in 1..Len(u) :
         /\ \A j \in 1..(k - 1) : j <= Len(t) /\ t[j] = u[j]
         /\ k = Len(t) + 1 \/ (k <= Len(t) /\ t[k] < u[k])
  BY DEF Before
<1>3. /\ \A j \in 1..Len(s) : s[j] \in Int
      /\ \A j \in 1..Len(t) : t[j] \in Int
      /\ \A j \in 1..Len(u) : u[j] \in Int
      /\ Len(s) \in Nat /\ Len(t) \in Nat /\ Len(u) \in Nat
  BY BytesAre
<1>4. CASE i < k
  <2>1. i \in 1..Len(u) /\ t[i] = u[i]
    BY <1>2, <1>3, <1>4
  <2>2. \A j \in 1..(i - 1) : j <= Len(s) /\ s[j] = u[j]
    BY <1>1, <1>2, <1>3, <1>4
  <2> QED BY <1>1, <2>1, <2>2 DEF Before
<1>5. CASE k <= i
  <2>1. \A j \in 1..(k - 1) : j <= Len(s) /\ s[j] = u[j]
    BY <1>1, <1>2, <1>3, <1>5
  <2>2. k = Len(s) + 1 \/ (k <= Len(s) /\ s[k] < u[k])
    <3>1. CASE k = i
      BY <1>1, <1>2, <1>3, <3>1
    <3>2. CASE k < i
      BY <1>1, <1>2, <1>3, <3>2
    <3> QED BY <1>3, <1>5, <3>1, <3>2
  <2> QED BY <2>1, <2>2 DEF Before
<1> QED BY <1>3, <1>4, <1>5

\* Hence AtMost is a linear order.
LEMMA AtMostIsAnOrder ==
    ASSUME NEW s \in Bytes, NEW t \in Bytes, NEW u \in Bytes
    PROVE  /\ AtMost(s, t) \/ AtMost(t, s)
           /\ AtMost(s, t) /\ AtMost(t, s) => s = t
           /\ AtMost(s, t) /\ AtMost(t, u) => AtMost(s, u)
           /\ Before(s, t) /\ AtMost(t, u) => Before(s, u)
           /\ AtMost(s, t) /\ Before(t, u) => Before(s, u)
           /\ AtMost(s, t) <=> ~Before(t, s)
<1>1. s # t => Before(s, t) \/ Before(t, s)
  BY FirstDifference
<1>2. /\ Before(s, t) => s # t /\ ~Before(t, s)
      /\ Before(t, s) => s # t /\ ~Before(s, t)
  BY BeforeIsStrict
<1>3. Before(s, t) /\ Before(t, u) => Before(s, u)
  BY BeforeIsTransitive
<1> QED BY <1>1, <1>2, <1>3 DEF AtMost

Lowest(S) == {v \in S : \A w \in S : AtMost(v, w)}
Highest(S) == {v \in S : \A w \in S : AtMost(w, v)}

\* A set without one of its members has one member less.
LEMMA SmallerSet ==
    ASSUME NEW T, IsFiniteSet(T), NEW x \in T
    PROVE  /\ IsFiniteSet(T \ {x}) /\ Cardinality(T) \in Nat
           /\ Cardinality(T \ {x}) \in Nat /\ Cardinality(T \ {x}) < Cardinality(T)
<1>1. IsFiniteSet(T \ {x}) /\ Cardinality(T \ {x}) = Cardinality(T) - 1
  BY FS_RemoveElement
<1>2. Cardinality(T) \in Nat /\ Cardinality(T \ {x}) \in Nat
  BY <1>1, FS_CardinalityType
<1> QED BY <1>1, <1>2

\* So a finite set of byte strings has a least and a greatest member: the
\* bounds exist.
LEMMA FiniteSetsHaveExtremes ==
    ASSUME NEW S, S \subseteq Bytes, IsFiniteSet(S), S # {}
    PROVE  Lowest(S) # {} /\ Highest(S) # {}
<1> DEFINE Odd == {T \in SUBSET S : T # {} /\ ~(Lowest(T) # {} /\ Highest(T) # {})}
           Sizes == {Cardinality(T) : T \in Odd}
<1> SUFFICES ASSUME Odd # {} PROVE FALSE
  OBVIOUS
<1>1. \A T \in Odd : IsFiniteSet(T) /\ Cardinality(T) \in Nat
  BY FS_Subset, FS_CardinalityType
<1>2. PICK n \in Sizes : \A m \in Sizes : n <= m
  <2>1. Sizes \subseteq Nat /\ Sizes # {}
    BY <1>1
  <2> HIDE DEF Sizes
  <2> QED BY <2>1, Least
<1>3. PICK T \in Odd : n = Cardinality(T)
  BY <1>2
<1>4. PICK x \in T : x \in Bytes
  OBVIOUS
<1> DEFINE R == T \ {x}
<1>5. R \notin Odd
  <2>1. Cardinality(R) \in Nat /\ Cardinality(R) < n /\ n \in Nat
    BY <1>1, <1>3, SmallerSet
  <2> QED BY <1>2, <2>1
<1>6. R = {} => x \in Lowest(T) /\ x \in Highest(T)
  BY DEF Lowest, Highest, AtMost
<1>7. PICK v \in R, w \in R : v \in Lowest(R) /\ w \in Highest(R)
  BY <1>3, <1>5, <1>6 DEF Lowest, Highest
<1>8. v \in Bytes /\ w \in Bytes /\ \A y \in R : y \in Bytes
  BY <1>7
<1>9. v \in Lowest(T) \/ x \in Lowest(T)
  <2>1. CASE AtMost(v, x)
    BY <1>7, <2>1 DEF Lowest
  <2>2. CASE AtMost(x, v)
    <3>1. ASSUME NEW y \in R PROVE AtMost(x, y)
      BY <1>4, <1>7, <1>8, <2>2, AtMostIsAnOrder DEF Lowest
    <3> QED BY <3>1 DEF Lowest, AtMost
  <2> QED BY <1>4, <1>8, <2>1, <2>2, AtMostIsAnOrder
<1>10. w \in Highest(T) \/ x \in Highest(T)
  <2>1. CASE AtMost(x, w)
    BY <1>7, <2>1 DEF Highest
  <2>2. CASE AtMost(w, x)
    <3>1. ASSUME NEW y \in R PROVE AtMost(y, x)
      BY <1>4, <1>7, <1>8, <2>2, AtMostIsAnOrder DEF Highest
    <3> QED BY <3>1 DEF Highest, AtMost
  <2> QED BY <1>4, <1>8, <2>1, <2>2, AtMostIsAnOrder
<1> QED BY <1>3, <1>9, <1>10

\* A prefix comes before what it is a prefix of.
LEMMA PrefixIsAtMost ==
    ASSUME NEW p \in Bytes, NEW v \in Bytes, IsPrefix(p, v)
    PROVE  AtMost(p, v)
<1>1. Len(p) \in Nat /\ Len(v) \in Nat
  BY BytesAre
<1>2. CASE Len(p) = Len(v)
  <2>1. p = v
    BY <1>2 DEF IsPrefix, Bytes
  <2> QED BY <2>1 DEF AtMost
<1>3. CASE Len(p) < Len(v)
  <2>1. Len(p) + 1 \in 1..Len(v) /\ \A j \in 1..((Len(p) + 1) - 1) : j <= Len(p) /\ p[j] = v[j]
    BY <1>1, <1>3 DEF IsPrefix
  <2>2. Before(p, v)
    BY <1>1, <2>1 DEF Before
  <2> QED BY <2>2 DEF AtMost
<1> QED BY <1>1, <1>2, <1>3 DEF IsPrefix

\* What starts with a prefix comes before the next prefix.
LEMMA NextPrefixIsAbove ==
    ASSUME NEW p \in Bytes, NextPrefix(p) # None
    PROVE  /\ NextPrefix(p) \in Bytes
           /\ \A v \in Bytes : IsPrefix(p, v) => Before(v, NextPrefix(p))
<1> DEFINE open == {i \in DOMAIN p : p[i] # MaxByte}
           last == CHOOSE i \in open : \A j \in open : j <= i
<1>1. open # {} /\ NextPrefix(p) = Append(SubSeq(p, 1, last - 1), p[last] + 1)
  BY DEF NextPrefix
<1>2. Len(p) \in Nat /\ DOMAIN p = 1..Len(p) /\ open \subseteq 1..Len(p)
  BY DEF Bytes
<1>3. \E i \in open : \A j \in open : j <= i
  <2> DEFINE Rest == {Len(p) - i : i \in open}
  <2>1. Rest \subseteq Nat /\ Rest # {}
    BY <1>1, <1>2
  <2>2. PICK r \in Rest : \A q \in Rest : r <= q
    <3> HIDE DEF Rest
    <3> QED BY <2>1, Least
  <2>3. PICK i \in open : r = Len(p) - i
    BY <2>2
  <2>4. ASSUME NEW j \in open PROVE j <= i
    <3>1. r <= Len(p) - j
      BY <2>2
    <3> QED BY <1>2, <2>3, <3>1
  <2> QED BY <2>4
<1>4. last \in open
  <2> HIDE DEF open
  <2> QED BY <1>3
<1> HIDE DEF last
<1>5. last \in 1..Len(p) /\ p[last] \in 0..MaxByte /\ p[last] + 1 \in 0..MaxByte
  BY <1>2, <1>4, BoundsAssumption DEF Bytes
<1>6. \A j \in 1..(last - 1) : j \in 1..Len(p) /\ p[j] \in 0..MaxByte
  <2>1. \A j \in 1..Len(p) : p[j] \in 0..MaxByte
    BY BytesAre
  <2>2. ASSUME NEW j \in 1..(last - 1) PROVE j \in 1..Len(p)
    BY <1>2, <1>5
  <2> QED BY <2>1, <2>2
<1>7. /\ SubSeq(p, 1, last - 1) \in Bytes /\ Len(SubSeq(p, 1, last - 1)) = last - 1
      /\ \A j \in 1..(last - 1) : SubSeq(p, 1, last - 1)[j] = p[j]
  BY <1>2, <1>5, <1>6 DEF Bytes
<1> DEFINE n == NextPrefix(p)
<1>8. /\ n \in Bytes /\ Len(n) = last /\ n[last] = p[last] + 1
      /\ \A j \in 1..(last - 1) : n[j] = p[j]
  BY <1>1, <1>5, <1>7 DEF Bytes
<1> HIDE DEF n
<1>9. ASSUME NEW v \in Bytes, IsPrefix(p, v) PROVE Before(v, n)
  <2>1. last <= Len(v) /\ v[last] < n[last] /\ Len(v) \in Nat
    BY <1>2, <1>5, <1>8, <1>9, BytesAre DEF IsPrefix
  <2>2. \A j \in 1..(last - 1) : j <= Len(v) /\ v[j] = n[j]
    BY <1>2, <1>5, <1>8, <1>9, <2>1 DEF IsPrefix
  <2> QED BY <1>5, <1>8, <2>1, <2>2 DEF Before
<1> QED BY <1>8, <1>9 DEF n

-----------------------------------------------------------------------------
(* Pruning *)

\* What is assumed of every data file.
DataFile(d) == /\ d.rows \subseteq Bytes \cup {Null} /\ IsFiniteSet(d.rows)
               /\ d.bounds \in BOOLEAN /\ d.counts \in BOOLEAN

\* The bounds of a file, when it has them, enclose its values.
LEMMA BoundsEnclose ==
    ASSUME NEW d, DataFile(d), NEW row \in d.rows, row # Null
    PROVE  /\ row \in Bytes
           /\ Lower(d) # None => Lower(d) \in Bytes /\ AtMost(Lower(d), row)
           /\ Upper(d) # None => Upper(d) \in Bytes /\ AtMost(row, Upper(d))
<1>1. /\ row \in Values(d) /\ Values(d) \subseteq Bytes /\ Values(d) # {} /\ IsFiniteSet(Values(d))
  BY FS_Subset DEF Values, DataFile
<1>2. Lowest(Values(d)) # {} /\ Highest(Values(d)) # {}
  BY <1>1, FiniteSetsHaveExtremes
<1>3. Lower(d) # None => Lower(d) \in Lowest(Values(d))
  BY <1>1, <1>2 DEF Lower, Lowest
<1>4. Upper(d) # None => Upper(d) \in Highest(Values(d))
  BY <1>1, <1>2 DEF Upper, Highest
<1> QED BY <1>1, <1>3, <1>4 DEF Lowest, Highest

\* Bounds that are equal leave no other value.
LEMMA ExactValueIsExact ==
    ASSUME NEW d, DataFile(d), NEW row \in d.rows, row # Null, ExactValue(d) # None
    PROVE  ExactValue(d) = row
BY BoundsEnclose, AtMostIsAnOrder DEF ExactValue

\* A literal that holds for a row of a file is not ruled out for the file.
LEMMA LiteralsAreSound ==
    ASSUME NEW d, DataFile(d), NEW row \in d.rows, row # Null,
           NEW f \in Filters, f.type \in Literals, Compare(row, f)
    PROVE  LiteralMayMatch(d, f.type, f.value)
<1> DEFINE v == f.value
<1>1. v \in Bytes /\ None \notin Bytes
  BY FilterAssumption, SentinelAssumption
<1>2. /\ row \in Bytes
      /\ Lower(d) # None => Lower(d) \in Bytes /\ AtMost(Lower(d), row)
      /\ Upper(d) # None => Upper(d) \in Bytes /\ AtMost(row, Upper(d))
  BY BoundsEnclose
<1>3. ExactValue(d) # None => ExactValue(d) = row
  BY ExactValueIsExact
<1>4. CASE f.type = "eq"
  <2>1. row = v
    BY <1>4 DEF Compare
  <2>2. OverlapsBounds(v, d)
    BY <1>2, <2>1 DEF OverlapsBounds
  <2> QED BY <1>4, <2>2 DEF LiteralMayMatch
<1>5. CASE f.type = "not-eq"
  <2>1. row # v
    BY <1>5 DEF Compare
  <2>2. ExactValue(d) # v
    BY <1>1, <1>3, <2>1
  <2> QED BY <1>5, <2>2 DEF LiteralMayMatch
<1>6. CASE f.type = "lt"
  <2>1. Before(row, v)
    BY <1>6 DEF Compare
  <2>2. Lower(d) = None \/ Before(Lower(d), v)
    BY <1>1, <1>2, <2>1, AtMostIsAnOrder
  <2> QED BY <1>6, <2>2 DEF LiteralMayMatch
<1>7. CASE f.type = "lt-eq"
  <2>1. AtMost(row, v)
    BY <1>7 DEF Compare
  <2>2. Lower(d) = None \/ AtMost(Lower(d), v)
    BY <1>1, <1>2, <2>1, AtMostIsAnOrder
  <2> QED BY <1>7, <2>2 DEF LiteralMayMatch
<1>8. CASE f.type = "gt"
  <2>1. Before(v, row)
    BY <1>8 DEF Compare
  <2>2. Upper(d) = None \/ Before(v, Upper(d))
    BY <1>1, <1>2, <2>1, AtMostIsAnOrder
  <2> QED BY <1>8, <2>2 DEF LiteralMayMatch
<1>9. CASE f.type = "gt-eq"
  <2>1. AtMost(v, row)
    BY <1>9 DEF Compare
  <2>2. Upper(d) = None \/ AtMost(v, Upper(d))
    BY <1>1, <1>2, <2>1, AtMostIsAnOrder
  <2> QED BY <1>9, <2>2 DEF LiteralMayMatch
<1>10. CASE f.type = "starts-with"
  <2>1. IsPrefix(v, row)
    BY <1>10 DEF Compare
  <2>2. AtMost(v, row)
    BY <1>1, <1>2, <2>1, PrefixIsAtMost
  <2>3. Upper(d) = None \/ ~Before(Upper(d), v)
    BY <1>1, <1>2, <2>2, AtMostIsAnOrder
  <2>4. ASSUME NextPrefix(v) # None, Lower(d) # None PROVE Before(Lower(d), NextPrefix(v))
    <3>1. NextPrefix(v) \in Bytes /\ Before(row, NextPrefix(v))
      BY <1>1, <1>2, <2>1, <2>4, NextPrefixIsAbove
    <3> QED BY <1>2, <2>4, <3>1, AtMostIsAnOrder
  <2>5. PrefixOverlapsBounds(v, d)
    BY <2>3, <2>4 DEF PrefixOverlapsBounds
  <2> QED BY <1>10, <2>5 DEF LiteralMayMatch
<1>11. CASE f.type = "not-starts-with"
  <2>1. ~IsPrefix(v, row)
    BY <1>11 DEF Compare
  <2>2. ExactValue(d) = None \/ ~IsPrefix(v, ExactValue(d))
    BY <1>3, <2>1
  <2> QED BY <1>11, <2>2 DEF LiteralMayMatch
<1> QED BY <1>4, <1>5, <1>6, <1>7, <1>8, <1>9, <1>10, <1>11 DEF Literals

\* The null count and the record count, when they are present, tell whether
\* there is a null and whether there is anything else.
LEMMA CountsTell ==
    ASSUME NEW d, DataFile(d), d.counts, NEW row \in d.rows
    PROVE  /\ row = Null => NullCount(d) > 0
           /\ row # Null => NullCount(d) < RecordCount(d)
<1>1. row = Null => NullCount(d) > 0
  BY DEF NullCount
<1>2. ASSUME row # Null PROVE NullCount(d) < RecordCount(d)
  <2>1. Cardinality(d.rows) \in Nat /\ Cardinality(d.rows) # 0
    BY FS_CardinalityType, FS_EmptySet DEF DataFile
  <2>2. CASE Null \in d.rows
    <3>1. {Null, row} \subseteq d.rows
      BY <2>2
    <3>2. Cardinality({Null, row}) <= Cardinality(d.rows)
      BY <3>1, FS_Subset DEF DataFile
    <3>3. Cardinality({Null, row}) = 2
      <4>1. IsFiniteSet({Null}) /\ Cardinality({Null}) = 1
        BY FS_Singleton
      <4>2. Cardinality({Null} \cup {row}) = Cardinality({Null}) + 1
        BY <1>2, <4>1, FS_AddElement
      <4>3. {Null} \cup {row} = {Null, row}
        OBVIOUS
      <4> QED BY <4>1, <4>2, <4>3
    <3> QED BY <2>1, <3>2, <3>3 DEF NullCount, RecordCount
  <2>3. CASE Null \notin d.rows
    BY <2>1, <2>3 DEF NullCount, RecordCount
  <2> QED BY <2>2, <2>3
<1> QED BY <1>1, <1>2

\* A filter that is true of a row of a file with null counts keeps the file.
THEOREM PruningTheorem ==
    ASSUME NEW d, DataFile(d), d.counts, NEW row \in d.rows, NEW f \in Filters,
           Meaning(row, f) = "true"
    PROVE  MayMatch(d, f)
<1>1. PICK may \in [Filters -> BOOLEAN] :
         \A g \in Filters : MayMatch(d, g) = may[g] /\ may[g] = MayMatchStep(d, may, g)
  BY MayMatchUnfolds
<1>2. PICK is \in [Filters -> Truths] :
         \A g \in Filters : Meaning(row, g) = is[g] /\ is[g] = MeaningStep(row, is, g)
  BY MeaningUnfolds
<1> DEFINE Wrong == {g \in Filters : is[g] = "true" /\ ~may[g]}
<1>3. ASSUME NEW g \in Wrong PROVE \E x \in Wrong : Depth[x] < Depth[g]
  <2>1. /\ g \in Filters /\ ~MayMatchStep(d, may, g) /\ MeaningStep(row, is, g) = "true"
        /\ \A x \in Inside(g) : x \in Filters /\ Depth[x] < Depth[g]
    BY <1>1, <1>2, FilterAssumption
  <2>2. CASE g.type = "and"
    <3>1. And(is[g.left], is[g.right]) = "true" /\ ~(may[g.left] /\ may[g.right])
      BY <2>1, <2>2, MayMatchCases, MeaningCases
    <3>2. g.left \in Inside(g) /\ g.right \in Inside(g)
      BY <2>2, Insides
    <3> QED BY <2>1, <3>1, <3>2 DEF And
  <2>3. CASE g.type = "or"
    <3>1. Or(is[g.left], is[g.right]) = "true" /\ ~may[g.left] /\ ~may[g.right]
      BY <2>1, <2>3, MayMatchCases, MeaningCases
    <3>2. g.left \in Inside(g) /\ g.right \in Inside(g)
      BY <2>3, Insides
    <3>3. is[g.left] \in Truths /\ is[g.right] \in Truths
      BY <2>1, <3>2
    <3>4. is[g.left] = "true" \/ is[g.right] = "true"
      BY <3>1, <3>3 DEF Or, And, Not, Truths
    <3> QED BY <2>1, <3>1, <3>2, <3>4
  <2>4. CASE g.type \in {"true", "not", "false"}
    BY <2>1, <2>4, MayMatchCases, MeaningCases
  <2>5. CASE g.type = "is-null"
    <3>1. row = Null
      BY <2>1, <2>5, MeaningCases DEF Known
    <3> QED BY <2>1, <2>5, <3>1, CountsTell, MayMatchCases
  <2>6. CASE g.type = "not-null"
    <3>1. row # Null
      BY <2>1, <2>6, MeaningCases DEF Known
    <3> QED BY <2>1, <2>6, <3>1, CountsTell, MayMatchCases
  <2>7. CASE g.type \in Literals \cup {"in", "not-in"}
    <3>1. row # Null /\ Compare(row, g)
      BY <2>1, <2>7, MeaningCases DEF Known
    <3>2. CASE g.type \in Literals
      BY <2>1, <3>1, <3>2, LiteralsAreSound, MayMatchCases
    <3>3. CASE g.type = "in"
      <4>1. row \in g.values
        BY <3>1, <3>3 DEF Compare
      <4>2. OverlapsBounds(row, d)
        BY <3>1, BoundsEnclose DEF OverlapsBounds
      <4>3. LiteralMayMatch(d, "eq", row)
        BY <4>2 DEF LiteralMayMatch
      <4> QED BY <2>1, <3>3, <4>1, <4>3, MayMatchCases
    <3>4. CASE g.type = "not-in"
      <4>1. row \notin g.values
        BY <3>1, <3>4 DEF Compare
      <4>2. ExactValue(d) = None \/ ExactValue(d) \notin g.values
        BY <3>1, <4>1, ExactValueIsExact
      <4> QED BY <2>1, <3>4, <4>2, MayMatchCases
    <3> QED BY <2>7, <3>2, <3>3, <3>4
  <2> QED BY <2>1, <2>2, <2>3, <2>4, <2>5, <2>6, <2>7, FilterAssumption
<1>4. Wrong = {}
  BY <1>3, LeastDepth
<1>5. is[f] = "true"
  BY <1>2
<1>6. may[f]
  BY <1>4, <1>5
<1>7. MayMatch(d, f) = may[f]
  BY <1>1
<1> QED BY <1>6, <1>7

-----------------------------------------------------------------------------
(* What the writers leave behind.  The invariant says, of every snapshot      *)
(* ever written, what its manifests hold in terms of what it and its          *)
(* ancestors did.                                                             *)

EntryRecords(n) ==
    [file : Files \cup {<<"deletes", p>> : p \in 1..n}, target : Files \cup {None},
     status : {"added", "existing", "deleted"}, seq : 1..n \cup {None}]
ManifestRecords(n) ==
    [added : 1..n, content : {"data", "deletes"}, seq : 1..n, entries : SUBSET EntryRecords(n)]
Deeds == ({"add", "merge", "remove"} \X Files) \cup ({"rows"} \X (Files \cup {None}))
SnapshotRecords ==
    [parent : Nat, op : {"append", "delete"}, did : Deeds,
     manifests : SUBSET ManifestRecords(MaxSnapshots)]

\* A snapshot's manifests and parent are older than itself.
HistoryTyped ==
    /\ Len(snaps) <= MaxSnapshots
    /\ snaps \in Seq(SnapshotRecords)
    /\ \A s \in DOMAIN snaps :
          /\ snaps[s].parent \in 0..(s - 1)
          /\ snaps[s].manifests \subseteq ManifestRecords(s)
          /\ snaps[s].did \in Deeds
          /\ snaps[s].op = "append" => snaps[s].did[1] \in {"add", "merge"}

Adds(s, f) == snaps[s].did \in {<<"add", f>>, <<"merge", f>>}

\* A file is added once, before anything else is done with it.
FilesAreAdded ==
    /\ \A s \in DOMAIN snaps : \A m \in snaps[s].manifests : \A e \in m.entries :
          IF m.content = "data" THEN \E p \in DOMAIN snaps : Adds(p, e.file) ELSE e.file \notin Files
    /\ \A s \in DOMAIN snaps : \A f \in Files :
          /\ Adds(s, f) \/ snaps[s].did = <<"remove", f>> => f \in Written
          /\ snaps[s].did = <<"rows", f>> => \E p \in 1..(s - 1) : Adds(p, f)
    /\ \A p, q \in DOMAIN snaps : \A f \in Files : Adds(p, f) /\ Adds(q, f) => p = q

\* The data and delete files that the snapshots in L leave.
LiveData(L) ==
    {d \in [file : Files, target : {None}, seq : L] :
        Adds(d.seq, d.file) /\ \A q \in L : snaps[q].did # <<"remove", d.file>>}
LiveDeletes(L) ==
    {x \in [file : {<<"deletes", p>> : p \in L}, target : Files \cup {None}, seq : L] :
        x.file = <<"deletes", x.seq>> /\ snaps[x.seq].did = <<"rows", x.target>>}

\* No two manifests hold the same file.
HeldOnce(ms) ==
    \A m, n \in {m \in ms : m.content = "data"} : \A d \in Live(m), e \in Live(n) :
        d.file = e.file => m = n

\* The manifests hold exactly that, each data file once.
ManifestsTell ==
    \A s \in DOMAIN snaps :
       /\ Collected(snaps[s].manifests, "data") = LiveData(Lineage(s))
       /\ Collected(snaps[s].manifests, "deletes") = LiveDeletes(Lineage(s))
       /\ HeldOnce(snaps[s].manifests)

\* The manifest a snapshot adds holds the file it adds, and no other unless
\* it merges.
AddedManifests ==
    \A s \in DOMAIN snaps : \A f \in Files : Adds(s, f) =>
       LET own == {m \in snaps[s].manifests : m.added = s} IN
       /\ [file |-> f, target |-> None, seq |-> s] \in Collected(own, "data")
       /\ snaps[s].did[1] = "add" => \A d \in Collected(own, "data") : d.file = f

TableInv ==
    /\ format \in {"v1", "v2", "v4"} /\ content \in Layouts
    /\ kept \subseteq DOMAIN snaps /\ current \in kept \cup {0}
    /\ HistoryTyped /\ FilesAreAdded /\ ManifestsTell /\ AddedManifests

\* The snapshots of an incremental scan.
Span(r) == Lineage(r.end) \ Lineage(r.start)
Task(kind, s, r) == Token(kind, s, s, r.filters)
Own(s) == {m \in snaps[s].manifests : m.added = s}

TokensTell(todo) ==
    Typed => \A t \in todo :
       /\ t.snap \in DOMAIN snaps
       /\ IF t.kind = "manifest" THEN t.path \in snaps[t.snap].manifests
          ELSE format = "v2" /\ t.path = t.snap

\* A scan of a snapshot holds the token of its manifest list until it has got
\* the files of the snapshot.
FullScanTells(r, todo, got) ==
    r # None /\ r.start = None /\ format = "v2" /\ local =>
       LET list == Task("manifest-list", r.end, r)
           all  == FileTasks(snaps[r.end].manifests, r.filters) IN
       /\ r.end \in DOMAIN snaps /\ r.filters \subseteq Filters
       /\ \A t \in todo : t.kind = "manifest" \/ t = list
       /\ got \subseteq all
       /\ list \in todo \/ all \subseteq got

\* The same for an incremental scan, snapshot by snapshot: all of them appends,
\* after start.
IncrementalScanTells(r, todo, got) ==
    r # None /\ r.start # None /\ format = "v2" /\ local =>
       /\ r.start \in DOMAIN snaps /\ r.end \in DOMAIN snaps /\ r.filters \subseteq Filters
       /\ \A s \in Span(r) : snaps[s].op = "append" /\ r.start \in Lineage(s)
       /\ \A t \in todo :
             t.kind = "manifest" \/ \E s \in Span(r) : t = Task("incremental-manifest-list", s, r)
       /\ \A s \in Span(r) :
             \/ Task("incremental-manifest-list", s, r) \in todo
             \/ FileTasks(Own(s), r.filters) \subseteq got
       /\ \A x \in got : \E s \in Span(r) : x \in FileTasks(Own(s), r.filters)

ScanTells(r, todo, got) ==
    TokensTell(todo) /\ FullScanTells(r, todo, got) /\ IncrementalScanTells(r, todo, got)
ScanTyped ==
    /\ scan = [request |-> scan.request, todo |-> scan.todo,
               read |-> [fromList \in BOOLEAN |-> scan.read[fromList]]]
    /\ local \in BOOLEAN /\ (local \/ format = "v2")

\* The inductive invariant.
IInv == TableInv /\ ScanTyped /\ ScanTells(scan.request, scan.todo, scan.read[TRUE])


-----------------------------------------------------------------------------
(* Ancestors, for any sequence of snapshots.                                  *)

Ancestors(sn, s) ==
    {p \in DOMAIN sn :
       \A S \in SUBSET DOMAIN sn :
          s \in S /\ (\A q \in S : sn[q].parent \in S \cup {0}) => p \in S}

\* Parents come before their children.
Ordered(sn, n) == /\ n \in Nat /\ DOMAIN sn = 1..n
                  /\ \A s \in 1..n : sn[s].parent \in 0..(s - 1)

\* The ancestors are in every set that is closed under parents.
LEMMA AncestorsAreLeast ==
    ASSUME NEW sn, NEW s, NEW S, S \subseteq DOMAIN sn, s \in S,
           \A q \in S : sn[q].parent \in S \cup {0}
    PROVE  Ancestors(sn, s) \subseteq S
BY DEF Ancestors

\* They are such a set themselves, and come no later.
LEMMA AncestorsAreClosed ==
    ASSUME NEW sn, NEW n, Ordered(sn, n), NEW s \in 1..n
    PROVE  /\ s \in Ancestors(sn, s)
           /\ Ancestors(sn, s) \subseteq 1..s
           /\ \A q \in Ancestors(sn, s) : sn[q].parent \in Ancestors(sn, s) \cup {0}
<1>1. s \in Ancestors(sn, s)
  BY DEF Ancestors, Ordered
<1>2. Ancestors(sn, s) \subseteq 1..s
  <2>1. 1..s \subseteq DOMAIN sn /\ s \in 1..s
    BY DEF Ordered
  <2>2. \A q \in 1..s : sn[q].parent \in (1..s) \cup {0}
    BY DEF Ordered
  <2> QED BY <2>1, <2>2, AncestorsAreLeast
<1>3. ASSUME NEW q \in Ancestors(sn, s), sn[q].parent # 0
      PROVE  sn[q].parent \in Ancestors(sn, s)
  <2>1. q \in 1..n /\ sn[q].parent \in DOMAIN sn
    BY <1>3 DEF Ordered, Ancestors
  <2> QED BY <1>3, <2>1 DEF Ancestors
<1> QED BY <1>1, <1>2, <1>3

\* Ancestors of ancestors are ancestors.
LEMMA AncestorsOfAncestors ==
    ASSUME NEW sn, NEW n, Ordered(sn, n), NEW s \in 1..n, NEW p \in Ancestors(sn, s)
    PROVE  Ancestors(sn, p) \subseteq Ancestors(sn, s)
<1>1. Ancestors(sn, s) \subseteq DOMAIN sn
  BY DEF Ancestors
<1> QED BY <1>1, AncestorsAreClosed, AncestorsAreLeast

\* A new snapshot leaves the ancestors of the others alone; its own are those
\* of its parent.
LEMMA AncestorsOfTheNew ==
    ASSUME NEW sn, NEW n, Ordered(sn, n), NEW tn, Ordered(tn, n + 1),
           \A s \in 1..n : tn[s] = sn[s]
    PROVE  /\ \A s \in 1..n : Ancestors(tn, s) = Ancestors(sn, s)
           /\ LET p == tn[n + 1].parent IN
              Ancestors(tn, n + 1) = {n + 1} \cup (IF p = 0 THEN {} ELSE Ancestors(sn, p))
<1>0. n \in Nat /\ DOMAIN sn = 1..n /\ DOMAIN tn = 1..(n + 1)
  BY DEF Ordered
<1>1. ASSUME NEW s \in 1..n PROVE Ancestors(tn, s) = Ancestors(sn, s)
  <2>0. s \in 1..(n + 1)
    BY <1>0
  <2>1. Ancestors(tn, s) \subseteq Ancestors(sn, s)
    <3>1. Ancestors(sn, s) \subseteq 1..n
      BY <1>0 DEF Ancestors
    <3>2. Ancestors(sn, s) \subseteq DOMAIN tn
      BY <1>0, <3>1
    <3>3. s \in Ancestors(sn, s) /\ \A q \in Ancestors(sn, s) : sn[q].parent \in Ancestors(sn, s) \cup {0}
      BY AncestorsAreClosed
    <3>4. \A q \in Ancestors(sn, s) : tn[q].parent \in Ancestors(sn, s) \cup {0}
      BY <3>1, <3>3
    <3> QED BY <3>2, <3>3, <3>4, AncestorsAreLeast
  <2>2. Ancestors(sn, s) \subseteq Ancestors(tn, s)
    <3>1. s \in Ancestors(tn, s) /\ Ancestors(tn, s) \subseteq 1..s
          /\ \A q \in Ancestors(tn, s) : tn[q].parent \in Ancestors(tn, s) \cup {0}
      BY <2>0, AncestorsAreClosed
    <3>2. Ancestors(tn, s) \subseteq 1..n
      BY <1>0, <3>1
    <3>3. \A q \in Ancestors(tn, s) : sn[q].parent \in Ancestors(tn, s) \cup {0}
      BY <3>1, <3>2
    <3> QED BY <1>0, <3>1, <3>2, <3>3, AncestorsAreLeast
  <2> QED BY <2>1, <2>2
<1> DEFINE p == tn[n + 1].parent
           A == {n + 1} \cup (IF p = 0 THEN {} ELSE Ancestors(sn, p))
<1>2. n + 1 \in 1..(n + 1) /\ p \in 0..n
  BY <1>0 DEF Ordered
<1>3. p # 0 => p \in 1..n
  BY <1>0, <1>2
<1> HIDE DEF p
<1>4. Ancestors(tn, n + 1) \subseteq A
  <2>1. n + 1 \in A
    OBVIOUS
  <2>2. A \subseteq DOMAIN tn
    BY <1>0, <1>2, <1>3 DEF Ancestors
  <2>3. ASSUME NEW q \in A PROVE tn[q].parent \in A \cup {0}
    <3>1. CASE q = n + 1
      <4>1. tn[q].parent = p
        BY <3>1 DEF p
      <4>2. p # 0 => p \in Ancestors(sn, p)
        BY <1>3, AncestorsAreClosed
      <4> QED BY <4>1, <4>2
    <3>2. CASE q # n + 1
      <4>1. p # 0 /\ q \in Ancestors(sn, p) /\ p \in 1..n
        BY <1>3, <3>2
      <4>2. sn[q].parent \in Ancestors(sn, p) \cup {0}
        BY <4>1, AncestorsAreClosed
      <4>3. tn[q] = sn[q]
        BY <1>0, <4>1 DEF Ancestors
      <4> QED BY <4>1, <4>2, <4>3
    <3> QED BY <3>1, <3>2
  <2> HIDE DEF A
  <2> QED BY <2>1, <2>2, <2>3, AncestorsAreLeast
<1>5. A \subseteq Ancestors(tn, n + 1)
  <2>1. n + 1 \in Ancestors(tn, n + 1) /\ p \in Ancestors(tn, n + 1) \cup {0}
    BY <1>2, AncestorsAreClosed DEF p
  <2>2. ASSUME p # 0 PROVE Ancestors(sn, p) \subseteq Ancestors(tn, n + 1)
    <3>1. p \in Ancestors(tn, n + 1) /\ p \in 1..n
      BY <1>0, <1>3, <2>1, <2>2
    <3>2. Ancestors(tn, p) \subseteq Ancestors(tn, n + 1)
      BY <1>2, <3>1, AncestorsOfAncestors
    <3> QED BY <1>1, <3>1, <3>2
  <2> QED BY <2>1, <2>2
<1> QED BY <1>1, <1>4, <1>5 DEF p

-----------------------------------------------------------------------------
(* Writers *)

\* Membership in Collected and in Live.
LEMMA InCollected ==
    ASSUME NEW ms, NEW kind, NEW d
    PROVE  d \in Collected(ms, kind) <=> \E m \in ms : m.content = kind /\ d \in Live(m)
BY DEF Collected

LEMMA InLive ==
    ASSUME NEW m, NEW d
    PROVE  d \in Live(m) <=>
              \E e \in m.entries :
                 /\ e.status \in {"added", "existing"}
                 /\ d = [file |-> e.file, target |-> e.target, seq |-> SequenceOf(m, e)]
BY DEF Live

\* The records of an older snapshot are records of a newer one.
LEMMA RecordsGrow ==
    ASSUME NEW n \in Nat, NEW k \in Nat, k <= n
    PROVE  EntryRecords(k) \subseteq EntryRecords(n) /\ ManifestRecords(k) \subseteq ManifestRecords(n)
<1>1. 1..k \subseteq 1..n
  OBVIOUS
<1> DEFINE K == 1..k
           N == 1..n
<1>2. K \subseteq N
  BY <1>1
<1>3. EntryRecords(k) \subseteq EntryRecords(n)
  <2>1. /\ EntryRecords(k) = [file : Files \cup {<<"deletes", p>> : p \in K}, target : Files \cup {None},
                              status : {"added", "existing", "deleted"}, seq : K \cup {None}]
        /\ EntryRecords(n) = [file : Files \cup {<<"deletes", p>> : p \in N}, target : Files \cup {None},
                              status : {"added", "existing", "deleted"}, seq : N \cup {None}]
    BY DEF EntryRecords
  <2> HIDE DEF K, N
  <2> QED BY <1>2, <2>1
<1>4. ManifestRecords(k) \subseteq ManifestRecords(n)
  <2>1. /\ ManifestRecords(k) = [added : K, content : {"data", "deletes"}, seq : K, entries : SUBSET EntryRecords(k)]
        /\ ManifestRecords(n) = [added : N, content : {"data", "deletes"}, seq : N, entries : SUBSET EntryRecords(n)]
    BY DEF ManifestRecords
  <2> HIDE DEF K, N
  <2> QED BY <1>2, <1>3, <2>1
<1> QED BY <1>3, <1>4

Past == IF current = 0 THEN {} ELSE Lineage(current)

\* Lineage in the terms of the section above.
LEMMA LineageIs ==
    /\ \A s : Lineage(s) = Ancestors(snaps, s)
    /\ HistoryTyped => /\ Ordered(snaps, Len(snaps)) /\ DOMAIN snaps = 1..Len(snaps)
                       /\ Len(snaps) \in Nat
<1>1. \A s : Lineage(s) = Ancestors(snaps, s)
  BY DEF Lineage, Ancestors
<1>2. HistoryTyped => DOMAIN snaps = 1..Len(snaps) /\ Len(snaps) \in Nat
  BY DEF HistoryTyped
<1>3. HistoryTyped => Ordered(snaps, Len(snaps))
  BY <1>2 DEF HistoryTyped, Ordered
<1> QED BY <1>1, <1>2, <1>3

\* What the invariant says of the manifests the next writer starts from.
LEMMA PresentTells ==
    ASSUME TableInv
    PROVE  /\ Collected(Present, "data") = LiveData(Past)
           /\ Collected(Present, "deletes") = LiveDeletes(Past)
           /\ HeldOnce(Present)
           /\ Present \subseteq ManifestRecords(Len(snaps))
           /\ Past \subseteq DOMAIN snaps
           /\ current \in 0..Len(snaps)
           /\ \A m \in Present : \E s \in DOMAIN snaps : m \in snaps[s].manifests
<1>0. DOMAIN snaps = 1..Len(snaps) /\ Len(snaps) \in Nat
  BY LineageIs DEF TableInv
<1>1. CASE current = 0
  <2>1. Present = {} /\ Past = {}
    BY <1>1 DEF Present, Past
  <2>2. Collected(Present, "data") = {} /\ Collected(Present, "deletes") = {}
    BY <2>1 DEF Collected
  <2>3. LiveData(Past) = {}
    BY <2>1 DEF LiveData
  <2>4. LiveDeletes(Past) = {}
    BY <2>1 DEF LiveDeletes
  <2>5. HeldOnce(Present)
    BY <2>1 DEF HeldOnce
  <2>6. Past \subseteq DOMAIN snaps /\ Present \subseteq ManifestRecords(Len(snaps))
    BY <2>1
  <2>7. current \in 0..Len(snaps)
    BY <1>0, <1>1
  <2>8. \A m \in Present : \E s \in DOMAIN snaps : m \in snaps[s].manifests
    BY <2>1
  <2> QED BY <2>2, <2>3, <2>4, <2>5, <2>6, <2>7, <2>8, Zenon
<1>2. CASE current # 0
  <2>1. current \in DOMAIN snaps
    BY <1>2 DEF TableInv
  <2>2. Present = snaps[current].manifests /\ Past = Lineage(current)
    BY <1>2 DEF Present, Past
  <2>3. Present \subseteq ManifestRecords(Len(snaps))
    <3>1. Present \subseteq ManifestRecords(current)
      BY <2>1, <2>2 DEF TableInv, HistoryTyped
    <3>2. ManifestRecords(current) \subseteq ManifestRecords(Len(snaps))
      BY <1>0, <2>1, RecordsGrow
    <3> QED BY <3>1, <3>2
  <2>4. Past \subseteq DOMAIN snaps
    BY <2>2 DEF Lineage
  <2>5. /\ Collected(Present, "data") = LiveData(Past)
        /\ Collected(Present, "deletes") = LiveDeletes(Past)
        /\ HeldOnce(Present)
    BY <2>1, <2>2 DEF TableInv, ManifestsTell
  <2> QED BY <1>0, <2>1, <2>2, <2>3, <2>4, <2>5
<1> QED BY <1>1, <1>2

\* What a writer's next snapshot must be like.
DataEntry(f, s) == [file |-> f, target |-> None, seq |-> s]
DeleteEntry(target, s) == [file |-> <<"deletes", s>>, target |-> target, seq |-> s]
Adding(did, f) == did \in {<<"add", f>>, <<"merge", f>>}

\* The entries after snapshot s has done did.
DataAfter(D, did, s) ==
    {d \in D : did # <<"remove", d.file>>} \cup {DataEntry(f, s) : f \in {f \in Files : Adding(did, f)}}
DeletesAfter(D, did, s) ==
    D \cup {DeleteEntry(x, s) : x \in {x \in Files \cup {None} : did = <<"rows", x>>}}

Follows(op, did, ms) ==
    /\ ms \subseteq ManifestRecords(Next1)
    /\ did \in Deeds /\ op \in {"append", "delete"}
    /\ op = "append" => did[1] \in {"add", "merge"}
    /\ \A m \in ms : \A e \in m.entries :
          IF m.content = "data" THEN Adding(did, e.file) \/ \E p \in DOMAIN snaps : Adds(p, e.file)
          ELSE e.file \notin Files
    /\ \A f \in Files :
          /\ Adding(did, f) => f \notin Written /\ \E m \in ms : \E e \in m.entries : e.file = f
          /\ did = <<"remove", f>> => f \in Written
          /\ did = <<"rows", f>> => \E p \in DOMAIN snaps : Adds(p, f)
    /\ Collected(ms, "data") = DataAfter(Collected(Present, "data"), did, Next1)
    /\ Collected(ms, "deletes") = DeletesAfter(Collected(Present, "deletes"), did, Next1)
    /\ HeldOnce(ms)
    /\ \A f \in Files : Adding(did, f) =>
          LET own == {m \in ms : m.added = Next1} IN
          /\ DataEntry(f, Next1) \in Collected(own, "data")
          /\ did[1] = "add" => \A d \in Collected(own, "data") : d.file = f

\* The history with one more snapshot.
Grown(op, did, ms) ==
    /\ snaps' \in Seq(SnapshotRecords) /\ Len(snaps') = Next1 /\ Next1 <= MaxSnapshots
    /\ Next1 \in Nat \ {0} /\ Next1 \notin DOMAIN snaps /\ Next1 = Len(snaps) + 1
    /\ DOMAIN snaps = 1..Len(snaps)
    /\ DOMAIN snaps' = (DOMAIN snaps) \cup {Next1} /\ DOMAIN snaps' = 1..Next1
    /\ \A s \in DOMAIN snaps : snaps'[s] = snaps[s]
    /\ snaps'[Next1].parent = current /\ snaps'[Next1].op = op
    /\ snaps'[Next1].did = did /\ snaps'[Next1].manifests = ms

\* A new snapshot leaves the older ones alone.
LEMMA SnapshotGrows ==
    ASSUME TableInv, NEW op, NEW did, NEW ms, Follows(op, did, ms), Snapshot(op, did, ms)
    PROVE  Grown(op, did, ms)
<1> DEFINE new == [parent |-> current, op |-> op, manifests |-> ms, did |-> did]
<1>1. /\ snaps \in Seq(SnapshotRecords) /\ DOMAIN snaps = 1..Len(snaps) /\ Len(snaps) \in Nat
      /\ snaps' = Append(snaps, new) /\ Next1 = Len(snaps) + 1 /\ Len(snaps) < MaxSnapshots
  BY LineageIs DEF TableInv, HistoryTyped, Snapshot, Next1
<1>2. Next1 \in Nat /\ Next1 <= MaxSnapshots /\ MaxSnapshots \in Nat
  BY <1>1, BoundsAssumption
<1>3. ms \subseteq ManifestRecords(MaxSnapshots)
  BY <1>2, RecordsGrow DEF Follows
<1>4. current \in Nat
  BY <1>1, PresentTells
<1>5. new \in SnapshotRecords
  BY <1>3, <1>4 DEF Follows, SnapshotRecords
<1> HIDE DEF new
<1>6. /\ snaps' \in Seq(SnapshotRecords) /\ Len(snaps') = Next1 /\ DOMAIN snaps' = 1..Next1
      /\ \A s \in 1..Len(snaps) : snaps'[s] = snaps[s]
      /\ snaps'[Next1] = new
  BY <1>1, <1>5
<1>7. 1..Next1 = (1..Len(snaps)) \cup {Next1} /\ Next1 \notin 1..Len(snaps) /\ Next1 # 0
  BY <1>1
<1> QED BY <1>1, <1>2, <1>6, <1>7 DEF Grown, new

\* It leaves their ancestors alone too; its own are itself and the past.
LEMMA LineageGrows ==
    ASSUME TableInv, NEW op, NEW did, NEW ms, Grown(op, did, ms)
    PROVE  /\ Ordered(snaps', Next1)
           /\ \A s \in DOMAIN snaps : Lineage(s)' = Lineage(s)
           /\ \A n : n = Next1 => Lineage(n)' = {n} \cup Past
<1>1. Ordered(snaps, Len(snaps)) /\ DOMAIN snaps = 1..Len(snaps) /\ Len(snaps) \in Nat
  BY LineageIs DEF TableInv
<1>2. Ordered(snaps', Next1)
  <2>1. \A s \in DOMAIN snaps : snaps'[s].parent \in 0..(s - 1)
    BY <1>1 DEF Grown, Ordered
  <2>2. snaps'[Next1].parent \in 0..(Next1 - 1)
    BY <1>1, PresentTells DEF Grown
  <2> QED BY <2>1, <2>2 DEF Grown, Ordered
<1>3. \A s : Lineage(s) = Ancestors(snaps, s) /\ Lineage(s)' = Ancestors(snaps', s)
  BY DEF Lineage, Ancestors
<1>4. /\ \A s \in 1..Len(snaps) : Ancestors(snaps', s) = Ancestors(snaps, s)
      /\ Ancestors(snaps', Next1) =
            {Next1} \cup (IF current = 0 THEN {} ELSE Ancestors(snaps, current))
  <2>1. /\ Next1 = Len(snaps) + 1 /\ \A s \in 1..Len(snaps) : snaps'[s] = snaps[s]
        /\ snaps'[Next1].parent = current
    BY <1>1 DEF Grown
  <2> DEFINE tn == snaps'
  <2>2. Ordered(tn, Len(snaps) + 1)
    BY <1>2, <2>1
  <2> HIDE DEF tn
  <2>3. /\ \A s \in 1..Len(snaps) : Ancestors(tn, s) = Ancestors(snaps, s)
        /\ Ancestors(tn, Len(snaps) + 1) =
              {Len(snaps) + 1} \cup (IF tn[Len(snaps) + 1].parent = 0 THEN {}
                                     ELSE Ancestors(snaps, tn[Len(snaps) + 1].parent))
    BY <1>1, <2>1, <2>2, AncestorsOfTheNew DEF tn
  <2> QED BY <2>1, <2>3 DEF tn
<1>5. ASSUME NEW n, n = Next1 PROVE Lineage(n)' = {n} \cup Past
  BY <1>3, <1>4, <1>5 DEF Past
<1> QED BY <1>1, <1>2, <1>3, <1>4, <1>5

\* Who added what stays as it was.
LEMMA DeedsGrow ==
    ASSUME NEW op, NEW did, NEW ms, Grown(op, did, ms), NEW n, n = Next1
    PROVE  /\ \A p \in DOMAIN snaps : \A f : Adds(p, f)' <=> Adds(p, f)
           /\ \A f : Adds(n, f)' <=> Adding(did, f)
           /\ Written \subseteq Written'
           /\ \A m \in ms : \A e \in m.entries : e.file \in Written'
<1>1. \A p \in DOMAIN snaps : \A f : Adds(p, f)' <=> Adds(p, f)
  BY DEF Grown, Adds
<1>2. \A f : Adds(n, f)' <=> Adding(did, f)
  BY DEF Grown, Adds, Adding
<1>3. Written \subseteq Written'
  <2>1. ASSUME NEW x \in Written PROVE x \in Written'
    <3>1. PICK s \in DOMAIN snaps : \E m \in snaps[s].manifests : \E e \in m.entries : x = e.file
      BY DEF Written
    <3>2. s \in DOMAIN snaps' /\ snaps'[s].manifests = snaps[s].manifests
      BY DEF Grown
    <3> QED BY <3>1, <3>2 DEF Written
  <2> QED BY <2>1
<1>4. ASSUME NEW m \in ms, NEW e \in m.entries PROVE e.file \in Written'
  <2>1. n \in DOMAIN snaps' /\ m \in snaps'[n].manifests
    BY DEF Grown
  <2> QED BY <2>1 DEF Written
<1> QED BY <1>1, <1>2, <1>3, <1>4

\* A file that an earlier snapshot added or removed has been written.
LEMMA DeedsAreWritten ==
    ASSUME FilesAreAdded, NEW f \in Files, f \notin Written, NEW s \in DOMAIN snaps
    PROVE  ~Adds(s, f) /\ snaps[s].did # <<"remove", f>>
BY DEF FilesAreAdded

\* The live files of the new snapshot are those of the past after its deed.
LEMMA LiveDataGrows ==
    ASSUME FilesAreAdded, NEW op, NEW did, NEW ms, Grown(op, did, ms), Follows(op, did, ms),
           NEW n, n = Next1, NEW L \in SUBSET DOMAIN snaps
    PROVE  /\ LiveData(L)' = LiveData(L)
           /\ LiveDeletes(L)' = LiveDeletes(L)
           /\ LiveData({n} \cup L)' = DataAfter(LiveData(L), did, n)
           /\ LiveDeletes({n} \cup L)' = DeletesAfter(LiveDeletes(L), did, n)
<1>1. /\ \A p \in L : snaps'[p] = snaps[p] /\ p # n
      /\ snaps'[n].did = did
      /\ \A p \in L : \A f : Adds(p, f)' <=> Adds(p, f)
      /\ \A f : Adds(n, f)' <=> Adding(did, f)
  BY DeedsGrow DEF Grown
<1>2. ASSUME NEW f \in Files, Adding(did, f)
      PROVE  /\ \A p \in L : ~Adds(p, f) /\ snaps[p].did # <<"remove", f>>
             /\ did # <<"remove", f>>
  BY <1>2, DeedsAreWritten DEF Follows, Adding
<1>3. LiveData(L)' = LiveData(L)
  BY <1>1 DEF LiveData
<1>4. LiveDeletes(L)' = LiveDeletes(L)
  BY <1>1 DEF LiveDeletes
<1>5. LiveData({n} \cup L)' = DataAfter(LiveData(L), did, n)
  <2>1. ASSUME NEW d \in [file : Files, target : {None}, seq : L]
        PROVE  d \in LiveData({n} \cup L)' <=> d \in LiveData(L) /\ did # <<"remove", d.file>>
    BY <1>1 DEF LiveData
  <2>2. ASSUME NEW d \in [file : Files, target : {None}, seq : {n}]
        PROVE  d \in LiveData({n} \cup L)' <=> Adding(did, d.file)
    <3>1. d.seq = n /\ d.file \in Files
      OBVIOUS
    <3> QED BY <1>1, <1>2, <3>1 DEF LiveData
  <2>3. ASSUME NEW d \in LiveData({n} \cup L)'
        PROVE  d \in [file : Files, target : {None}, seq : L] \/ d \in [file : Files, target : {None}, seq : {n}]
    BY DEF LiveData
  <2>4. ASSUME NEW f \in Files
        PROVE  DataEntry(f, n) \in [file : Files, target : {None}, seq : {n}] /\ DataEntry(f, n).file = f
    BY DEF DataEntry
  <2>5. ASSUME NEW d \in [file : Files, target : {None}, seq : {n}] PROVE d = DataEntry(d.file, n) /\ d.file \in Files
    BY DEF DataEntry
  <2>6. ASSUME NEW d \in LiveData(L) PROVE d \in [file : Files, target : {None}, seq : L]
    BY DEF LiveData
  <2>7. ASSUME NEW d \in LiveData({n} \cup L)'
        PROVE  \/ d \in LiveData(L) /\ did # <<"remove", d.file>>
               \/ d.file \in Files /\ Adding(did, d.file) /\ d = DataEntry(d.file, n)
    BY <2>1, <2>2, <2>3, <2>5
  <2>8. ASSUME NEW d \in LiveData(L), did # <<"remove", d.file>> PROVE d \in LiveData({n} \cup L)'
    BY <2>1, <2>6, <2>8
  <2>9. ASSUME NEW f \in Files, Adding(did, f) PROVE DataEntry(f, n) \in LiveData({n} \cup L)'
    BY <2>2, <2>4, <2>9
  <2> DEFINE C == LiveData({n} \cup L)'
  <2> HIDE DEF C
  <2> QED BY <2>7, <2>8, <2>9 DEF C, DataAfter
<1>6. LiveDeletes({n} \cup L)' = DeletesAfter(LiveDeletes(L), did, n)
  <2>1. ASSUME NEW x \in LiveDeletes({n} \cup L)'
        PROVE  \/ x \in LiveDeletes(L)
               \/ x.target \in Files \cup {None} /\ did = <<"rows", x.target>> /\ x = DeleteEntry(x.target, n)
    <3>1. CASE x.seq = n
      BY <1>1, <3>1 DEF LiveDeletes, DeleteEntry
    <3>2. CASE x.seq \in L
      BY <1>1, <3>2 DEF LiveDeletes
    <3> QED BY <3>1, <3>2 DEF LiveDeletes
  <2>2. ASSUME NEW x \in LiveDeletes(L) PROVE x \in LiveDeletes({n} \cup L)'
    BY <1>1 DEF LiveDeletes
  <2>3. ASSUME NEW x \in Files \cup {None}, did = <<"rows", x>>
        PROVE  DeleteEntry(x, n) \in LiveDeletes({n} \cup L)'
    BY <1>1, <2>3 DEF LiveDeletes, DeleteEntry
  <2> DEFINE C == LiveDeletes({n} \cup L)'
  <2> HIDE DEF C
  <2> QED BY <2>1, <2>2, <2>3 DEF C, DeletesAfter
<1> QED BY <1>3, <1>4, <1>5, <1>6

\* A snapshot that follows from the present one keeps the invariant.
LEMMA SnapshotKeepsTable ==
    ASSUME TableInv, NEW op, NEW did, NEW ms, Follows(op, did, ms), Snapshot(op, did, ms)
    PROVE  TableInv'
<1>1. PICK k : k = Next1
  OBVIOUS
<1>2. Grown(op, did, ms)
  BY SnapshotGrows
<1>3. /\ DOMAIN snaps' = (DOMAIN snaps) \cup {k} /\ k \notin DOMAIN snaps
      /\ \A s \in DOMAIN snaps : snaps'[s] = snaps[s]
      /\ snaps'[k].parent = current /\ snaps'[k].op = op
      /\ snaps'[k].did = did /\ snaps'[k].manifests = ms
      /\ k \in Nat \ {0} /\ DOMAIN snaps = 1..(k - 1)
  BY <1>1, <1>2 DEF Grown
<1>4. /\ \A p \in DOMAIN snaps : \A f : Adds(p, f)' <=> Adds(p, f)
      /\ \A f : Adds(k, f)' <=> Adding(did, f)
      /\ Written \subseteq Written'
      /\ \A m \in ms : \A e \in m.entries : e.file \in Written'
  BY <1>1, <1>2, DeedsGrow
<1>5. /\ format' \in {"v1", "v2", "v4"} /\ content' \in Layouts
      /\ kept' \subseteq DOMAIN snaps' /\ current' \in kept' \cup {0}
  BY <1>1, <1>3 DEF TableInv, Snapshot
<1>6. HistoryTyped'
  <2>1. ASSUME NEW s \in DOMAIN snaps
        PROVE  /\ snaps'[s].parent \in 0..(s - 1)
               /\ snaps'[s].manifests \subseteq ManifestRecords(s)
               /\ snaps'[s].did \in Deeds
               /\ snaps'[s].op = "append" => snaps'[s].did[1] \in {"add", "merge"}
    BY <1>3 DEF TableInv, HistoryTyped
  <2>2. /\ snaps'[k].parent \in 0..(k - 1)
        /\ snaps'[k].manifests \subseteq ManifestRecords(k)
        /\ snaps'[k].did \in Deeds
        /\ snaps'[k].op = "append" => snaps'[k].did[1] \in {"add", "merge"}
    <3>1. current \in 0..(k - 1)
      BY <1>1, PresentTells, LineageIs DEF TableInv, Next1
    <3> QED BY <1>1, <1>3, <3>1 DEF Follows
  <2>3. Len(snaps') <= MaxSnapshots /\ snaps' \in Seq(SnapshotRecords)
    BY <1>2 DEF Grown
  <2> QED BY <1>3, <2>1, <2>2, <2>3 DEF HistoryTyped
<1>7. FilesAreAdded'
  <2>1. ASSUME NEW s \in DOMAIN snaps', NEW m \in snaps'[s].manifests, NEW e \in m.entries
        PROVE  IF m.content = "data" THEN \E p \in DOMAIN snaps' : Adds(p, e.file)' ELSE e.file \notin Files
    <3>1. CASE s \in DOMAIN snaps
      <4>1. m \in snaps[s].manifests
        BY <1>3, <3>1
      <4>2. IF m.content = "data" THEN \E p \in DOMAIN snaps : Adds(p, e.file) ELSE e.file \notin Files
        BY <3>1, <4>1 DEF TableInv, FilesAreAdded
      <4> QED BY <1>3, <1>4, <4>2
    <3>2. CASE s = k
      <4>1. IF m.content = "data" THEN Adding(did, e.file) \/ \E p \in DOMAIN snaps : Adds(p, e.file)
            ELSE e.file \notin Files
        BY <1>3, <3>2 DEF Follows
      <4> QED BY <1>3, <1>4, <4>1
    <3> QED BY <1>3, <3>1, <3>2
  <2>2. ASSUME NEW s \in DOMAIN snaps', NEW f \in Files
        PROVE  /\ Adds(s, f)' \/ snaps'[s].did = <<"remove", f>> => f \in Written'
               /\ snaps'[s].did = <<"rows", f>> => \E p \in 1..(s - 1) : Adds(p, f)'
    <3>1. CASE s \in DOMAIN snaps
      <4>1. /\ Adds(s, f) \/ snaps[s].did = <<"remove", f>> => f \in Written
            /\ snaps[s].did = <<"rows", f>> => \E p \in 1..(s - 1) : Adds(p, f)
        BY <3>1 DEF TableInv, FilesAreAdded
      <4>2. \A p \in 1..(s - 1) : p \in DOMAIN snaps
        BY <1>3, <3>1
      <4> QED BY <1>3, <1>4, <3>1, <4>1, <4>2
    <3>2. CASE s = k
      <4>1. /\ Adding(did, f) => f \notin Written /\ \E m \in ms : \E e \in m.entries : e.file = f
            /\ did = <<"remove", f>> => f \in Written
            /\ did = <<"rows", f>> => \E p \in DOMAIN snaps : Adds(p, f)
        BY DEF Follows
      <4> QED BY <1>3, <1>4, <3>2, <4>1
    <3> QED BY <1>3, <3>1, <3>2
  <2>3. ASSUME NEW p \in DOMAIN snaps', NEW q \in DOMAIN snaps', NEW f \in Files, Adds(p, f)', Adds(q, f)'
        PROVE  p = q
    <3>1. Adding(did, f) => \A s \in DOMAIN snaps : ~Adds(s, f)
      BY DeedsAreWritten DEF TableInv, Follows
    <3>2. \A s, r \in DOMAIN snaps : Adds(s, f) /\ Adds(r, f) => s = r
      BY DEF TableInv, FilesAreAdded
    <3> QED BY <1>3, <1>4, <2>3, <3>1, <3>2
  <2> QED BY <2>1, <2>2, <2>3 DEF FilesAreAdded
<1>8. ManifestsTell'
  <2>1. /\ \A s \in DOMAIN snaps : Lineage(s)' = Lineage(s) /\ Lineage(s) \in SUBSET DOMAIN snaps
        /\ Lineage(k)' = {k} \cup Past /\ Past \in SUBSET DOMAIN snaps
    BY <1>1, <1>2, LineageGrows, PresentTells DEF Lineage
  <2>2. ASSUME NEW s \in DOMAIN snaps
        PROVE  /\ Collected(snaps'[s].manifests, "data") = LiveData(Lineage(s))'
               /\ Collected(snaps'[s].manifests, "deletes") = LiveDeletes(Lineage(s))'
               /\ HeldOnce(snaps'[s].manifests)
    <3>1. /\ Collected(snaps[s].manifests, "data") = LiveData(Lineage(s))
          /\ Collected(snaps[s].manifests, "deletes") = LiveDeletes(Lineage(s))
          /\ HeldOnce(snaps[s].manifests)
      BY DEF TableInv, ManifestsTell
    <3>2. PICK L : L = Lineage(s)
      OBVIOUS
    <3>3. L \in SUBSET DOMAIN snaps /\ Lineage(s)' = L
      BY <2>1, <3>2
    <3>4. LiveData(L)' = LiveData(L) /\ LiveDeletes(L)' = LiveDeletes(L)
      BY <1>1, <1>2, <3>3, LiveDataGrows DEF TableInv
    <3>5. LiveData(Lineage(s))' = LiveData(L)' /\ LiveDeletes(Lineage(s))' = LiveDeletes(L)'
      BY <3>3
    <3> QED BY <1>3, <3>1, <3>2, <3>4, <3>5
  <2>3. /\ Collected(snaps'[k].manifests, "data") = LiveData(Lineage(k))'
        /\ Collected(snaps'[k].manifests, "deletes") = LiveDeletes(Lineage(k))'
        /\ HeldOnce(snaps'[k].manifests)
    <3>1. PICK L : L = Past
      OBVIOUS
    <3>2. L \in SUBSET DOMAIN snaps /\ Lineage(k)' = {k} \cup L
      BY <2>1, <3>1
    <3>3. /\ LiveData(Lineage(k))' = LiveData({k} \cup L)'
          /\ LiveDeletes(Lineage(k))' = LiveDeletes({k} \cup L)'
      BY <3>2
    <3>4. /\ Collected(ms, "data") = DataAfter(LiveData(L), did, k)
          /\ Collected(ms, "deletes") = DeletesAfter(LiveDeletes(L), did, k)
          /\ HeldOnce(ms)
      BY <1>1, <3>1, PresentTells DEF Follows
    <3>5. /\ LiveData({k} \cup L)' = Collected(ms, "data")
          /\ LiveDeletes({k} \cup L)' = Collected(ms, "deletes")
      BY <1>1, <1>2, <3>2, <3>4, LiveDataGrows DEF TableInv
    <3> QED BY <1>3, <3>3, <3>4, <3>5
  <2> QED BY <1>3, <2>2, <2>3 DEF ManifestsTell
<1>9. AddedManifests'
  <2>1. ASSUME NEW s \in DOMAIN snaps', NEW f \in Files, Adds(s, f)'
        PROVE  LET own == {m \in snaps'[s].manifests : m.added = s} IN
               /\ [file |-> f, target |-> None, seq |-> s] \in Collected(own, "data")
               /\ snaps'[s].did[1] = "add" => \A d \in Collected(own, "data") : d.file = f
    <3>1. CASE s \in DOMAIN snaps
      <4>1. Adds(s, f) /\ snaps'[s] = snaps[s]
        BY <1>3, <1>4, <2>1, <3>1
      <4>2. LET own == {m \in snaps[s].manifests : m.added = s} IN
            /\ [file |-> f, target |-> None, seq |-> s] \in Collected(own, "data")
            /\ snaps[s].did[1] = "add" => \A d \in Collected(own, "data") : d.file = f
        BY <3>1, <4>1 DEF TableInv, AddedManifests
      <4> QED BY <4>1, <4>2
    <3>2. CASE s = k
      BY <1>1, <1>3, <1>4, <2>1, <3>2 DEF Follows, DataEntry
    <3> QED BY <1>3, <3>1, <3>2
  <2> QED BY <2>1 DEF AddedManifests
<1> QED BY <1>5, <1>6, <1>7, <1>8, <1>9 DEF TableInv

\* Collecting from two sets of manifests, and from one manifest more.
LEMMA CollectedParts ==
    /\ \A A, B, kind : Collected(A \cup B, kind) = Collected(A, kind) \cup Collected(B, kind)
    /\ \A m, kind : Collected({m}, kind) = IF m.content = kind THEN Live(m) ELSE {}
BY DEF Collected

LEMMA CollectedWith ==
    ASSUME NEW A, NEW m, NEW kind
    PROVE  /\ m.content = kind => Collected(A \cup {m}, kind) = Collected(A, kind) \cup Live(m)
           /\ m.content # kind => Collected(A \cup {m}, kind) = Collected(A, kind)
BY DEF Collected

\* What is known of the manifests of the current snapshot.
LEMMA PresentManifests ==
    ASSUME TableInv, NEW m \in Present
    PROVE  /\ m \in ManifestRecords(Next1) /\ m.added # Next1 /\ Next1 = Len(snaps) + 1
           /\ Len(snaps) \in Nat
           /\ \A e \in m.entries :
                 /\ e \in EntryRecords(Next1) /\ e.file \in Written
                 /\ IF m.content = "data" THEN e.file \in Files /\ \E p \in DOMAIN snaps : Adds(p, e.file)
                    ELSE e.file \notin Files
           /\ \A d \in Live(m) : d.file \in Written /\ SequenceOf(m, d) \in 1..Next1
<1>0. Len(snaps) \in Nat /\ Next1 = Len(snaps) + 1 /\ DOMAIN snaps = 1..Len(snaps)
  BY LineageIs DEF TableInv, Next1
<1>1. m \in ManifestRecords(Len(snaps)) /\ \E s \in DOMAIN snaps : m \in snaps[s].manifests
  BY PresentTells
<1>2. m \in ManifestRecords(Next1)
  BY <1>0, <1>1, RecordsGrow
<1>3. m.added # Next1
  BY <1>0, <1>1 DEF ManifestRecords
<1>4. ASSUME NEW e \in m.entries
      PROVE  /\ e \in EntryRecords(Next1) /\ e.file \in Written
             /\ IF m.content = "data" THEN e.file \in Files /\ \E p \in DOMAIN snaps : Adds(p, e.file)
                ELSE e.file \notin Files
  <2>1. e \in EntryRecords(Next1)
    BY <1>2 DEF ManifestRecords
  <2>2. e.file \in Written
    BY <1>1 DEF Written
  <2>3. IF m.content = "data" THEN \E p \in DOMAIN snaps : Adds(p, e.file) ELSE e.file \notin Files
    BY <1>1 DEF TableInv, FilesAreAdded
  <2>4. \A p \in DOMAIN snaps : Adds(p, e.file) => e.file \in Files
    BY DEF TableInv, HistoryTyped, Adds, Deeds
  <2> QED BY <2>1, <2>2, <2>3, <2>4
<1>5. ASSUME NEW d \in Live(m) PROVE d.file \in Written /\ SequenceOf(m, d) \in 1..Next1
  <2>1. PICK e \in m.entries : d = [file |-> e.file, target |-> e.target, seq |-> SequenceOf(m, e)]
    BY InLive
  <2>2. m.seq \in 1..Next1 /\ e.seq \in 1..Next1 \cup {None}
    BY <1>2, <1>4 DEF ManifestRecords, EntryRecords
  <2>3. d.file = e.file /\ d.seq = SequenceOf(m, e)
    BY <2>1
  <2> QED BY <1>4, <2>2, <2>3 DEF SequenceOf
<1> QED BY <1>0, <1>2, <1>3, <1>4, <1>5

\* What is known of the files of the current snapshot.
LEMMA PresentFiles ==
    ASSUME TableInv, NEW d \in Collected(Present, "data")
    PROVE  /\ d = [file |-> d.file, target |-> None, seq |-> d.seq]
           /\ d.file \in Files /\ d.seq \in 1..Next1 /\ d.seq # None /\ d.target = None
           /\ d.seq \in DOMAIN snaps /\ Adds(d.seq, d.file)
<1>1. d \in [file : Files, target : {None}, seq : Past] /\ Adds(d.seq, d.file)
  BY PresentTells DEF LiveData
<1>2. d.seq \in DOMAIN snaps
  BY <1>1, PresentTells
<1>3. d.seq \in 1..Next1
  BY <1>2, LineageIs DEF TableInv, Next1
<1> QED BY <1>1, <1>2, <1>3, SentinelAssumption

\* A new manifest, and what is read of it again.
LEMMA NewManifest ==
    ASSUME NEW kind \in {"data", "deletes"}, NEW entries, entries \subseteq EntryRecords(Next1),
           Next1 \in Nat \ {0}
    PROVE  /\ Manifest(kind, entries) \in ManifestRecords(Next1)
           /\ Manifest(kind, entries).added = Next1 /\ Manifest(kind, entries).content = kind
           /\ Manifest(kind, entries).seq = Next1
           /\ Manifest(kind, entries).entries = entries
BY DEF Manifest, ManifestRecords

\* Carried entries are live, with the sequence numbers they had.
LEMMA CarriedEntries ==
    ASSUME NEW ds, \A d \in ds : /\ d = [file |-> d.file, target |-> None, seq |-> d.seq]
                                 /\ d.file \in Files /\ d.seq \in 1..Next1 /\ d.seq # None
    PROVE  /\ Carried(ds) \subseteq EntryRecords(Next1)
           /\ \A e \in Carried(ds) : /\ e.status = "existing" /\ \E d \in ds : e.file = d.file
           /\ \A m : {[file |-> e.file, target |-> e.target, seq |-> SequenceOf(m, e)] : e \in Carried(ds)} = ds
<1>1. ASSUME NEW d \in ds
      PROVE  /\ Entry(d.file, d.target, "existing", d.seq) \in EntryRecords(Next1)
             /\ Entry(d.file, d.target, "existing", d.seq).status = "existing"
             /\ Entry(d.file, d.target, "existing", d.seq).file = d.file
             /\ Entry(d.file, d.target, "existing", d.seq).target = None
             /\ Entry(d.file, d.target, "existing", d.seq).seq = d.seq
  <2>1. d.target = None
    OBVIOUS
  <2> QED BY <2>1 DEF Entry, EntryRecords
<1>2. Carried(ds) \subseteq EntryRecords(Next1)
  BY <1>1 DEF Carried
<1>3. \A e \in Carried(ds) : e.status = "existing" /\ \E d \in ds : e.file = d.file
  BY <1>1 DEF Carried
<1>4. ASSUME NEW m
      PROVE  {[file |-> e.file, target |-> e.target, seq |-> SequenceOf(m, e)] : e \in Carried(ds)} = ds
  <2>1. ASSUME NEW d \in ds
        PROVE  LET e == Entry(d.file, d.target, "existing", d.seq) IN
               [file |-> e.file, target |-> e.target, seq |-> SequenceOf(m, e)] = d
    BY <1>1 DEF SequenceOf
  <2> QED BY <2>1 DEF Carried
<1> QED BY <1>2, <1>3, <1>4

\* The entry of an added file.
LEMMA AddedEntry ==
    ASSUME NEW f \in Files, Next1 \in Nat \ {0}
    PROVE  LET e == Entry(f, None, "added", None) IN
           /\ e \in EntryRecords(Next1) /\ e.file = f /\ e.status = "added"
           /\ \A m : m.seq = Next1 =>
                 [file |-> e.file, target |-> e.target, seq |-> SequenceOf(m, e)] = DataEntry(f, Next1)
BY DEF Entry, EntryRecords, SequenceOf, DataEntry

LEMMA NextIsPositive == ASSUME TableInv PROVE Next1 \in Nat \ {0}
BY LineageIs DEF TableInv, Next1

\* Each writer writes a snapshot of the required form.
LEMMA AppendFileFollows ==
    ASSUME TableInv, NEW f \in Files \ Written
    PROVE  Follows("append", <<"add", f>>, Present \cup {Manifest("data", {Entry(f, None, "added", None)})})
<1> DEFINE did == <<"add", f>>
           e0 == Entry(f, None, "added", None)
           new == Manifest("data", {e0})
           ms == Present \cup {new}
<1>0. Next1 \in Nat \ {0}
  BY NextIsPositive
<1>1. e0 \in EntryRecords(Next1) /\ e0.file = f /\ e0.status = "added"
  BY <1>0, AddedEntry
<1>2. /\ new \in ManifestRecords(Next1) /\ new.added = Next1 /\ new.content = "data"
      /\ new.seq = Next1 /\ new.entries = {e0}
  BY <1>0, <1>1, NewManifest
<1>3. [file |-> e0.file, target |-> e0.target, seq |-> SequenceOf(new, e0)] = DataEntry(f, Next1)
  BY <1>0, <1>2, AddedEntry
<1> HIDE DEF new, e0
<1>4. Live(new) = {DataEntry(f, Next1)}
  BY <1>1, <1>2, <1>3 DEF Live
<1>5. Adding(did, f) /\ \A g : Adding(did, g) => g = f
  BY DEF Adding
<1>6. /\ \A g : did # <<"remove", g>> /\ did # <<"rows", g>>
      /\ did \in Deeds /\ did[1] = "add"
  BY DEF Deeds
<1> HIDE DEF did
<1>7. ms \subseteq ManifestRecords(Next1)
  BY <1>2, PresentManifests
<1>8. ASSUME NEW m \in ms, NEW e \in m.entries
      PROVE  IF m.content = "data" THEN Adding(did, e.file) \/ \E p \in DOMAIN snaps : Adds(p, e.file)
             ELSE e.file \notin Files
  <2>1. CASE m \in Present
    BY <2>1, PresentManifests
  <2>2. CASE m = new
    BY <1>1, <1>2, <1>5, <2>2
  <2> QED BY <2>1, <2>2
<1>9. ASSUME NEW g \in Files
      PROVE  /\ Adding(did, g) => g \notin Written /\ \E m \in ms : \E e \in m.entries : e.file = g
             /\ did = <<"remove", g>> => g \in Written
             /\ did = <<"rows", g>> => \E p \in DOMAIN snaps : Adds(p, g)
  BY <1>1, <1>2, <1>5, <1>6
<1>10. Collected(ms, "data") = DataAfter(Collected(Present, "data"), did, Next1)
  <2>1. Collected(ms, "data") = Collected(Present, "data") \cup {DataEntry(f, Next1)}
    <3>1. Collected(ms, "data") = Collected(Present, "data") \cup Live(new)
      BY <1>2, CollectedWith
    <3> QED BY <1>4, <3>1
  <2> QED BY <1>5, <1>6, <2>1 DEF DataAfter
<1>11. Collected(ms, "deletes") = DeletesAfter(Collected(Present, "deletes"), did, Next1)
  <2>1. Collected(ms, "deletes") = Collected(Present, "deletes")
    BY <1>2, CollectedWith
  <2> QED BY <1>6, <2>1 DEF DeletesAfter
<1>12. HeldOnce(ms)
  <2>1. HeldOnce(Present)
    BY PresentTells
  <2>2. \A m \in Present : \A d \in Live(m) : d.file # f
    BY PresentManifests
  <2>3. \A d \in Live(new) : d.file = f
    BY <1>4 DEF DataEntry
  <2> QED BY <2>1, <2>2, <2>3 DEF HeldOnce
<1>13. ASSUME NEW g \in Files, Adding(did, g)
       PROVE  LET own == {m \in ms : m.added = Next1} IN
              /\ DataEntry(g, Next1) \in Collected(own, "data")
              /\ did[1] = "add" => \A d \in Collected(own, "data") : d.file = g
  <2>1. {m \in ms : m.added = Next1} = {new}
    BY <1>2, PresentManifests
  <2>2. Collected({new}, "data") = {DataEntry(f, Next1)}
    BY <1>2, <1>4, CollectedParts
  <2>3. DataEntry(f, Next1).file = f
    BY DEF DataEntry
  <2> QED BY <1>5, <1>13, <2>1, <2>2, <2>3
<1>14. Follows("append", did, ms)
  <2> HIDE DEF ms
  <2> QED BY <1>6, <1>7, <1>8, <1>9, <1>10, <1>11, <1>12, <1>13 DEF Follows
<1> QED BY <1>14 DEF did, new, e0

LEMMA MergeAppendFollows ==
    ASSUME TableInv, NEW f \in Files \ Written
    PROVE  Follows("append", <<"merge", f>>,
              {m \in Present : m.content = "deletes"} \cup
              {Manifest("data", {Entry(f, None, "added", None)} \cup Carried(Collected(Present, "data")))})
<1> DEFINE did == <<"merge", f>>
           e0 == Entry(f, None, "added", None)
           old == Collected(Present, "data")
           new == Manifest("data", {e0} \cup Carried(old))
           dels == {m \in Present : m.content = "deletes"}
           ms == dels \cup {new}
<1>0. Next1 \in Nat \ {0}
  BY NextIsPositive
<1>1. e0 \in EntryRecords(Next1) /\ e0.file = f /\ e0.status = "added"
  BY <1>0, AddedEntry
<1>a. \A d \in old : /\ d = [file |-> d.file, target |-> None, seq |-> d.seq]
                     /\ d.file \in Files /\ d.seq \in 1..Next1 /\ d.seq # None
                     /\ d.seq \in DOMAIN snaps /\ Adds(d.seq, d.file)
  BY PresentFiles
<1> HIDE DEF old, e0
<1>b. /\ Carried(old) \subseteq EntryRecords(Next1)
      /\ \A e \in Carried(old) : e.status = "existing" /\ \E d \in old : e.file = d.file
      /\ \A m : {[file |-> e.file, target |-> e.target, seq |-> SequenceOf(m, e)] : e \in Carried(old)} = old
  BY <1>a, CarriedEntries
<1>2. /\ new \in ManifestRecords(Next1) /\ new.added = Next1 /\ new.content = "data"
      /\ new.seq = Next1 /\ new.entries = {e0} \cup Carried(old)
  BY <1>0, <1>1, <1>b, NewManifest
<1> HIDE DEF new
<1>3. [file |-> e0.file, target |-> e0.target, seq |-> SequenceOf(new, e0)] = DataEntry(f, Next1)
  BY <1>0, <1>2, AddedEntry DEF e0
<1>4. Live(new) = {DataEntry(f, Next1)} \cup old
  <2>1. {e \in new.entries : e.status \in {"added", "existing"}} = {e0} \cup Carried(old)
    BY <1>1, <1>2, <1>b
  <2>2. {[file |-> e.file, target |-> e.target, seq |-> SequenceOf(new, e)] : e \in Carried(old)} = old
    BY <1>b
  <2>3. Live(new) = {[file |-> e.file, target |-> e.target, seq |-> SequenceOf(new, e)] : e \in {e0} \cup Carried(old)}
    BY <2>1 DEF Live
  <2> QED BY <1>3, <2>2, <2>3
<1>5. Adding(did, f) /\ \A g : Adding(did, g) => g = f
  BY DEF Adding
<1>6. /\ \A g : did # <<"remove", g>> /\ did # <<"rows", g>>
      /\ did \in Deeds /\ did[1] = "merge"
  BY DEF Deeds
<1> HIDE DEF did
<1>7. ms \subseteq ManifestRecords(Next1)
  BY <1>2, PresentManifests
<1>8. ASSUME NEW m \in ms, NEW e \in m.entries
      PROVE  IF m.content = "data" THEN Adding(did, e.file) \/ \E p \in DOMAIN snaps : Adds(p, e.file)
             ELSE e.file \notin Files
  <2>1. CASE m \in dels
    BY <2>1, PresentManifests
  <2>2. CASE m = new
    BY <1>1, <1>2, <1>5, <1>a, <1>b, <2>2
  <2> QED BY <2>1, <2>2
<1>9. ASSUME NEW g \in Files
      PROVE  /\ Adding(did, g) => g \notin Written /\ \E m \in ms : \E e \in m.entries : e.file = g
             /\ did = <<"remove", g>> => g \in Written
             /\ did = <<"rows", g>> => \E p \in DOMAIN snaps : Adds(p, g)
  BY <1>1, <1>2, <1>5, <1>6
<1>c. Collected(dels, "data") = {} /\ Collected(dels, "deletes") = Collected(Present, "deletes")
  BY DEF Collected
<1> HIDE DEF dels
<1>10. Collected(ms, "data") = DataAfter(old, did, Next1)
  <2>1. Collected(ms, "data") = old \cup {DataEntry(f, Next1)}
    <3>1. Collected(ms, "data") = Collected(dels, "data") \cup Live(new)
      BY <1>2, CollectedWith
    <3> QED BY <1>4, <1>c, <3>1
  <2> QED BY <1>5, <1>6, <2>1 DEF DataAfter
<1>11. Collected(ms, "deletes") = DeletesAfter(Collected(Present, "deletes"), did, Next1)
  <2>1. Collected(ms, "deletes") = Collected(dels, "deletes")
    BY <1>2, CollectedWith
  <2> QED BY <1>6, <1>c, <2>1 DEF DeletesAfter
<1>12. HeldOnce(ms)
  <2>1. \A m \in ms : m.content = "data" => m = new
    BY DEF dels
  <2> QED BY <2>1 DEF HeldOnce
<1>13. ASSUME NEW g \in Files, Adding(did, g)
       PROVE  LET own == {m \in ms : m.added = Next1} IN
              /\ DataEntry(g, Next1) \in Collected(own, "data")
              /\ did[1] = "add" => \A d \in Collected(own, "data") : d.file = g
  <2>1. {m \in ms : m.added = Next1} = {new}
    BY <1>2, PresentManifests DEF dels
  <2>2. Collected({new}, "data") = {DataEntry(f, Next1)} \cup old
    BY <1>2, <1>4, CollectedParts
  <2> QED BY <1>5, <1>6, <1>13, <2>1, <2>2
<1>14. Follows("append", did, ms)
  <2> HIDE DEF ms
  <2> QED BY <1>6, <1>7, <1>8, <1>9, <1>10, <1>11, <1>12, <1>13 DEF Follows, old
<1> QED BY <1>14 DEF did, new, e0, dels, old

LEMMA RemoveFileFollows ==
    ASSUME TableInv, NEW m \in Present, NEW e \in m.entries, m.content = "data", e.status # "deleted"
    PROVE  Follows("delete", <<"remove", e.file>>,
              (Present \ {m}) \cup
              {Manifest("data", {Entry(e.file, None, "deleted", SequenceOf(m, e))} \cup
                                Carried({d \in Collected({m}, "data") : d.file # e.file}))})
<1> DEFINE f == e.file
           did == <<"remove", f>>
           e0 == Entry(f, None, "deleted", SequenceOf(m, e))
           rest == {d \in Collected({m}, "data") : d.file # f}
           new == Manifest("data", {e0} \cup Carried(rest))
           others == Present \ {m}
           ms == others \cup {new}
<1>0. Next1 \in Nat \ {0}
  BY NextIsPositive
<1>1. /\ m \in ManifestRecords(Next1) /\ e \in EntryRecords(Next1)
      /\ f \in Written /\ f \in Files /\ \E p \in DOMAIN snaps : Adds(p, f)
  BY PresentManifests
<1>2. SequenceOf(m, e) \in 1..Next1
  BY <1>1 DEF SequenceOf, ManifestRecords, EntryRecords
<1>3. e0 \in EntryRecords(Next1) /\ e0.file = f /\ e0.status = "deleted"
  BY <1>1, <1>2 DEF Entry, EntryRecords
<1>4. \E d \in Live(m) : d.file = f
  <2>1. e.status \in {"added", "existing"}
    BY <1>1 DEF EntryRecords
  <2> DEFINE d0 == [file |-> f, target |-> e.target, seq |-> SequenceOf(m, e)]
  <2>2. d0 \in Live(m)
    BY <2>1 DEF Live
  <2> QED BY <2>2
<1>5. Collected({m}, "data") = Live(m) /\ rest = {d \in Live(m) : d.file # f}
  BY CollectedParts
<1>6. \A d \in rest : /\ d = [file |-> d.file, target |-> None, seq |-> d.seq]
                      /\ d.file \in Files /\ d.seq \in 1..Next1 /\ d.seq # None
                      /\ d.seq \in DOMAIN snaps /\ Adds(d.seq, d.file)
  <2>1. \A d \in rest : d \in Collected(Present, "data")
    BY <1>5, InCollected
  <2> QED BY <2>1, PresentFiles
<1> HIDE DEF rest, e0
<1>7. /\ Carried(rest) \subseteq EntryRecords(Next1)
      /\ \A x \in Carried(rest) : x.status = "existing" /\ \E d \in rest : x.file = d.file
      /\ \A k : {[file |-> x.file, target |-> x.target, seq |-> SequenceOf(k, x)] : x \in Carried(rest)} = rest
  BY <1>6, CarriedEntries
<1>8. /\ new \in ManifestRecords(Next1) /\ new.added = Next1 /\ new.content = "data"
      /\ new.seq = Next1 /\ new.entries = {e0} \cup Carried(rest)
  BY <1>0, <1>3, <1>7, NewManifest
<1> HIDE DEF new
<1>9. Live(new) = rest
  <2>1. {x \in new.entries : x.status \in {"added", "existing"}} = Carried(rest)
    BY <1>3, <1>7, <1>8
  <2>2. Live(new) = {[file |-> x.file, target |-> x.target, seq |-> SequenceOf(new, x)] : x \in Carried(rest)}
    BY <2>1 DEF Live
  <2> QED BY <1>7, <2>2
<1>10. \A g : ~Adding(did, g) /\ did # <<"rows", g>> /\ (did = <<"remove", g>> <=> g = f)
  BY DEF Adding
<1>11. did \in Deeds
  BY <1>1 DEF Deeds
<1> HIDE DEF did
<1>12. HeldOnce(Present)
  BY PresentTells
<1>13. \A k \in others : k.content = "data" => \A d \in Live(k) : d.file # f
  BY <1>4, <1>12 DEF HeldOnce
<1>14. Collected(ms, "data") = DataAfter(Collected(Present, "data"), did, Next1)
  <2>1. Collected(ms, "data") = Collected(others, "data") \cup rest
    BY <1>8, <1>9, CollectedWith
  <2>2. Present = others \cup {m}
    OBVIOUS
  <2>3. Collected(Present, "data") = Collected(others, "data") \cup Live(m)
    BY <2>2, CollectedWith
  <2>4. \A d \in Collected(others, "data") : d.file # f
    BY <1>13, InCollected
  <2>5. DataAfter(Collected(Present, "data"), did, Next1) = {d \in Collected(Present, "data") : d.file # f}
    BY <1>10 DEF DataAfter
  <2> HIDE DEF ms, others
  <2> QED BY <1>5, <2>1, <2>3, <2>4, <2>5
<1>15. Collected(ms, "deletes") = DeletesAfter(Collected(Present, "deletes"), did, Next1)
  <2>1. Collected(ms, "deletes") = Collected(others, "deletes")
    <3>1. new.content # "deletes"
      BY <1>8
    <3> HIDE DEF others
    <3> QED BY <3>1, CollectedWith
  <2>2. Present = others \cup {m}
    OBVIOUS
  <2>3. Collected(Present, "deletes") = Collected(others, "deletes")
    BY <2>2, CollectedWith
  <2>4. DeletesAfter(Collected(Present, "deletes"), did, Next1) = Collected(Present, "deletes")
    BY <1>10 DEF DeletesAfter
  <2> QED BY <2>1, <2>3, <2>4
<1>16. ms \subseteq ManifestRecords(Next1)
  BY <1>8, PresentManifests
<1>17. ASSUME NEW k \in ms, NEW x \in k.entries
       PROVE  IF k.content = "data" THEN Adding(did, x.file) \/ \E p \in DOMAIN snaps : Adds(p, x.file)
              ELSE x.file \notin Files
  <2>1. CASE k \in Present
    BY <2>1, PresentManifests
  <2>2. CASE k = new
    BY <1>1, <1>3, <1>6, <1>7, <1>8, <2>2
  <2> QED BY <2>1, <2>2
<1>18. HeldOnce(ms)
  <2>1. \A d \in Live(new) : d \in Live(m)
    BY <1>5, <1>9
  <2>2. \A k \in others : k.content = "data" => \A d \in Live(k), x \in Live(new) : d.file # x.file
    BY <1>12, <2>1 DEF HeldOnce
  <2> QED BY <1>12, <2>2 DEF HeldOnce
<1>19. Follows("delete", did, ms)
  <2> HIDE DEF ms
  <2> QED BY <1>1, <1>10, <1>11, <1>14, <1>15, <1>16, <1>17, <1>18 DEF Follows
<1> QED BY <1>19 DEF did, new, e0, rest

LEMMA DeleteRowsFollows ==
    ASSUME TableInv, Next1 \in 1..MaxSnapshots,
           NEW target \in {d.file : d \in Collected(Present, "data")} \cup {None}
    PROVE  Follows("delete", <<"rows", target>>,
              Present \cup {Manifest("deletes", {Entry(<<"deletes", Next1>>, target, "added", None)})})
<1> DEFINE did == <<"rows", target>>
           e0 == Entry(<<"deletes", Next1>>, target, "added", None)
           new == Manifest("deletes", {e0})
           ms == Present \cup {new}
<1>0. Next1 \in Nat \ {0}
  BY NextIsPositive
<1>1. target \in Files \cup {None} /\ (target \in Files => \E p \in DOMAIN snaps : Adds(p, target))
  BY PresentFiles, SentinelAssumption
<1>2. /\ e0 \in EntryRecords(Next1) /\ e0.file = <<"deletes", Next1>> /\ e0.status = "added"
      /\ e0.target = target /\ e0.seq = None /\ e0.file \notin Files
  BY <1>0, <1>1, SentinelAssumption DEF Entry, EntryRecords
<1> HIDE DEF e0
<1>3. /\ new \in ManifestRecords(Next1) /\ new.added = Next1 /\ new.content = "deletes"
      /\ new.seq = Next1 /\ new.entries = {e0}
  BY <1>0, <1>2, NewManifest
<1> HIDE DEF new
<1>4. Live(new) = {DeleteEntry(target, Next1)}
  <2>1. [file |-> e0.file, target |-> e0.target, seq |-> SequenceOf(new, e0)] = DeleteEntry(target, Next1)
    BY <1>2, <1>3 DEF SequenceOf, DeleteEntry
  <2> QED BY <1>2, <1>3, <2>1 DEF Live
<1>5. \A g : ~Adding(did, g) /\ did # <<"remove", g>> /\ (did = <<"rows", g>> <=> g = target)
  BY DEF Adding
<1>6. did \in Deeds
  BY <1>1 DEF Deeds
<1> HIDE DEF did
<1>7. Collected(ms, "data") = DataAfter(Collected(Present, "data"), did, Next1)
  <2>1. Collected(ms, "data") = Collected(Present, "data")
    BY <1>3, CollectedWith
  <2>2. DataAfter(Collected(Present, "data"), did, Next1) = Collected(Present, "data")
    BY <1>5 DEF DataAfter
  <2> QED BY <2>1, <2>2
<1>8. Collected(ms, "deletes") = DeletesAfter(Collected(Present, "deletes"), did, Next1)
  <2>1. Collected(ms, "deletes") = Collected(Present, "deletes") \cup Live(new)
    BY <1>3, CollectedWith
  <2>2. {x \in Files \cup {None} : did = <<"rows", x>>} = {target}
    BY <1>1, <1>5
  <2>3. DeletesAfter(Collected(Present, "deletes"), did, Next1) =
           Collected(Present, "deletes") \cup {DeleteEntry(target, Next1)}
    BY <2>2 DEF DeletesAfter
  <2> QED BY <1>4, <2>1, <2>3
<1>9. ms \subseteq ManifestRecords(Next1)
  BY <1>3, PresentManifests
<1>10. ASSUME NEW k \in ms, NEW x \in k.entries
       PROVE  IF k.content = "data" THEN Adding(did, x.file) \/ \E p \in DOMAIN snaps : Adds(p, x.file)
              ELSE x.file \notin Files
  <2>1. CASE k \in Present
    BY <2>1, PresentManifests
  <2>2. CASE k = new
    BY <1>2, <1>3, <2>2
  <2> QED BY <2>1, <2>2
<1>11. HeldOnce(ms)
  <2>1. HeldOnce(Present)
    BY PresentTells
  <2> QED BY <1>3, <2>1 DEF HeldOnce
<1>12. Follows("delete", did, ms)
  <2> HIDE DEF ms
  <2> QED BY <1>1, <1>5, <1>6, <1>7, <1>8, <1>9, <1>10, <1>11 DEF Follows
<1> QED BY <1>12 DEF did, new, e0

\* The history is all that most of the invariant is about.
LEMMA SameHistory ==
    ASSUME snaps' = snaps, HistoryTyped, FilesAreAdded, ManifestsTell, AddedManifests
    PROVE  HistoryTyped' /\ FilesAreAdded' /\ ManifestsTell' /\ AddedManifests'
<1>1. HistoryTyped'
  BY DEF HistoryTyped
<1>2. /\ \A s, f : Adds(s, f)' <=> Adds(s, f)
      /\ Written' = Written
  BY DEF Adds, Written
<1>3. FilesAreAdded'
  BY <1>2 DEF FilesAreAdded
<1>4. /\ \A s : Lineage(s)' = Lineage(s)
      /\ \A L : LiveData(L)' = LiveData(L) /\ LiveDeletes(L)' = LiveDeletes(L)
  <2>1. \A s : Lineage(s)' = Lineage(s)
    BY DEF Lineage
  <2>2. \A L : LiveDeletes(L)' = LiveDeletes(L)
    BY DEF LiveDeletes
  <2>3. \A L : LiveData(L)' = LiveData(L)
    BY <1>2 DEF LiveData
  <2> QED BY <2>1, <2>2, <2>3
<1>5. ManifestsTell'
  <2>1. ASSUME NEW s PROVE /\ LiveData(Lineage(s))' = LiveData(Lineage(s))
                           /\ LiveDeletes(Lineage(s))' = LiveDeletes(Lineage(s))
    <3>1. PICK L : L = Lineage(s)
      OBVIOUS
    <3>2. Lineage(s)' = L
      BY <1>4, <3>1
    <3> QED BY <1>4, <3>1, <3>2
  <2> QED BY <2>1 DEF ManifestsTell
<1>6. AddedManifests'
  BY <1>2 DEF AddedManifests
<1> QED BY <1>1, <1>3, <1>5, <1>6

\* Every step keeps what the invariant says of the table.
LEMMA TableStep ==
    ASSUME TableInv, [Next]_vars
    PROVE  /\ TableInv' /\ content' = content /\ format' = format /\ local' = local
           /\ \A s \in DOMAIN snaps : /\ s \in DOMAIN snaps' /\ snaps'[s] = snaps[s]
                                      /\ Lineage(s)' = Lineage(s)
<1> DEFINE Goal == /\ TableInv' /\ content' = content /\ format' = format /\ local' = local
                   /\ \A s \in DOMAIN snaps : /\ s \in DOMAIN snaps' /\ snaps'[s] = snaps[s]
                                              /\ Lineage(s)' = Lineage(s)
<1>1. ASSUME NEW op, NEW did, NEW ms, Follows(op, did, ms), Snapshot(op, did, ms) PROVE Goal
  <2>1. TableInv'
    BY <1>1, SnapshotKeepsTable
  <2>2. Grown(op, did, ms)
    BY <1>1, SnapshotGrows
  <2>3. \A s \in DOMAIN snaps : s \in DOMAIN snaps' /\ snaps'[s] = snaps[s]
    BY <2>2 DEF Grown
  <2>4. \A s \in DOMAIN snaps : Lineage(s)' = Lineage(s)
    BY <2>2, LineageGrows
  <2>5. content' = content /\ format' = format /\ local' = local
    BY <1>1 DEF Snapshot
  <2> QED BY <2>1, <2>3, <2>4, <2>5
<1>2. ASSUME snaps' = snaps, content' = content, format' = format, local' = local,
             kept' \subseteq DOMAIN snaps, current' \in kept' \cup {0}
      PROVE  Goal
  <2>1. HistoryTyped' /\ FilesAreAdded' /\ ManifestsTell' /\ AddedManifests'
    BY <1>2, SameHistory DEF TableInv
  <2>2. \A s : Lineage(s)' = Lineage(s)
    BY <1>2 DEF Lineage
  <2> QED BY <1>2, <2>1, <2>2 DEF TableInv
<1> SUFFICES Goal
  OBVIOUS
<1> HIDE DEF Goal
<1>3. CASE AppendFile
  BY <1>1, <1>3, AppendFileFollows DEF AppendFile
<1>4. CASE MergeAppend
  BY <1>1, <1>4, MergeAppendFollows DEF MergeAppend
<1>5. CASE RemoveFile
  BY <1>1, <1>5, RemoveFileFollows DEF RemoveFile
<1>6. CASE DeleteRows
  <2>1. Len(snaps) < MaxSnapshots
    BY <1>6 DEF DeleteRows, Snapshot
  <2>2. Next1 \in 1..MaxSnapshots
    BY <2>1, LineageIs, BoundsAssumption DEF TableInv, Next1
  <2> QED BY <1>1, <1>6, <2>2, DeleteRowsFollows DEF DeleteRows
<1>7. CASE Rollback
  BY <1>2, <1>7 DEF Rollback, TableInv
<1>8. CASE ExpireSnapshot
  BY <1>2, <1>8 DEF ExpireSnapshot, TableInv
<1>9. CASE UNCHANGED table
  BY <1>2, <1>9 DEF table, TableInv
<1>10. CASE PlanFull \/ PlanIncremental \/ FetchTask \/ EndScan \/ UNCHANGED vars
  <2>1. UNCHANGED table
    BY <1>10 DEF PlanFull, PlanIncremental, FetchTask, EndScan, vars, table
  <2> QED BY <1>9, <2>1
<1> QED BY <1>3, <1>4, <1>5, <1>6, <1>7, <1>8, <1>10 DEF Next

-----------------------------------------------------------------------------
(* The reader *)

\* File tasks depend on the content of the files only.
LEMMA SameTasks ==
    ASSUME content' = content PROVE \A ms, fs : FileTasks(ms, fs)' = FileTasks(ms, fs)
BY DEF FileTasks

\* What the writers do leaves a scan's plan intact.
LEMMA ScanStaysTold ==
    ASSUME TableInv, [Next]_vars, NEW r, NEW todo, NEW got, ScanTells(r, todo, got)
    PROVE  ScanTells(r, todo, got)'
<1>1. /\ content' = content /\ format' = format /\ local' = local
      /\ \A s \in DOMAIN snaps : /\ s \in DOMAIN snaps' /\ snaps'[s] = snaps[s]
                                 /\ Lineage(s)' = Lineage(s)
  BY TableStep
<1>2. TokensTell(todo)'
  BY <1>1 DEF ScanTells, TokensTell, Typed
<1>3. \A ms, fs : FileTasks(ms, fs)' = FileTasks(ms, fs)
  BY <1>1, SameTasks
<1>4. FullScanTells(r, todo, got)'
  <2> SUFFICES ASSUME r # None, r.start = None, format = "v2", local PROVE FullScanTells(r, todo, got)'
    BY <1>1 DEF FullScanTells
  <2>1. r.end \in DOMAIN snaps
    BY DEF ScanTells, FullScanTells
  <2>2. PICK ms : ms = snaps[r.end].manifests
    OBVIOUS
  <2>3. r.end \in DOMAIN snaps' /\ snaps'[r.end].manifests = ms
    BY <1>1, <2>1, <2>2
  <2>4. FileTasks(snaps[r.end].manifests, r.filters)' = FileTasks(snaps[r.end].manifests, r.filters)
    BY <1>3, <2>2, <2>3
  <2> QED BY <2>3, <2>4 DEF ScanTells, FullScanTells
<1>5. IncrementalScanTells(r, todo, got)'
  <2> SUFFICES ASSUME r # None, r.start # None, format = "v2", local PROVE IncrementalScanTells(r, todo, got)'
    BY <1>1 DEF IncrementalScanTells
  <2>1. r.start \in DOMAIN snaps /\ r.end \in DOMAIN snaps
    BY DEF ScanTells, IncrementalScanTells
  <2>2. Span(r)' = Span(r) /\ Span(r) \subseteq DOMAIN snaps
    <3>1. PICK b, e : b = r.start /\ e = r.end
      OBVIOUS
    <3>2. Lineage(b)' = Lineage(b) /\ Lineage(e)' = Lineage(e)
      BY <1>1, <2>1, <3>1
    <3>3. Span(r) = Lineage(e) \ Lineage(b) /\ Span(r)' = Lineage(e)' \ Lineage(b)'
      BY <3>1 DEF Span
    <3>4. Lineage(e) \subseteq DOMAIN snaps
      BY DEF Lineage
    <3> QED BY <3>2, <3>3, <3>4
  <2>3. ASSUME NEW s \in Span(r)
        PROVE  FileTasks(Own(s), r.filters)' = FileTasks(Own(s), r.filters)
    <3>1. PICK ms : ms = Own(s)
      OBVIOUS
    <3>2. Own(s)' = ms
      BY <1>1, <2>2, <3>1 DEF Own
    <3> QED BY <1>3, <3>1, <3>2
  <2>4. \A s \in Span(r) : snaps'[s] = snaps[s] /\ Lineage(s)' = Lineage(s)
    BY <1>1, <2>2
  <2>5. r.start \in DOMAIN snaps' /\ r.end \in DOMAIN snaps'
    BY <1>1, <2>1
  <2> QED BY <2>2, <2>3, <2>4, <2>5 DEF ScanTells, IncrementalScanTells
<1> QED BY <1>2, <1>4, <1>5 DEF ScanTells

\* A bounded set of numbers has a greatest member.
LEMMA Greatest ==
    ASSUME NEW n \in Nat, NEW S, S \subseteq 1..n, S # {}
    PROVE  \E x \in S : \A y \in S : y <= x
<1> DEFINE R == {n - x : x \in S}
<1>1. R \subseteq Nat /\ R # {}
  <2>1. ASSUME NEW x \in S PROVE n - x \in Nat
    <3>1. x \in 1..n
      OBVIOUS
    <3> QED BY <3>1
  <2>2. R \subseteq Nat
    BY <2>1
  <2>3. PICK x \in S : TRUE
    OBVIOUS
  <2>4. n - x \in R
    BY <2>3
  <2> QED BY <2>2, <2>4
<1>2. PICK r \in R : \A q \in R : r <= q
  <2> HIDE DEF R
  <2> QED BY <1>1, Least
<1>3. PICK x \in S : r = n - x
  BY <1>2
<1>4. ASSUME NEW y \in S PROVE y <= x
  <2>1. r <= n - y
    BY <1>2
  <2> QED BY <1>3, <2>1
<1> QED BY <1>4

\* The walk along the parents finds the ancestors of end that are not
\* ancestors of start, and passes start.
LEMMA ChainIsSpan ==
    ASSUME TableInv, NEW start \in DOMAIN snaps, NEW end \in kept, NEW chain \in Chains(start, end)
    PROVE  /\ chain = Lineage(end) \ Lineage(start)
           /\ \A s \in chain : start \in Lineage(s)
<1>0. /\ Ordered(snaps, Len(snaps)) /\ DOMAIN snaps = 1..Len(snaps) /\ Len(snaps) \in Nat
      /\ \A s : Lineage(s) = Ancestors(snaps, s)
  BY LineageIs DEF TableInv
<1>1. CASE start = end
  BY <1>1 DEF Chains
<1>2. CASE start # end
  <2>1. /\ chain \subseteq kept /\ start \notin chain /\ end \in chain
        /\ \A s \in chain : snaps[s].parent \in chain \cup {start}
        /\ \A s \in chain \ {end} : \E c \in chain : snaps[c].parent = s
    BY <1>2 DEF Chains
  <2>2. chain \subseteq 1..Len(snaps) /\ chain \subseteq Nat
    BY <1>0, <2>1 DEF TableInv
  <2>3. \A s \in 1..Len(snaps) : snaps[s].parent \in 0..(s - 1)
    BY <1>0 DEF Ordered
  <2>4. ASSUME NEW s \in 1..Len(snaps)
        PROVE  /\ s \in Lineage(s) /\ Lineage(s) \subseteq 1..s
               /\ \A q \in Lineage(s) : snaps[q].parent \in Lineage(s) \cup {0}
    BY <1>0, AncestorsAreClosed
  <2>5. ASSUME NEW s \in chain, s \notin Lineage(end) PROVE FALSE
    <3> DEFINE Astray == {q \in chain : q \notin Lineage(end)}
    <3>1. PICK q \in Astray : \A p \in Astray : p <= q
      <4>1. Astray \subseteq 1..Len(snaps) /\ Astray # {}
        BY <2>2, <2>5
      <4> HIDE DEF Astray
      <4> QED BY <1>0, <4>1, Greatest
    <3>2. q # end
      BY <2>1, <2>2, <2>4
    <3>3. PICK c \in chain : snaps[c].parent = q
      BY <2>1, <3>2
    <3>4. c > q /\ q # 0
      BY <2>2, <2>3, <3>3
    <3>5. c \notin Astray
      BY <2>2, <3>1, <3>4
    <3>6. q \in Lineage(end)
      BY <2>1, <2>2, <2>4, <3>3, <3>4, <3>5
    <3> QED BY <3>6
  <2>6. ASSUME NEW s \in chain PROVE s > start
    <3>1. PICK q \in chain : \A p \in chain : q <= p
      BY <2>1, <2>2, Least
    <3>2. snaps[q].parent < q /\ snaps[q].parent \in Nat /\ q \in Nat
      BY <2>2, <2>3
    <3>3. snaps[q].parent = start
      <4>1. ~(q <= snaps[q].parent)
        BY <3>2
      <4>2. snaps[q].parent \notin chain
        BY <3>1, <4>1
      <4> QED BY <2>1, <4>2
    <3> QED BY <1>0, <2>2, <3>1, <3>2, <3>3
  <2>7. chain \cap Lineage(start) = {}
    BY <1>0, <2>2, <2>4, <2>6
  <2>8. Lineage(end) \subseteq chain \cup Lineage(start)
    <3> DEFINE S == chain \cup Lineage(start)
    <3>1. S \subseteq DOMAIN snaps
      BY <1>0, <2>2 DEF Lineage
    <3>2. end \in S
      BY <2>1
    <3>3. ASSUME NEW q \in S PROVE snaps[q].parent \in S \cup {0}
      BY <1>0, <2>1, <2>4
    <3> HIDE DEF S
    <3>4. Ancestors(snaps, end) \subseteq S
      BY <3>1, <3>2, <3>3, AncestorsAreLeast
    <3> QED BY <1>0, <3>4 DEF S
  <2>9. ASSUME NEW s \in chain PROVE start \in Lineage(s)
    <3> DEFINE S == chain \cap Lineage(s)
    <3>1. PICK q \in S : \A p \in S : q <= p
      <4>1. S \subseteq Nat /\ s \in S
        BY <2>2, <2>4
      <4> HIDE DEF S
      <4> QED BY <4>1, Least
    <3>2. q \in 1..Len(snaps) /\ s \in 1..Len(snaps)
      BY <2>2
    <3>3. snaps[q].parent \in chain \cup {start} /\ snaps[q].parent \in Lineage(s) \cup {0}
      BY <2>1, <2>4, <3>2
    <3>4. snaps[q].parent \in Nat /\ snaps[q].parent < q
      BY <2>3, <3>2
    <3>5. snaps[q].parent # 0
      BY <1>0, <2>2, <3>3
    <3>6. snaps[q].parent \notin chain
      BY <3>1, <3>2, <3>3, <3>4, <3>5
    <3> QED BY <3>3, <3>5, <3>6
  <2> QED BY <2>5, <2>7, <2>8, <2>9
<1> QED BY <1>1, <1>2

\* An idle reader holds no token.
LEMMA NoScanTells == ScanTells(None, {}, {})
BY DEF ScanTells, TokensTell, FullScanTells, IncrementalScanTells

\* The fields of a token.
LEMMA TokenFields ==
    ASSUME NEW kind, NEW s, NEW path, NEW fs
    PROVE  /\ Token(kind, s, path, fs).kind = kind /\ Token(kind, s, path, fs).snap = s
           /\ Token(kind, s, path, fs).path = path /\ Token(kind, s, path, fs).filters = fs
BY DEF Token

\* A new plan holds the tokens it should.
LEMMA PlanFullTells ==
    ASSUME TableInv, NEW s \in kept, NEW f \in Asked
    PROVE  ScanTells([start |-> None, end |-> s, filters |-> {f}], FullTokens(s, {f}), {})
<1> DEFINE r == [start |-> None, end |-> s, filters |-> {f}]
<1>1. r.start = None /\ r.end = s /\ r.filters = {f}
  OBVIOUS
<1> HIDE DEF r
<1>2. s \in DOMAIN snaps /\ {f} \subseteq Filters /\ format \in {"v1", "v2", "v4"}
  BY FilterAssumption DEF TableInv
<1>3. format = "v2" => FullTokens(s, {f}) = {Token("manifest-list", s, s, {f})}
  BY DEF FullTokens, ListTokens, V1Tokens
<1>4. format = "v1" => FullTokens(s, {f}) = {Token("manifest", s, m, {f}) : m \in snaps[s].manifests}
  BY DEF FullTokens, ListTokens, V1Tokens
<1>5. TokensTell(FullTokens(s, {f}))
  <2>1. CASE format = "v1"
    <3> SUFFICES ASSUME NEW m \in snaps[s].manifests
                 PROVE  LET t == Token("manifest", s, m, {f}) IN
                        t.kind = "manifest" /\ t.snap \in DOMAIN snaps /\ t.path \in snaps[t.snap].manifests
      BY <1>4, <2>1 DEF TokensTell
    <3> QED BY <1>2, TokenFields
  <2>2. CASE format = "v2"
    <3>1. LET t == Token("manifest-list", s, s, {f}) IN
          t.kind # "manifest" /\ t.snap = s /\ t.path = s
      BY TokenFields
    <3> QED BY <1>2, <1>3, <2>2, <3>1 DEF TokensTell
  <2> QED BY <1>2, <2>1, <2>2 DEF TokensTell, Typed
<1>6. FullScanTells(r, FullTokens(s, {f}), {})
  BY <1>1, <1>2, <1>3 DEF FullScanTells, Task
<1>7. IncrementalScanTells(r, FullTokens(s, {f}), {})
  BY <1>1 DEF IncrementalScanTells
<1> QED BY <1>5, <1>6, <1>7 DEF ScanTells, r

LEMMA PlanIncrementalTells ==
    ASSUME TableInv, Typed, NEW start \in 1..Len(snaps), NEW end \in kept, NEW f \in Asked,
           NEW chain \in Chains(start, end), \A s \in chain : snaps[s].op = "append"
    PROVE  ScanTells([start |-> start, end |-> end, filters |-> {f}],
                     UNION {IncrementalTokens(s, {f}) : s \in chain}, {})
<1> DEFINE r == [start |-> start, end |-> end, filters |-> {f}]
           todo == UNION {IncrementalTokens(s, {f}) : s \in chain}
<1>1. r.start = start /\ r.end = end /\ r.filters = {f}
  OBVIOUS
<1> HIDE DEF r
<1>2. start \in DOMAIN snaps /\ end \in DOMAIN snaps /\ {f} \subseteq Filters /\ format \in {"v1", "v2"}
  BY FilterAssumption, LineageIs DEF TableInv, Typed
<1>3. chain = Span(r) /\ \A s \in chain : start \in Lineage(s)
  BY <1>1, <1>2, ChainIsSpan DEF Span
<1>4. chain \subseteq DOMAIN snaps
  BY <1>3 DEF Span, Lineage
<1>5. ASSUME NEW s \in chain
      PROVE  /\ format = "v1" => IncrementalTokens(s, {f}) = {Token("manifest", s, m, {f}) : m \in snaps[s].manifests}
             /\ format = "v2" => IncrementalTokens(s, {f}) =
                   IF Own(s) # {} THEN {Token("incremental-manifest-list", s, s, {f})} ELSE {}
  <2>1. Own(s) # {} <=> \E m \in snaps[s].manifests : m.added = s
    BY DEF Own
  <2> QED BY <2>1 DEF IncrementalTokens, ListTokens, V1Tokens
<1>6. TokensTell(todo)
  <2> SUFFICES ASSUME NEW s \in chain, NEW t \in IncrementalTokens(s, {f})
               PROVE  /\ t.snap \in DOMAIN snaps
                      /\ IF t.kind = "manifest" THEN t.path \in snaps[t.snap].manifests
                         ELSE format = "v2" /\ t.path = t.snap
    BY DEF TokensTell
  <2>0. s \in DOMAIN snaps
    BY <1>4
  <2>1. CASE format = "v1"
    <3>1. PICK m \in snaps[s].manifests : t = Token("manifest", s, m, {f})
      BY <1>5, <2>1
    <3> QED BY <2>0, <3>1, TokenFields
  <2>2. CASE format = "v2"
    <3>1. t = Token("incremental-manifest-list", s, s, {f})
      BY <1>5, <2>2
    <3> QED BY <2>0, <2>2, <3>1, TokenFields
  <2> QED BY <1>2, <2>1, <2>2
<1>7. FullScanTells(r, todo, {})
  <2>1. start # None
    BY LineageIs, SentinelAssumption DEF TableInv
  <2> QED BY <1>1, <2>1 DEF FullScanTells
<1>8. IncrementalScanTells(r, todo, {})
  <2> SUFFICES ASSUME format = "v2" PROVE IncrementalScanTells(r, todo, {})
    BY DEF IncrementalScanTells
  <2>1. \A t \in todo : \E s \in Span(r) : t = Task("incremental-manifest-list", s, r)
    <3> SUFFICES ASSUME NEW s \in chain, NEW t \in IncrementalTokens(s, {f})
                 PROVE  t = Task("incremental-manifest-list", s, r)
      BY <1>3
    <3>1. t = Token("incremental-manifest-list", s, s, {f})
      BY <1>5
    <3> QED BY <1>1, <3>1 DEF Task
  <2>2. ASSUME NEW s \in Span(r), Task("incremental-manifest-list", s, r) \notin todo
        PROVE  FileTasks(Own(s), r.filters) \subseteq {}
    <3>1. Own(s) = {}
      BY <1>1, <1>3, <1>5, <2>2 DEF Task
    <3>2. Collected(Own(s), "data") = {}
      BY <3>1 DEF Collected
    <3> QED BY <3>2 DEF FileTasks
  <2> HIDE DEF todo
  <2> QED BY <1>1, <1>2, <1>3, <2>1, <2>2 DEF IncrementalScanTells
<1> QED BY <1>6, <1>7, <1>8 DEF ScanTells, r

\* fetch_scan_tasks on a token of the plan: what is left to do and what has
\* been read from manifest lists.
LEMMA FetchTells ==
    ASSUME TableInv, ScanTyped, NEW r, NEW todo, NEW got, ScanTells(r, todo, got), NEW t \in todo,
           NEW todo1, todo1 = (todo \ {t}) \cup Expansion(t).tasks,
           NEW got1, got1 = IF t.kind # "manifest" THEN got \cup Expansion(t).files ELSE got
    PROVE  ScanTells(r, todo1, got1)
<1> DEFINE tasks == Expansion(t).tasks
           files == Expansion(t).files
<1>1. CASE ~local
  <2>1. Expansion(t).tasks = {t}
    BY <1>1 DEF Expansion
  <2>2. todo1 = todo
    BY <2>1
  <2>3. TokensTell(todo1)
    BY <2>2 DEF ScanTells
  <2>4. FullScanTells(r, todo1, got1) /\ IncrementalScanTells(r, todo1, got1)
    BY <1>1 DEF FullScanTells, IncrementalScanTells
  <2> QED BY <2>3, <2>4 DEF ScanTells
<1>2. CASE local /\ t.kind = "manifest"
  <2>1. tasks = {} /\ todo1 = todo \ {t} /\ got1 = got
    <3>1. Expansion(t) = ManifestExpansion(t)
      BY <1>2 DEF Expansion
    <3> QED BY <1>2, <3>1 DEF ManifestExpansion
  <2>2. TokensTell(todo1)
    BY <2>1 DEF ScanTells, TokensTell
  <2>3. \A s : Task("manifest-list", s, r) # t /\ Task("incremental-manifest-list", s, r) # t
    BY <1>2, TokenFields DEF Task
  <2>4. FullScanTells(r, todo1, got1)
    BY <2>1, <2>3 DEF ScanTells, FullScanTells
  <2>5. IncrementalScanTells(r, todo1, got1)
    BY <2>1, <2>3 DEF ScanTells, IncrementalScanTells
  <2> QED BY <2>2, <2>4, <2>5 DEF ScanTells
<1>3. CASE local /\ t.kind # "manifest"
  <2>0. /\ tasks = {Token("manifest", t.snap, m, t.filters) : m \in Included(t)}
        /\ files = IF Typed THEN FileTasks(Included(t), t.filters) ELSE {}
        /\ got1 = got \cup files /\ todo1 = (todo \ {t}) \cup tasks
    <3>1. Expansion(t) = ListExpansion(t)
      BY <1>3 DEF Expansion
    <3> QED BY <1>3, <3>1 DEF ListExpansion
  <2> HIDE DEF tasks, files
  <2>1. \A x \in tasks : /\ x.kind = "manifest" /\ x.snap = t.snap
                          /\ \E m \in Included(t) : x.path = m
    BY <2>0, TokenFields
  <2>2. TokensTell(todo1)
    <3> SUFFICES ASSUME Typed, NEW x \in todo1
                 PROVE  /\ x.snap \in DOMAIN snaps
                        /\ IF x.kind = "manifest" THEN x.path \in snaps[x.snap].manifests
                           ELSE format = "v2" /\ x.path = x.snap
      BY DEF TokensTell
    <3>1. t.snap \in DOMAIN snaps
      BY DEF ScanTells, TokensTell
    <3>2. CASE x \in tasks
      BY <2>1, <3>1, <3>2 DEF Included
    <3>3. CASE x \in todo
      BY <3>3 DEF ScanTells, TokensTell
    <3> QED BY <2>0, <3>2, <3>3
  <2>3. FullScanTells(r, todo1, got1)
    <3> SUFFICES ASSUME r # None, r.start = None, format = "v2" PROVE FullScanTells(r, todo1, got1)
      BY DEF FullScanTells
    <3>1. /\ r.end \in DOMAIN snaps /\ r.filters \subseteq Filters
          /\ \A x \in todo : x.kind = "manifest" \/ x = Task("manifest-list", r.end, r)
          /\ got \subseteq FileTasks(snaps[r.end].manifests, r.filters)
      BY <1>3 DEF ScanTells, FullScanTells
    <3>2. t = Task("manifest-list", r.end, r)
      BY <1>3, <3>1
    <3>3. t.kind = "manifest-list" /\ t.snap = r.end /\ t.filters = r.filters
      BY <3>2, TokenFields DEF Task
    <3>4. Included(t) = snaps[r.end].manifests
      BY <3>3 DEF Included
    <3>5. files = FileTasks(snaps[r.end].manifests, r.filters)
      BY <2>0, <3>3, <3>4 DEF Typed
    <3>6. \A x \in todo1 : x.kind = "manifest" \/ x = Task("manifest-list", r.end, r)
      BY <2>0, <2>1, <3>1
    <3> QED BY <2>0, <3>1, <3>5, <3>6 DEF FullScanTells
  <2>4. IncrementalScanTells(r, todo1, got1)
    <3> SUFFICES ASSUME r # None, r.start # None, format = "v2" PROVE IncrementalScanTells(r, todo1, got1)
      BY DEF IncrementalScanTells
    <3>1. /\ r.start \in DOMAIN snaps /\ r.end \in DOMAIN snaps /\ r.filters \subseteq Filters
          /\ \A s \in Span(r) : snaps[s].op = "append" /\ r.start \in Lineage(s)
          /\ \A x \in todo :
                x.kind = "manifest" \/ \E s \in Span(r) : x = Task("incremental-manifest-list", s, r)
          /\ \A s \in Span(r) :
                \/ Task("incremental-manifest-list", s, r) \in todo
                \/ FileTasks(Own(s), r.filters) \subseteq got
          /\ \A x \in got : \E s \in Span(r) : x \in FileTasks(Own(s), r.filters)
      BY <1>3 DEF ScanTells, IncrementalScanTells
    <3>2. PICK s \in Span(r) : t = Task("incremental-manifest-list", s, r)
      BY <1>3, <3>1
    <3>3. t.kind = "incremental-manifest-list" /\ t.snap = s /\ t.filters = r.filters
      BY <3>2, TokenFields DEF Task
    <3>4. Included(t) = Own(s)
      BY <3>3 DEF Included, Own
    <3>5. files = FileTasks(Own(s), r.filters)
      BY <2>0, <3>3, <3>4 DEF Typed
    <3>6. \A x \in todo1 :
             x.kind = "manifest" \/ \E q \in Span(r) : x = Task("incremental-manifest-list", q, r)
      BY <2>0, <2>1, <3>1
    <3>7. \A q \in Span(r) :
             \/ Task("incremental-manifest-list", q, r) \in todo1
             \/ FileTasks(Own(q), r.filters) \subseteq got1
      <4> SUFFICES ASSUME NEW q \in Span(r), Task("incremental-manifest-list", q, r) \notin todo1
                   PROVE  FileTasks(Own(q), r.filters) \subseteq got1
        OBVIOUS
      <4>1. CASE Task("incremental-manifest-list", q, r) = t
        <5>1. q = s
          BY <3>3, <4>1, TokenFields DEF Task
        <5> QED BY <2>0, <3>5, <5>1
      <4>2. CASE Task("incremental-manifest-list", q, r) # t
        BY <2>0, <3>1, <4>2
      <4> QED BY <4>1, <4>2
    <3>8. \A x \in got1 : \E q \in Span(r) : x \in FileTasks(Own(q), r.filters)
      BY <2>0, <3>1, <3>5
    <3> QED BY <3>1, <3>6, <3>7, <3>8 DEF IncrementalScanTells
  <2> QED BY <2>2, <2>3, <2>4 DEF ScanTells
<1> QED BY <1>1, <1>2, <1>3 DEF ScanTyped

\* What a step leaves of the scan.
ScanAfter ==
    /\ scan' = [request |-> scan'.request, todo |-> scan'.todo,
                read |-> [fromList \in BOOLEAN |-> scan'.read[fromList]]]
    /\ ScanTells(scan'.request, scan'.todo, scan'.read[TRUE])

\* The fields of the reader's state.
LEMMA ScanFields ==
    ASSUME NEW x, NEW r, NEW todo, NEW read, x = [request |-> r, todo |-> todo, read |-> read]
    PROVE  x.request = r /\ x.todo = todo /\ x.read = read
OBVIOUS

\* What each step of the reader leaves.
LEMMA NoScanAfter ==
    ASSUME scan' = NoScan PROVE ScanAfter
<1>1. scan'.request = None /\ scan'.todo = {} /\ scan'.read = Unread
  BY DEF NoScan, Unread
<1>2. scan'.read[TRUE] = {} /\ scan'.read = [fromList \in BOOLEAN |-> scan'.read[fromList]]
  BY <1>1 DEF Unread
<1>3. ScanTells(scan'.request, scan'.todo, scan'.read[TRUE])
  BY <1>1, <1>2, NoScanTells
<1>4. scan' = [request |-> scan'.request, todo |-> scan'.todo,
               read |-> [fromList \in BOOLEAN |-> scan'.read[fromList]]]
  BY <1>1, <1>2 DEF NoScan, Unread
<1> QED BY <1>3, <1>4 DEF ScanAfter

LEMMA PlannedAfter ==
    ASSUME NEW r, NEW todo, scan' = [request |-> r, todo |-> todo, read |-> Unread], ScanTells(r, todo, {})
    PROVE  ScanAfter
<1>2. scan'.request = r /\ scan'.todo = todo /\ scan'.read = Unread
  BY ScanFields
<1>3. scan'.read[TRUE] = {} /\ scan'.read = [fromList \in BOOLEAN |-> scan'.read[fromList]]
  BY <1>2 DEF Unread
<1>4. ScanTells(scan'.request, scan'.todo, scan'.read[TRUE])
  BY <1>2, <1>3
<1>5. scan' = [request |-> scan'.request, todo |-> scan'.todo,
               read |-> [fromList \in BOOLEAN |-> scan'.read[fromList]]]
  BY <1>2, <1>3
<1> QED BY <1>4, <1>5 DEF ScanAfter

LEMMA FetchedAfter ==
    ASSUME IInv, NEW t \in scan.todo, NEW b \in BOOLEAN, b = FromList(t), NEW todo1, NEW read1,
           todo1 = (scan.todo \ {t}) \cup Expansion(t).tasks,
           read1 = [fromList \in BOOLEAN |->
                      IF fromList = b THEN scan.read[b] \cup Expansion(t).files ELSE scan.read[fromList]],
           scan' = [request |-> scan.request, todo |-> todo1, read |-> read1]
    PROVE  ScanAfter
<1>1. scan'.request = scan.request /\ scan'.todo = todo1 /\ scan'.read = read1
  BY ScanFields
<1>2. read1 = [fromList \in BOOLEAN |-> read1[fromList]]
  OBVIOUS
<1>3. read1[TRUE] = IF t.kind # "manifest" THEN scan.read[TRUE] \cup Expansion(t).files ELSE scan.read[TRUE]
  <2>1. CASE t.kind # "manifest"
    <3>1. b = TRUE
      BY <2>1 DEF FromList
    <3> QED BY <2>1, <3>1
  <2>2. CASE t.kind = "manifest"
    <3>1. b = FALSE
      BY <2>2 DEF FromList
    <3> QED BY <2>2, <3>1
  <2> QED BY <2>1, <2>2
<1>4. ScanTells(scan.request, todo1, read1[TRUE])
  <2>1. TableInv /\ ScanTyped /\ ScanTells(scan.request, scan.todo, scan.read[TRUE])
    BY DEF IInv
  <2>2. PICK r, todo, got, got1 :
           r = scan.request /\ todo = scan.todo /\ got = scan.read[TRUE] /\ got1 = read1[TRUE]
    OBVIOUS
  <2>3. /\ ScanTells(r, todo, got) /\ t \in todo /\ todo1 = (todo \ {t}) \cup Expansion(t).tasks
        /\ got1 = IF t.kind # "manifest" THEN got \cup Expansion(t).files ELSE got
    BY <1>3, <2>1, <2>2
  <2>4. ScanTells(r, todo1, got1)
    BY <2>1, <2>3, FetchTells
  <2> QED BY <2>2, <2>4
<1> QED BY <1>1, <1>2, <1>4 DEF ScanAfter

\* The invariant holds at first and is kept.
LEMMA InitIsSound == Init => IInv
<1> SUFFICES ASSUME Init PROVE IInv
  OBVIOUS
<1>0. snaps = <<>> /\ DOMAIN snaps = {} /\ Len(snaps) = 0
  BY DEF Init
<1>1. HistoryTyped
  BY <1>0, BoundsAssumption DEF HistoryTyped
<1>2. FilesAreAdded /\ ManifestsTell /\ AddedManifests
  BY <1>0 DEF FilesAreAdded, ManifestsTell, AddedManifests
<1>3. TableInv
  BY <1>0, <1>1, <1>2 DEF Init, TableInv
<1>4. scan.request = None /\ scan.todo = {} /\ scan.read = Unread
  BY DEF Init, NoScan, Unread
<1>5. scan.read[TRUE] = {} /\ scan.read = [fromList \in BOOLEAN |-> scan.read[fromList]]
  BY <1>4 DEF Unread
<1>6. ScanTyped
  BY <1>4, <1>5 DEF Init, NoScan, ScanTyped
<1>7. ScanTells(scan.request, scan.todo, scan.read[TRUE])
  BY <1>4, <1>5, NoScanTells
<1> QED BY <1>3, <1>6, <1>7 DEF IInv

LEMMA StepIsSound == IInv /\ [Next]_vars => IInv'
<1> SUFFICES ASSUME IInv, [Next]_vars PROVE IInv'
  OBVIOUS
<1>1. TableInv' /\ local' = local /\ format' = format
  BY TableStep DEF IInv
<1>2. ScanAfter
  <2>1. CASE scan' = scan
    <3>1. ScanTells(scan'.request, scan'.todo, scan'.read[TRUE])
      BY <2>1 DEF IInv
    <3> QED BY <2>1, <3>1 DEF IInv, ScanTyped, ScanAfter
  <2>2. CASE PlanFull
    <3>1. PICK s \in kept, f \in Asked :
             scan' = [request |-> [start |-> None, end |-> s, filters |-> {f}],
                      todo    |-> FullTokens(s, {f}),
                      read    |-> Unread]
      BY <2>2 DEF PlanFull
    <3>2. ScanTells([start |-> None, end |-> s, filters |-> {f}], FullTokens(s, {f}), {})
      BY PlanFullTells DEF IInv
    <3> QED BY <3>1, <3>2, PlannedAfter
  <2>3. CASE PlanIncremental
    <3>1. PICK start \in 1..Len(snaps), end \in kept, f \in Asked :
             \E chain \in Chains(start, end) :
                /\ \A s \in chain : snaps[s].op = "append"
                /\ scan' = [request |-> [start |-> start, end |-> end, filters |-> {f}],
                            todo    |-> UNION {IncrementalTokens(s, {f}) : s \in chain},
                            read    |-> Unread]
      BY <2>3 DEF PlanIncremental
    <3>2. PICK chain \in Chains(start, end) :
                /\ \A s \in chain : snaps[s].op = "append"
                /\ scan' = [request |-> [start |-> start, end |-> end, filters |-> {f}],
                            todo    |-> UNION {IncrementalTokens(s, {f}) : s \in chain},
                            read    |-> Unread]
      BY <3>1
    <3>3. ScanTells([start |-> start, end |-> end, filters |-> {f}],
                    UNION {IncrementalTokens(s, {f}) : s \in chain}, {})
      BY <2>3, <3>2, PlanIncrementalTells DEF IInv, PlanIncremental
    <3> QED BY <3>2, <3>3, PlannedAfter
  <2>4. CASE FetchTask
    <3>1. PICK t \in scan.todo :
             IF TokenValid(t)
             THEN scan' = [request |-> scan.request,
                           todo    |-> (scan.todo \ {t}) \cup Expansion(t).tasks,
                           read    |-> [scan.read EXCEPT ![FromList(t)] = @ \cup Expansion(t).files]]
             ELSE scan' = NoScan
      BY <2>4 DEF FetchTask
    <3>2. CASE TokenValid(t)
      <4>1. PICK b \in BOOLEAN : b = FromList(t)
        BY DEF FromList
      <4>2. PICK todo1, read1 :
               /\ todo1 = (scan.todo \ {t}) \cup Expansion(t).tasks
               /\ read1 = [fromList \in BOOLEAN |->
                             IF fromList = b THEN scan.read[b] \cup Expansion(t).files ELSE scan.read[fromList]]
        OBVIOUS
      <4>3. scan.read = [fromList \in BOOLEAN |-> scan.read[fromList]]
        BY DEF IInv, ScanTyped
      <4>4. [scan.read EXCEPT ![FromList(t)] = @ \cup Expansion(t).files] = read1
        BY <4>1, <4>2, <4>3
      <4>5. scan' = [request |-> scan.request, todo |-> todo1, read |-> read1]
        BY <3>1, <3>2, <4>2, <4>4
      <4> QED BY <4>1, <4>2, <4>5, FetchedAfter
    <3>3. CASE ~TokenValid(t)
      BY <3>1, <3>3, NoScanAfter
    <3> QED BY <3>2, <3>3
  <2>5. CASE EndScan
    BY <2>5, NoScanAfter DEF EndScan
  <2>6. CASE AppendFile \/ MergeAppend \/ RemoveFile \/ DeleteRows \/ Rollback \/ ExpireSnapshot
    <3>1. scan' = scan
      BY <2>6 DEF AppendFile, MergeAppend, RemoveFile, DeleteRows, Rollback, ExpireSnapshot, Snapshot
    <3> QED BY <2>1, <3>1
  <2>7. CASE UNCHANGED vars
    BY <2>1, <2>7 DEF vars
  <2> QED BY <2>2, <2>3, <2>4, <2>5, <2>6, <2>7 DEF Next
<1>3. ScanTyped'
  BY <1>1, <1>2 DEF ScanAfter, ScanTyped, IInv
<1>4. ScanTells(scan.request, scan.todo, scan.read[TRUE])'
  <2>1. PICK r, todo, got : r = scan'.request /\ todo = scan'.todo /\ got = scan'.read[TRUE]
    OBVIOUS
  <2>2. ScanTells(r, todo, got)
    BY <1>2, <2>1 DEF ScanAfter
  <2>3. ScanTells(r, todo, got)'
    BY <2>2, ScanStaysTold DEF IInv
  <2> QED BY <2>1, <2>3
<1> QED BY <1>1, <1>3, <1>4 DEF IInv

\* What the manifests of every snapshot hold and what the tokens of the reader
\* stand for, at every moment.
THEOREM ScanInvariant == Spec => []IInv
BY InitIsSound, StepIsSound, PTL DEF Spec

-----------------------------------------------------------------------------
(* What the invariant says about a reader.                                    *)

\* The files of a table are as LayoutAssumption has them.
LEMMA ContentIsData ==
    ASSUME TableInv, NEW f \in Files
    PROVE  DataFile(content[f])
BY LayoutAssumption DEF TableInv, DataFile

\* A file with a row that the filters want is not pruned.
LEMMA WantedIsKept ==
    ASSUME TableInv, NEW f \in Files, NEW fs, fs \subseteq Filters,
           content[f].counts, HasMatchingRow(content[f], fs)
    PROVE  MayMatchAll(content[f], fs)
<1>1. PICK row \in content[f].rows : \A g \in fs : Meaning(row, g) = "true"
  BY DEF HasMatchingRow
<1>2. ASSUME NEW g \in fs PROVE MayMatch(content[f], g)
  BY <1>1, <1>2, ContentIsData, PruningTheorem
<1> QED BY <1>2 DEF MayMatchAll

\* data_file_may_match_filter keeps every file with a row the filter wants.
THEOREM PruningIsSoundAlways == Spec => []PruningIsSound
<1>1. IInv => PruningIsSound
  <2> SUFFICES ASSUME TableInv, NEW f \in Files, NEW p \in Filters,
                      content[f].counts, HasMatchingRow(content[f], {p})
               PROVE  MayMatch(content[f], p)
    BY DEF PruningIsSound, IInv
  <2>1. MayMatchAll(content[f], {p})
    BY WantedIsKept
  <2> QED BY <2>1 DEF MayMatchAll
<1> QED BY <1>1, ScanInvariant, PTL

\* A token stays valid for as long as its snapshot is in the metadata.
THEOREM TokensStayValidAlways == Spec => []TokensStayValid
<1>1. IInv => TokensStayValid
  BY DEF IInv, ScanTells, TokensTell, TokensStayValid, TokenValid, Typed
<1> QED BY <1>1, ScanInvariant, PTL

\* A file has one snapshot that added it.
LEMMA AdderIs ==
    ASSUME TableInv, NEW s \in DOMAIN snaps, NEW f \in Files, Adds(s, f)
    PROVE  AddedBy(f) = s /\ f \in Written
<1>1. f \in Written /\ \A p \in DOMAIN snaps : Adds(p, f) => p = s
  BY DEF TableInv, FilesAreAdded
<1>2. AddedBy(f) = CHOOSE p \in DOMAIN snaps : Adds(p, f)
  BY Zenon DEF AddedBy, Adds
<1>3. AddedBy(f) = s
  BY <1>1, <1>2
<1> QED BY <1>1, <1>3

\* A file that occurs in a manifest was added by some snapshot.
LEMMA WrittenIsAdded ==
    ASSUME TableInv, NEW f \in Files, f \in Written
    PROVE  \E s \in DOMAIN snaps : Adds(s, f)
<1>1. PICK s \in DOMAIN snaps : \E m \in snaps[s].manifests : \E e \in m.entries : e.file = f
  BY DEF Written
<1>2. PICK m \in snaps[s].manifests : \E e \in m.entries : e.file = f
  BY <1>1
<1>3. PICK e \in m.entries : e.file = f
  BY <1>2
<1>4. IF m.content = "data" THEN \E p \in DOMAIN snaps : Adds(p, e.file) ELSE e.file \notin Files
  BY DEF TableInv, FilesAreAdded
<1> QED BY <1>3, <1>4

\* The live entries are those of the snapshot's files.
LEMMA FilesAreLive ==
    ASSUME TableInv, NEW s \in DOMAIN snaps
    PROVE  /\ \A d \in LiveData(Lineage(s)) :
                 d.file \in FilesOf(s) /\ d.file \in Files /\ AddedBy(d.file) = d.seq
                 /\ d.seq \in Lineage(s)
           /\ \A f \in FilesOf(s) : f \in Files /\ DataEntry(f, AddedBy(f)) \in LiveData(Lineage(s))
<1>0. Lineage(s) \subseteq DOMAIN snaps
  BY DEF Lineage
<1>1. ASSUME NEW d \in LiveData(Lineage(s))
      PROVE  /\ d.file \in FilesOf(s) /\ d.file \in Files /\ AddedBy(d.file) = d.seq
             /\ d.seq \in Lineage(s)
  <2>1. /\ d.file \in Files /\ d.seq \in Lineage(s) /\ Adds(d.seq, d.file)
        /\ \A q \in Lineage(s) : snaps[q].did # <<"remove", d.file>>
    BY DEF LiveData
  <2>2. AddedBy(d.file) = d.seq /\ d.file \in Written
    BY <1>0, <2>1, AdderIs
  <2> QED BY <2>1, <2>2 DEF FilesOf
<1>2. ASSUME NEW f \in FilesOf(s) PROVE f \in Files /\ DataEntry(f, AddedBy(f)) \in LiveData(Lineage(s))
  <2>1. /\ f \in Files /\ f \in Written /\ AddedBy(f) \in Lineage(s)
        /\ \A q \in Lineage(s) : snaps[q].did # <<"remove", f>>
    BY DEF FilesOf
  <2>2. Adds(AddedBy(f), f)
    BY <2>1, WrittenIsAdded, AdderIs
  <2> QED BY <2>1, <2>2 DEF LiveData, DataEntry
<1> QED BY <1>1, <1>2

\* Sail's index gives a file the deletes that came after it.
LEMMA DeletesAreThose ==
    ASSUME TableInv, NEW s \in DOMAIN snaps, NEW d \in LiveData(Lineage(s))
    PROVE  {x.file : x \in {y \in LiveDeletes(Lineage(s)) : Applies(y, d)}} = DeletesOf(d.file, s)
<1>0. Lineage(s) \subseteq DOMAIN snaps /\ DOMAIN snaps = 1..Len(snaps) /\ Len(snaps) \in Nat
  BY LineageIs DEF Lineage, TableInv
<1>1. /\ d.file \in Files /\ d.file # None /\ AddedBy(d.file) = d.seq /\ d.seq \in Lineage(s)
  BY FilesAreLive, SentinelAssumption
<1>2. \A p \in Lineage(s) : snaps[p].did = <<"rows", d.file>> => p > d.seq
  <2> SUFFICES ASSUME NEW p \in Lineage(s), snaps[p].did = <<"rows", d.file>> PROVE p > d.seq
    OBVIOUS
  <2>1. PICK q \in 1..(p - 1) : Adds(q, d.file)
    BY <1>0, <1>1 DEF TableInv, FilesAreAdded
  <2>2. q \in DOMAIN snaps
    BY <1>0, <2>1
  <2>3. q = d.seq
    BY <1>1, <2>1, <2>2, AdderIs
  <2> QED BY <1>0, <2>1, <2>3
<1>3. ASSUME NEW x \in LiveDeletes(Lineage(s)), Applies(x, d) PROVE x.file \in DeletesOf(d.file, s)
  <2>1. /\ x.seq \in Lineage(s) /\ x.file = <<"deletes", x.seq>> /\ snaps[x.seq].did = <<"rows", x.target>>
    BY DEF LiveDeletes
  <2>2. (x.target = None /\ x.seq > d.seq) \/ x.target = d.file
    BY <1>3 DEF Applies
  <2> QED BY <1>1, <2>1, <2>2 DEF DeletesOf
<1>4. ASSUME NEW z \in DeletesOf(d.file, s)
      PROVE  \E x \in LiveDeletes(Lineage(s)) : Applies(x, d) /\ z = x.file
  <2>1. PICK p \in Lineage(s) :
           /\ z = <<"deletes", p>>
           /\ snaps[p].did = <<"rows", d.file>> \/ (snaps[p].did = <<"rows", None>> /\ p > AddedBy(d.file))
    BY DEF DeletesOf
  <2>2. PICK target \in Files \cup {None} :
           /\ snaps[p].did = <<"rows", target>> /\ p > d.seq
           /\ target = d.file \/ target = None
    BY <1>1, <1>2, <2>1
  <2>3. DeleteEntry(target, p) \in LiveDeletes(Lineage(s))
    BY <2>1, <2>2 DEF LiveDeletes, DeleteEntry
  <2>4. Applies(DeleteEntry(target, p), d) /\ DeleteEntry(target, p).file = z
    BY <1>0, <1>1, <2>1, <2>2 DEF Applies, DeleteEntry
  <2> QED BY <2>3, <2>4
<1> QED BY <1>3, <1>4

\* A file task is a live data file that is not pruned, with its deletes.
LEMMA InFileTasks ==
    ASSUME NEW ms, NEW fs, NEW x
    PROVE  x \in FileTasks(ms, fs) <=>
              \E d \in Collected(ms, "data") :
                 /\ MayMatchAll(content[d.file], fs)
                 /\ x = [file |-> d.file,
                         deletes |-> {y.file : y \in {y \in Collected(ms, "deletes") : Applies(y, d)}}]
BY DEF FileTasks

\* A live file that is not pruned has a task.
LEMMA KeptFileHasTask ==
    ASSUME NEW ms, NEW fs, NEW d \in Collected(ms, "data"), MayMatchAll(content[d.file], fs)
    PROVE  \E x \in FileTasks(ms, fs) : x.file = d.file
<1>1. PICK x : x = [file |-> d.file,
                    deletes |-> {y.file : y \in {y \in Collected(ms, "deletes") : Applies(y, d)}}]
  OBVIOUS
<1>2. x \in FileTasks(ms, fs)
  BY <1>1, InFileTasks
<1>3. x.file = d.file
  BY <1>1
<1> QED BY <1>2, <1>3

\* The token of a list is not the token of a manifest.
LEMMA TaskKinds ==
    ASSUME NEW kind, kind # "manifest", NEW s, NEW r
    PROVE  Task(kind, s, r).kind # "manifest"
BY TokenFields DEF Task

\* Whatever happened since the plan, an expanded manifest list gives the files
\* of the planned snapshot that the filters want, each with its deletes.
THEOREM SnapshotScanIsCompleteAlways == Spec => []SnapshotScanIsComplete
<1>1. IInv => SnapshotScanIsComplete
  <2> SUFFICES ASSUME IInv, Listed, scan.request.start = None
               PROVE  LET s == scan.request.end IN
                      /\ Read \subseteq FilesOf(s)
                      /\ Wanted(scan.request.filters, FilesOf(s)) \subseteq Read
                      /\ \A r \in scan.read[TRUE] : r.deletes = DeletesOf(r.file, s)
    BY DEF SnapshotScanIsComplete
  <2>0. TableInv
    BY DEF IInv
  <2>1. PICK r, s, fs, got : r = scan.request /\ s = r.end /\ fs = r.filters /\ got = scan.read[TRUE]
    OBVIOUS
  <2>2. /\ s \in DOMAIN snaps /\ fs \subseteq Filters
        /\ got = FileTasks(snaps[s].manifests, fs)
    <3>1. FullScanTells(r, scan.todo, got)
      BY <2>1 DEF IInv, ScanTells
    <3>2. Task("manifest-list", s, r) \notin scan.todo
      BY TaskKinds DEF Listed
    <3>3. r # None /\ r.start = None /\ format = "v2" /\ local
      BY <2>1 DEF Listed
    <3> QED BY <2>1, <3>1, <3>2, <3>3 DEF FullScanTells
  <2>3. /\ Collected(snaps[s].manifests, "data") = LiveData(Lineage(s))
        /\ Collected(snaps[s].manifests, "deletes") = LiveDeletes(Lineage(s))
    BY <2>0, <2>2 DEF TableInv, ManifestsTell
  <2>4. ASSUME NEW x \in got PROVE x.file \in FilesOf(s) /\ x.deletes = DeletesOf(x.file, s)
    <3>1. PICK d \in LiveData(Lineage(s)) :
             x = [file |-> d.file,
                  deletes |-> {y.file : y \in {y \in LiveDeletes(Lineage(s)) : Applies(y, d)}}]
      BY <2>2, <2>3, <2>4, InFileTasks
    <3>2. x = [file |-> d.file, deletes |-> DeletesOf(d.file, s)]
      BY <2>0, <2>2, <3>1, DeletesAreThose
    <3> QED BY <2>0, <2>2, <3>2, FilesAreLive
  <2>5. ASSUME NEW f \in Wanted(fs, FilesOf(s)) PROVE f \in Read
    <3>1. f \in FilesOf(s) /\ HasMatchingRow(content[f], fs) /\ content[f].counts
      BY DEF Wanted
    <3>2. f \in Files /\ DataEntry(f, AddedBy(f)) \in LiveData(Lineage(s))
      BY <2>0, <2>2, <3>1, FilesAreLive
    <3>3. MayMatchAll(content[f], fs)
      BY <2>0, <2>2, <3>1, <3>2, WantedIsKept
    <3>4. DataEntry(f, AddedBy(f)).file = f
      BY DEF DataEntry
    <3>5. \E x \in got : x.file = f
      BY <2>2, <2>3, <3>2, <3>3, <3>4, KeptFileHasTask
    <3> QED BY <2>1, <3>5 DEF Read
  <2>6. Read \subseteq FilesOf(s)
    BY <2>1, <2>4 DEF Read
  <2> QED BY <2>1, <2>4, <2>5, <2>6
<1> QED BY <1>1, ScanInvariant, PTL

\* A file of an appended snapshot is not removed up to the end of the scan.
LEMMA SpanFiles ==
    ASSUME TableInv, NEW r, r.start \in DOMAIN snaps, r.end \in DOMAIN snaps,
           \A s \in Span(r) : snaps[s].op = "append" /\ r.start \in Lineage(s),
           NEW p \in Span(r), NEW d \in LiveData(Lineage(p))
    PROVE  d.file \in FilesOf(r.end)
<1>0. /\ Ordered(snaps, Len(snaps)) /\ DOMAIN snaps = 1..Len(snaps)
      /\ Lineage(r.end) = Ancestors(snaps, r.end) /\ Lineage(p) = Ancestors(snaps, p)
      /\ Lineage(r.start) = Ancestors(snaps, r.start)
  BY LineageIs DEF TableInv
<1>1. p \in Lineage(r.end) /\ p \in DOMAIN snaps
  BY DEF Span, Lineage
<1>2. Lineage(p) \subseteq Lineage(r.end)
  BY <1>0, <1>1, AncestorsOfAncestors
<1>3. Lineage(r.start) \subseteq Lineage(p)
  BY <1>0, <1>1, AncestorsOfAncestors
<1>4. /\ d.file \in FilesOf(p) /\ d.file \in Files /\ AddedBy(d.file) = d.seq /\ d.seq \in Lineage(p)
      /\ \A q \in Lineage(p) : snaps[q].did # <<"remove", d.file>>
  BY <1>1, FilesAreLive DEF LiveData
<1>5. ASSUME NEW q \in Lineage(r.end) PROVE snaps[q].did # <<"remove", d.file>>
  <2>1. CASE q \in Span(r)
    <3>1. q \in DOMAIN snaps /\ snaps[q].did[1] \in {"add", "merge"}
      BY <2>1 DEF Lineage, TableInv, HistoryTyped
    <3> QED BY <3>1
  <2>2. CASE q \notin Span(r)
    BY <1>3, <1>4, <2>2 DEF Span
  <2> QED BY <2>1, <2>2
<1>6. d.file \in Written
  BY <1>4 DEF FilesOf
<1> QED BY <1>2, <1>4, <1>5, <1>6 DEF FilesOf

\* What the manifests a snapshot added hold.
LEMMA OwnManifests ==
    ASSUME TableInv, NEW s \in DOMAIN snaps, NEW f \in Files, Adds(s, f)
    PROVE  /\ DataEntry(f, s) \in Collected(Own(s), "data")
           /\ snaps[s].did[1] = "add" => \A d \in Collected(Own(s), "data") : d.file = f
<1>1. AddedManifests
  BY DEF TableInv
<1>2. DataEntry(f, s) = [file |-> f, target |-> None, seq |-> s]
  BY DEF DataEntry
<1>3. Own(s) = {m \in snaps[s].manifests : m.added = s}
  BY DEF Own
<1>4. /\ [file |-> f, target |-> None, seq |-> s] \in Collected({m \in snaps[s].manifests : m.added = s}, "data")
      /\ snaps[s].did[1] = "add" =>
            \A d \in Collected({m \in snaps[s].manifests : m.added = s}, "data") : d.file = f
  BY <1>1, Zenon DEF AddedManifests
<1> QED BY <1>2, <1>3, <1>4, Zenon

\* An incremental scan gives the files appended in between that the filters
\* want, and only files of the end; without merges, no others.
THEOREM IncrementalScanIsCompleteAlways == Spec => []IncrementalScanIsComplete
<1>1. IInv => IncrementalScanIsComplete
  <2> DEFINE Added(r) == {f \in Written \cap Files : AddedBy(f) \in Span(r)}
  <2> SUFFICES ASSUME IInv, Listed, scan.request.start # None
               PROVE  /\ Wanted(scan.request.filters, Added(scan.request)) \subseteq Read
                      /\ Read \subseteq FilesOf(scan.request.end)
                      /\ (\A p \in Span(scan.request) : snaps[p].did[1] # "merge")
                            => Read \subseteq Added(scan.request)
    BY DEF IncrementalScanIsComplete, Span
  <2>0. TableInv
    BY DEF IInv
  <2>1. PICK r, fs, got : r = scan.request /\ fs = r.filters /\ got = scan.read[TRUE]
    OBVIOUS
  <2>2. /\ r.start \in DOMAIN snaps /\ r.end \in DOMAIN snaps /\ fs \subseteq Filters
        /\ \A s \in Span(r) : snaps[s].op = "append" /\ r.start \in Lineage(s)
        /\ \A s \in Span(r) : FileTasks(Own(s), fs) \subseteq got
        /\ \A x \in got : \E s \in Span(r) : x \in FileTasks(Own(s), fs)
    <3>1. IncrementalScanTells(r, scan.todo, got)
      BY <2>1 DEF IInv, ScanTells
    <3>2. \A s : Task("incremental-manifest-list", s, r) \notin scan.todo
      BY TaskKinds DEF Listed
    <3>3. r # None /\ r.start # None /\ format = "v2" /\ local
      BY <2>1 DEF Listed
    <3> QED BY <2>1, <3>1, <3>2, <3>3 DEF IncrementalScanTells
  <2>3. Span(r) \subseteq DOMAIN snaps
    BY DEF Span, Lineage
  <2>4. ASSUME NEW f \in Wanted(fs, Added(r)) PROVE f \in Read
    <3>1. /\ f \in Written /\ f \in Files /\ AddedBy(f) \in Span(r)
          /\ HasMatchingRow(content[f], fs) /\ content[f].counts
      BY DEF Wanted
    <3>2. Adds(AddedBy(f), f)
      BY <2>0, <3>1, WrittenIsAdded, AdderIs
    <3>3. DataEntry(f, AddedBy(f)) \in Collected(Own(AddedBy(f)), "data")
      BY <2>0, <2>3, <3>1, <3>2, OwnManifests
    <3>4. MayMatchAll(content[f], fs)
      BY <2>0, <2>2, <3>1, WantedIsKept
    <3>5. DataEntry(f, AddedBy(f)).file = f
      BY DEF DataEntry
    <3>6. \E x \in FileTasks(Own(AddedBy(f)), fs) : x.file = f
      BY <3>3, <3>4, <3>5, KeptFileHasTask
    <3> QED BY <2>1, <2>2, <3>1, <3>6 DEF Read
  <2>5. ASSUME NEW x \in got
        PROVE  /\ x.file \in FilesOf(r.end)
               /\ (\A p \in Span(r) : snaps[p].did[1] # "merge") => x.file \in Added(r)
    <3>1. PICK p \in Span(r) : x \in FileTasks(Own(p), fs)
      BY <2>2
    <3>2. PICK d \in Collected(Own(p), "data") : x.file = d.file
      BY <3>1, InFileTasks
    <3>3. d \in Collected(snaps[p].manifests, "data")
      BY <3>2, InCollected DEF Own
    <3>4. d \in LiveData(Lineage(p))
      BY <2>0, <2>3, <3>1, <3>3 DEF TableInv, ManifestsTell
    <3>5. x.file \in FilesOf(r.end)
      BY <2>0, <2>2, <3>1, <3>2, <3>4, SpanFiles
    <3>6. ASSUME \A q \in Span(r) : snaps[q].did[1] # "merge" PROVE x.file \in Added(r)
      <4>1. snaps[p].did \in Deeds /\ snaps[p].did[1] = "add"
        BY <2>0, <2>2, <2>3, <3>1, <3>6 DEF TableInv, HistoryTyped
      <4>2. PICK f \in Files : snaps[p].did = <<"add", f>>
        BY <4>1 DEF Deeds
      <4>3. Adds(p, f)
        BY <4>2 DEF Adds
      <4>4. \A e \in Collected(Own(p), "data") : e.file = f
        BY <2>0, <2>3, <3>1, <4>1, <4>3, OwnManifests
      <4>5. AddedBy(f) = p /\ f \in Written
        BY <2>0, <2>3, <3>1, <4>3, AdderIs
      <4> QED BY <3>2, <4>4, <4>5
    <3> QED BY <3>5, <3>6
  <2> HIDE DEF Added
  <2> QED BY <2>1, <2>4, <2>5 DEF Read
<1> QED BY <1>1, ScanInvariant, PTL
=============================================================================
