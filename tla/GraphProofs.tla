---------------------------- MODULE GraphProofs ----------------------------
(***************************************************************************)
(* Proofs about SemanticGraph, for programs of any rows, objects, costs    *)
(* and bounds.                                                             *)
(*                                                                         *)
(* Conflicts are ordered: GraphInv says what build_ses remembers of the    *)
(* rows so far, and that each row has edges from what was remembered when  *)
(* it was added; rows that conflict are then ordered by induction over the *)
(* rows between them.                                                      *)
(*                                                                         *)
(* Measures are exact: every recursion of the analysis is shown to have a  *)
(* solution, which is then what the property says of it. The width is the  *)
(* size of the largest antichain by the two halves of Dilworth's theorem:  *)
(* a matching bounds every antichain, and what Kuhn's search has seen      *)
(* where it ends is an antichain as large as that bound.                   *)
(*                                                                         *)
(* Schedules are sound: a pass over the rows keeps what has been taken     *)
(* sensible - after what it waits for, one at a time on a target - and     *)
(* takes at least one more of the rows that are left; the optimum is no    *)
(* more than any start times, because rows in the order of those times are *)
(* taken no later.                                                         *)
(***************************************************************************)
EXTENDS SemanticGraph, DataFacts, TLAPS

-----------------------------------------------------------------------------
(* Order by edges, and its recursion.                                       *)
\* e leads from rows to later ones of the first n
Forward(R, n) == \A e \in R : e \in (1..n) \X (1..n) /\ e[1] < e[2]

Nexts(R, n, i) == {j \in 1..n : <<i, j>> \in R}

\* reach is what follows each of the first n rows by the edges in R
Follows(reach, R, n) ==
    /\ reach \in [1..n -> SUBSET (1..n)]
    /\ \A i \in 1..n :
          reach[i] = Nexts(R, n, i) \cup UNION {reach[j] : j \in Nexts(R, n, i)}

\* The rows are numbered from 1.
LEMMA NodesAreNumbers ==
    ASSUME rows \in Seq(Rows) PROVE Len(rows) \in Nat /\ Nodes = 1..Len(rows)
  BY DEF Nodes

\* The recursion that defines what is reachable has a solution.
LEMMA ReachableIsDefined ==
    ASSUME rows \in Seq(Rows), NEW R, Forward(R, Len(rows))
    PROVE  Follows(ReachableBy(R), R, Len(rows))
<1> DEFINE N == Len(rows)
           V == SUBSET (1..N)
           B == [i \in 1..N |-> [f \in [1..N -> V] |->
                   Nexts(R, N, i) \cup UNION {f[j] : j \in Nexts(R, N, i)}]]
<1>1. N \in Nat /\ Nodes = 1..N
  BY NodesAreNumbers
<1> HIDE DEF N
<1>2. \A i \in 1..N : Nexts(R, N, i) \subseteq 1..N
  BY DEF Nexts
<1>3. \A i \in 1..N : \A f \in [1..N -> V] :
          B[i][f] = Nexts(R, N, i) \cup UNION {f[j] : j \in Nexts(R, N, i)}
  OBVIOUS
<1>4. B \in RuleTables(1, N, V)
  <2>1. \A i \in 1..N : \A f \in [1..N -> V] :
           Nexts(R, N, i) \cup UNION {f[j] : j \in Nexts(R, N, i)} \in V
    BY <1>2
  <2> QED BY <2>1 DEF RuleTables
<1>5. ASSUME NEW i \in 1..N, NEW f \in [1..N -> V], NEW g \in [1..N -> V],
             \A m \in (i + 1)..N : f[m] = g[m]
      PROVE  B[i][f] = B[i][g]
  <2>1. \A j \in Nexts(R, N, i) : j \in (i + 1)..N
    <3> TAKE j \in Nexts(R, N, i)
    <3>1. j \in 1..N /\ <<i, j>> \in R
      BY DEF Nexts
    <3>2. <<i, j>>[1] < <<i, j>>[2]
      BY <3>1 DEF Forward, N
    <3> QED BY <3>1, <3>2, <1>1
  <2>2. {f[j] : j \in Nexts(R, N, i)} = {g[j] : j \in Nexts(R, N, i)}
    BY <2>1, <1>5
  <2> QED BY <2>2, <1>3
<1> HIDE DEF B
<1>6. \E f \in [1..N -> V] : \A i \in 1..N : f[i] = B[i][f]
  <2>1. {} \in V /\ 1 \in Int /\ N \in Int
    BY <1>1
  <2> HIDE DEF V
  <2> QED BY <2>1, <1>4, <1>5, DownwardRecursion
<1>7. PICK f \in [1..N -> V] : \A i \in 1..N : f[i] = B[i][f]
  BY <1>6
<1> DEFINE Solves(reach) ==
      reach = [n \in Nodes |->
                 LET next == {m \in Nodes : <<n, m>> \in R}
                 IN  next \cup UNION {reach[m] : m \in next}]
<1>8. Solves(f)
  <2>1. \A i \in 1..N : f[i] = Nexts(R, N, i) \cup UNION {f[j] : j \in Nexts(R, N, i)}
    BY <1>7, <1>3
  <2> QED BY <2>1, <1>1, <1>7 DEF Nexts
<1>9. Solves(ReachableBy(R))
  <2>1. ReachableBy(R) = CHOOSE reach : Solves(reach)
    BY DEF ReachableBy
  <2> HIDE DEF Solves
  <2> QED BY <2>1, <1>8
<1>10. \A i \in 1..N : ReachableBy(R)[i] =
           Nexts(R, N, i) \cup UNION {ReachableBy(R)[j] : j \in Nexts(R, N, i)}
  BY <1>9, <1>1 DEF Nexts
<1>11. ReachableBy(R) = [i \in 1..N |-> ReachableBy(R)[i]]
  BY <1>9, <1>1
<1> HIDE DEF Solves, V
<1>12. \A i \in 1..N : ReachableBy(R)[i] \in V
  <2> DEFINE S == {k \in Nat : \A i \in 1..N : i > N - k => ReachableBy(R)[i] \in V}
  <2>1. 0 \in S
    BY <1>1
  <2>2. ASSUME NEW k \in Nat, k \in S PROVE k + 1 \in S
    <3> SUFFICES ASSUME NEW i \in 1..N, i > N - (k + 1) PROVE ReachableBy(R)[i] \in V
      OBVIOUS
    <3>1. \A j \in Nexts(R, N, i) : ReachableBy(R)[j] \in V
      <4> TAKE j \in Nexts(R, N, i)
      <4>1. j \in 1..N /\ <<i, j>> \in R
        BY DEF Nexts
      <4>2. <<i, j>>[1] < <<i, j>>[2]
        BY <4>1 DEF Forward, N
      <4>3. j > N - k
        BY <4>1, <4>2, <1>1
      <4> QED BY <4>1, <4>3, <2>2
    <3> QED BY <3>1, <1>10, <1>2 DEF V
  <2> HIDE DEF S
  <2>3. N \in S
    BY <2>1, <2>2, <1>1, SetInduction
  <2> QED BY <2>3, <1>1 DEF S
<1> QED BY <1>10, <1>11, <1>12 DEF Follows, V, N

\* What follows comes later, and what follows that follows too.
LEMMA FollowsLater ==
    ASSUME NEW n \in Nat, NEW R, Forward(R, n), NEW reach, Follows(reach, R, n)
    PROVE  /\ \A i, j \in 1..n : <<i, j>> \in R => j \in reach[i]
           /\ \A i, j \in 1..n : j \in reach[i] => i < j
           /\ \A i, j, k \in 1..n : j \in reach[i] /\ k \in reach[j] => k \in reach[i]
<1>1. \A i, j \in 1..n : <<i, j>> \in R => j \in reach[i]
  BY DEF Follows, Nexts
<1>2. \A i, j \in 1..n : j \in reach[i] =>
          j \in Nexts(R, n, i) \/ \E m \in Nexts(R, n, i) : j \in reach[m]
  BY DEF Follows
<1>3. \A i \in 1..n : \A m \in Nexts(R, n, i) : m \in 1..n /\ i < m
  <2> SUFFICES ASSUME NEW i \in 1..n, NEW m \in Nexts(R, n, i) PROVE m \in 1..n /\ i < m
    OBVIOUS
  <2>1. m \in 1..n /\ <<i, m>> \in R
    BY DEF Nexts
  <2>2. <<i, m>>[1] < <<i, m>>[2]
    BY <2>1 DEF Forward
  <2> QED BY <2>1, <2>2
<1>4. \A i, m, k \in 1..n : m \in Nexts(R, n, i) /\ k \in reach[m] => k \in reach[i]
  BY DEF Follows
<1> DEFINE S == {d \in Nat : \A i \in 1..n : i > n - d =>
                   /\ \A j \in 1..n : j \in reach[i] => i < j
                   /\ \A j, k \in 1..n :
                         j \in reach[i] /\ k \in reach[j] => k \in reach[i]}
<1>5. 0 \in S
  OBVIOUS
<1>6. ASSUME NEW d \in Nat, d \in S PROVE d + 1 \in S
  <2> SUFFICES ASSUME NEW i \in 1..n, i > n - (d + 1)
               PROVE  /\ \A j \in 1..n : j \in reach[i] => i < j
                      /\ \A j, k \in 1..n :
                            j \in reach[i] /\ k \in reach[j] => k \in reach[i]
    OBVIOUS
  <2>1. \A m \in Nexts(R, n, i) : m > n - d
    BY <1>3
  <2>2. ASSUME NEW j \in 1..n, j \in reach[i] PROVE i < j
    <3>1. CASE j \in Nexts(R, n, i)
      BY <3>1, <1>3
    <3>2. CASE \E m \in Nexts(R, n, i) : j \in reach[m]
      <4>1. PICK m \in Nexts(R, n, i) : j \in reach[m]
        BY <3>2
      <4>2. m \in 1..n /\ i < m /\ m > n - d
        BY <1>3, <2>1
      <4>3. m < j
        BY <4>1, <4>2, <1>6
      <4> QED BY <4>2, <4>3
    <3> QED BY <2>2, <3>1, <3>2, <1>2
  <2>3. ASSUME NEW j \in 1..n, NEW k \in 1..n, j \in reach[i], k \in reach[j]
        PROVE  k \in reach[i]
    <3>1. CASE j \in Nexts(R, n, i)
      BY <3>1, <1>4, <2>3
    <3>2. CASE \E m \in Nexts(R, n, i) : j \in reach[m]
      <4>1. PICK m \in Nexts(R, n, i) : j \in reach[m]
        BY <3>2
      <4>2. m \in 1..n /\ m > n - d
        BY <1>3, <2>1
      <4>3. k \in reach[m]
        BY <4>1, <4>2, <1>6, <2>3
      <4> QED BY <4>2, <4>3, <1>4
    <3> QED BY <2>3, <3>1, <3>2, <1>2
  <2> QED BY <2>2, <2>3
<1> HIDE DEF S
<1>7. n \in S
  BY <1>5, <1>6, SetInduction
<1> QED BY <1>1, <1>7 DEF S
-----------------------------------------------------------------------------
(* What build_ses remembers of the rows so far: the latest row of each kind. *)
IsLatest(n, S) ==
    IF S = {} THEN n = NoRow ELSE n \in S /\ \A m \in S : m <= n

Writers(k) == {i \in Nodes : k \in rows[i].writes}
OnTheLink(l) == {i \in Nodes : rows[i].link = l}
Measures(i, k) == rows[i].op = "measure" /\ rows[i].out = k
Measured(k) == {i \in Nodes : Measures(i, k)}

Remembered ==
    /\ \A k \in Objects : IsLatest(lastWriter[k], Writers(k))
    /\ \A k \in Objects :
          lastReaders[k] = {i \in Nodes : k \in rows[i].reads /\ i >= lastWriter[k]}
    /\ \A l \in Links : IsLatest(linkLast[l], OnTheLink(l))
    /\ \A k \in Objects : IsLatest(measuredBy[k], Measured(k))

(* The edges that each row was given.                                       *)
AfterWrites ==
    \A i, j \in Nodes : \A k \in rows[i].writes \cap Support(rows[j]) :
        i < j /\ (\A m \in (i + 1)..(j - 1) : k \notin rows[m].writes) => <<i, j>> \in edges

AfterReads ==
    \A i, j \in Nodes : \A k \in rows[i].reads \cap rows[j].writes :
        i < j /\ (\A m \in (i + 1)..(j - 1) : k \notin rows[m].writes) => <<i, j>> \in edges

AfterLink ==
    \A i, j \in Nodes :
        /\ i < j /\ rows[i].link # Null /\ rows[i].link = rows[j].link
        /\ \A m \in (i + 1)..(j - 1) : rows[m].link # rows[i].link
        => <<i, j>> \in edges

AfterAll == \A i, j \in Nodes : i < j /\ rows[j].op = "barrier" => <<i, j>> \in edges

AfterMeasurement ==
    \A i, j \in Nodes :
        /\ i < j /\ rows[j].op = "control" /\ rows[j].condition # Null
        /\ Measures(i, rows[j].condition)
        /\ \A m \in (i + 1)..(j - 1) : ~ Measures(m, rows[j].condition)
        => <<i, j>> \in edges

GraphTypeOK ==
    /\ rows \in Seq(Rows)
    /\ entangled \in [Objects -> SUBSET Objects]
    /\ lastWriter \in [Objects -> Nodes \cup {NoRow}]
    /\ lastReaders \in [Objects -> SUBSET Nodes]
    /\ linkLast \in [Links -> Nodes \cup {NoRow}]
    /\ laneLast \in [Lanes -> Nodes \cup {NoRow}]
    /\ measuredBy \in [Objects -> Nodes \cup {NoRow}]
    /\ Forward(edges, Len(rows))

GraphInv ==
    /\ GraphTypeOK /\ Remembered
    /\ AfterWrites /\ AfterReads /\ AfterLink /\ AfterAll /\ AfterMeasurement
-----------------------------------------------------------------------------
(* The types.                                                               *)
\* What the rows say of themselves.
LEMMA RowTypes ==
    ASSUME NEW row \in Rows
    PROVE  /\ row.reads \subseteq Objects /\ row.writes \subseteq Objects
           /\ row.condition \in Objects \cup {Null}
           /\ row.link \in Links \cup {Null} /\ row.lane \in Lanes \cup {Null}
           /\ row.cost \in Nat /\ row.errors \in Nat
  BY GraphAssumption DEF GraphAssumption

\* A row more.
LEMMA RowAdded ==
    ASSUME GraphTypeOK, NEW row \in Rows, AddRow(row)
    PROVE  /\ rows' \in Seq(Rows) /\ Len(rows') = Len(rows) + 1
           /\ Len(rows) \in Nat /\ Nodes = 1..Len(rows) /\ Nodes' = 1..(Len(rows) + 1)
           /\ \A i \in Nodes : rows'[i] = rows[i] /\ rows[i] \in Rows
           /\ rows'[Len(rows) + 1] = row
<1>1. rows \in Seq(Rows) /\ rows' = Append(rows, row)
  BY DEF AddRow, GraphTypeOK
<1>2. Len(rows) \in Nat /\ Nodes = 1..Len(rows)
  BY <1>1, NodesAreNumbers
<1>3. rows' \in Seq(Rows) /\ Len(rows') = Len(rows) + 1
  BY <1>1
<1>4. Nodes' = 1..(Len(rows) + 1)
  BY <1>3 DEF Nodes
<1>5. \A i \in Nodes : rows'[i] = rows[i] /\ rows[i] \in Rows
  BY <1>1, <1>2
<1>6. rows'[Len(rows) + 1] = row
  BY <1>1
<1> QED BY <1>2, <1>3, <1>4, <1>5, <1>6

\* The rows a new row is put after.
Sources(row) ==
    (OnWriters(row) \cup OnReaders(row) \cup OnMeasurement(row) \cup OnPartners(row)
     \cup OnLink(row) \cup OnAll(row) \cup OnLane(row)) \ {NoRow}

\* They are earlier rows.
LEMMA SourcesAreEarlier ==
    ASSUME GraphTypeOK, NEW row \in Rows
    PROVE  Sources(row) \subseteq Nodes
<1>1. OnWriters(row) \subseteq Nodes \cup {NoRow}
  BY RowTypes DEF OnWriters, GraphTypeOK
<1>2. OnReaders(row) \subseteq Nodes
  BY RowTypes DEF OnReaders, GraphTypeOK
<1>3. OnMeasurement(row) \subseteq Nodes \cup {NoRow}
  BY RowTypes DEF OnMeasurement, GraphTypeOK
<1>4. OnPartners(row) \subseteq Nodes \cup {NoRow}
  <2>1. \A k \in row.reads \cup row.writes : entangled[k] \subseteq Objects
    BY RowTypes DEF GraphTypeOK
  <2>2. EntanglementSet(row) \subseteq Objects
    BY <2>1 DEF EntanglementSet
  <2> QED BY <2>2 DEF OnPartners, GraphTypeOK
<1>5. OnLink(row) \subseteq Nodes \cup {NoRow}
  BY RowTypes DEF OnLink, GraphTypeOK
<1>6. OnAll(row) \subseteq Nodes
  BY DEF OnAll
<1>7. OnLane(row) \subseteq Nodes \cup {NoRow}
  BY RowTypes DEF OnLane, GraphTypeOK
<1> QED BY <1>1, <1>2, <1>3, <1>4, <1>5, <1>6, <1>7 DEF Sources

\* The edges of a row more.
LEMMA EdgesAdded ==
    ASSUME GraphTypeOK, NEW row \in Rows, AddRow(row)
    PROVE  /\ edges' = edges \cup (Sources(row) \X {Len(rows) + 1})
           /\ edges \subseteq edges'
           /\ \A i \in Nodes : i \in Sources(row) => <<i, Len(rows) + 1>> \in edges'
  BY DEF AddRow, Sources

\* The types hold in a program without rows, and with a row or a schedule more.
LEMMA GraphTypesInit == GraphInit => GraphTypeOK
<1> SUFFICES ASSUME GraphInit PROVE GraphTypeOK
  OBVIOUS
<1>1. rows \in Seq(Rows) /\ edges = {}
  BY DEF GraphInit
<1>2. entangled \in [Objects -> SUBSET Objects]
  BY GraphAssumption DEF GraphInit, GraphAssumption
<1> QED BY <1>1, <1>2 DEF GraphInit, GraphTypeOK, Forward

\* An added row, and a schedule, keep them.
LEMMA GraphTypesNext ==
    ASSUME GraphTypeOK, [GraphNext]_graphVars PROVE GraphTypeOK'
<1>1. ASSUME NEW row \in Rows, AddRow(row) PROVE GraphTypeOK'
  <2> DEFINE n == Len(rows) + 1
  <2>1. /\ rows' \in Seq(Rows) /\ Len(rows') = n /\ n - 1 \in Nat /\ n \in Nat
        /\ Nodes = 1..(n - 1) /\ Nodes' = 1..n
    BY <1>1, RowAdded
  <2>2. Nodes \subseteq Nodes' /\ n \in Nodes'
    BY <2>1
  <2> HIDE DEF n
  <2>3. entangled' \in [Objects -> SUBSET Objects]
    BY <1>1 DEF AddRow, GraphTypeOK
  <2>4. lastWriter' \in [Objects -> Nodes' \cup {NoRow}]
    BY <1>1, <2>2 DEF AddRow, GraphTypeOK, n
  <2>5. lastReaders' \in [Objects -> SUBSET Nodes']
    BY <1>1, <2>2 DEF AddRow, GraphTypeOK, n
  <2>6. linkLast' \in [Links -> Nodes' \cup {NoRow}]
    BY <1>1, <2>2 DEF AddRow, GraphTypeOK, n
  <2>7. laneLast' \in [Lanes -> Nodes' \cup {NoRow}]
    BY <1>1, <2>2 DEF AddRow, GraphTypeOK, n
  <2>8. measuredBy' \in [Objects -> Nodes' \cup {NoRow}]
    BY <1>1, <2>2 DEF AddRow, GraphTypeOK, n
  <2>9. Forward(edges', n)
    <3>1. Forward(edges, n - 1)
      BY <2>1 DEF GraphTypeOK, n
    <3>2. edges' = edges \cup (Sources(row) \X {n}) /\ Sources(row) \subseteq 1..(n - 1)
      BY <1>1, <2>1, EdgesAdded, SourcesAreEarlier DEF n
    <3>3. ASSUME NEW e \in edges PROVE e \in (1..n) \X (1..n) /\ e[1] < e[2]
      <4>1. e \in (1..(n - 1)) \X (1..(n - 1)) /\ e[1] < e[2]
        BY <3>1 DEF Forward
      <4> QED BY <4>1, <2>1
    <3>4. ASSUME NEW e \in Sources(row) \X {n} PROVE e \in (1..n) \X (1..n) /\ e[1] < e[2]
      <4>1. PICK i \in Sources(row) : e = <<i, n>>
        OBVIOUS
      <4>2. i \in 1..(n - 1)
        BY <3>2
      <4> QED BY <4>1, <4>2, <2>1
    <3> QED BY <3>2, <3>3, <3>4 DEF Forward
  <2> QED BY <2>1, <2>3, <2>4, <2>5, <2>6, <2>7, <2>8, <2>9 DEF GraphTypeOK
<1>2. ASSUME UNCHANGED builderVars PROVE GraphTypeOK'
  BY <1>2 DEF GraphTypeOK, builderVars, Nodes, Forward
<1> QED BY <1>1, <1>2 DEF GraphNext, graphVars, Schedule
-----------------------------------------------------------------------------
(* What is remembered stays right.                                          *)
\* The latest of a set of rows is the one after which there is none.
LEMMA LatestIsLast ==
    ASSUME NEW n \in Nat, NEW S, S \subseteq 1..n, NEW last, IsLatest(last, S),
           NEW i \in S, \A m \in (i + 1)..n : m \notin S
    PROVE  i = last
<1>1. last \in S /\ i <= last
  BY DEF IsLatest
<1>2. ~ (i < last)
  BY <1>1
<1> QED BY <1>1, <1>2

\* A new row is the latest of its kinds.
LEMMA LatestAdded ==
    ASSUME NEW n \in Nat, NEW S, S \subseteq 1..n, NEW last, IsLatest(last, S), NEW T,
           NEW P \in BOOLEAN, T = S \cup (IF P THEN {n + 1} ELSE {})
    PROVE  IsLatest(IF P THEN n + 1 ELSE last, T)
  BY DEF IsLatest

\* Nothing is remembered of no rows.
LEMMA RememberedInit == GraphInit => Remembered
  BY DEF GraphInit, Remembered, IsLatest, Writers, OnTheLink, Measured, Nodes

\* What is remembered with a row more is right again.
LEMMA RememberedNext ==
    ASSUME GraphTypeOK, Remembered, NEW row \in Rows, AddRow(row)
    PROVE  Remembered'
<1> DEFINE n == Len(rows)
<1>1. /\ n \in Nat /\ Nodes = 1..n /\ Nodes' = 1..(n + 1) /\ rows'[n + 1] = row
      /\ \A i \in Nodes : rows'[i] = rows[i]
  BY RowAdded
<1>2. \A i \in Nodes' : i \in Nodes \/ i = n + 1
  BY <1>1
<1>3. Nodes \subseteq Nodes' /\ n + 1 \in Nodes' /\ n + 1 \notin Nodes
  BY <1>1
<1> HIDE DEF n
<1>4. ASSUME NEW k \in Objects PROVE IsLatest(lastWriter'[k], Writers(k)')
  <2>1. Writers(k)' = Writers(k) \cup (IF k \in row.writes THEN {n + 1} ELSE {})
    BY <1>1, <1>2, <1>3 DEF Writers
  <2>2. lastWriter'[k] = IF k \in row.writes THEN n + 1 ELSE lastWriter[k]
    BY DEF AddRow, n
  <2>3. IsLatest(lastWriter[k], Writers(k)) /\ Writers(k) \subseteq 1..n
    BY <1>1 DEF Remembered, Writers
  <2> QED BY <2>1, <2>2, <2>3, <1>1, LatestAdded
<1>5. ASSUME NEW l \in Links PROVE IsLatest(linkLast'[l], OnTheLink(l)')
  <2> DEFINE P == row.link = l
  <2>1. OnTheLink(l)' = OnTheLink(l) \cup (IF P THEN {n + 1} ELSE {})
    BY <1>1, <1>2, <1>3 DEF OnTheLink
  <2>2. linkLast'[l] = IF P THEN n + 1 ELSE linkLast[l]
    BY DEF AddRow, n
  <2>3. IsLatest(linkLast[l], OnTheLink(l)) /\ OnTheLink(l) \subseteq 1..n
    BY <1>1 DEF Remembered, OnTheLink
  <2>4. P \in BOOLEAN
    OBVIOUS
  <2> HIDE DEF P
  <2> QED BY <2>1, <2>2, <2>3, <2>4, <1>1, LatestAdded
<1>6. ASSUME NEW k \in Objects PROVE IsLatest(measuredBy'[k], Measured(k)')
  <2> DEFINE P == row.op = "measure" /\ row.out = k
  <2>1. Measured(k)' = Measured(k) \cup (IF P THEN {n + 1} ELSE {})
    BY <1>1, <1>2, <1>3 DEF Measured, Measures
  <2>2. measuredBy'[k] = IF P THEN n + 1 ELSE measuredBy[k]
    BY DEF AddRow, n
  <2>3. IsLatest(measuredBy[k], Measured(k)) /\ Measured(k) \subseteq 1..n
    BY <1>1 DEF Remembered, Measured
  <2>4. P \in BOOLEAN
    OBVIOUS
  <2> HIDE DEF P
  <2> QED BY <2>1, <2>2, <2>3, <2>4, <1>1, LatestAdded
<1>7. ASSUME NEW k \in Objects
      PROVE  lastReaders'[k] = {i \in Nodes' : k \in rows'[i].reads /\ i >= lastWriter'[k]}
  <2>1. /\ lastWriter'[k] = IF k \in row.writes THEN n + 1 ELSE lastWriter[k]
        /\ lastReaders'[k] = (IF k \in row.writes THEN {} ELSE lastReaders[k])
                             \cup (IF k \in row.reads THEN {n + 1} ELSE {})
    BY DEF AddRow, n
  <2>2. lastReaders[k] = {i \in Nodes : k \in rows[i].reads /\ i >= lastWriter[k]}
    BY DEF Remembered
  <2>3. lastWriter[k] \in Int /\ lastWriter[k] <= n
    BY <1>1 DEF GraphTypeOK, NoRow
  <2>4. CASE k \in row.writes
    <3>1. \A i \in Nodes' : i >= n + 1 <=> i = n + 1
      BY <1>1
    <3> QED BY <3>1, <2>1, <2>4, <1>1, <1>3
  <2>5. CASE k \notin row.writes
    <3>1. {i \in Nodes' : k \in rows'[i].reads /\ i >= lastWriter[k]}
          = {i \in Nodes : k \in rows[i].reads /\ i >= lastWriter[k]}
            \cup (IF k \in row.reads THEN {n + 1} ELSE {})
      BY <1>1, <1>2, <1>3, <2>3
    <3> QED BY <3>1, <2>1, <2>2, <2>5
  <2> QED BY <2>4, <2>5
<1> QED BY <1>4, <1>5, <1>6, <1>7 DEF Remembered
-----------------------------------------------------------------------------
(* The invariant of build_ses.                                              *)
\* A row more gets its edges from what is remembered.
LEMMA EdgesNext ==
    ASSUME GraphInv, NEW row \in Rows, AddRow(row)
    PROVE  AfterWrites' /\ AfterReads' /\ AfterLink' /\ AfterAll' /\ AfterMeasurement'
<1> DEFINE n == Len(rows)
<1> USE DEF GraphInv
<1>1. /\ n \in Nat /\ Nodes = 1..n /\ Nodes' = 1..(n + 1) /\ rows'[n + 1] = row
      /\ \A i \in Nodes : rows'[i] = rows[i] /\ rows[i] \in Rows
  BY RowAdded
<1>2. \A i, j \in Nodes' :
         i < j => /\ i \in Nodes
                  /\ \/ j = n + 1
                     \/ j \in Nodes /\ \A m \in (i + 1)..(j - 1) : m \in Nodes
  BY <1>1
<1>3. edges \subseteq edges' /\ \A i \in Nodes : i \in Sources(row) => <<i, n + 1>> \in edges'
  BY EdgesAdded
<1>4. \A m \in Nodes : m # NoRow
  BY <1>1 DEF NoRow
<1>5. n + 1 - 1 = n
  BY <1>1
<1> HIDE DEF n
<1>6. AfterWrites'
  <2> SUFFICES ASSUME NEW i \in Nodes', NEW j \in Nodes',
                      NEW k \in rows'[i].writes \cap Support(rows'[j]),
                      i < j, \A m \in (i + 1)..(j - 1) : k \notin rows'[m].writes
               PROVE  <<i, j>> \in edges'
    BY DEF AfterWrites
  <2>1. i \in Nodes /\ rows'[i] = rows[i] /\ rows[i] \in Rows
    BY <1>1, <1>2
  <2>2. CASE j \in Nodes /\ \A m \in (i + 1)..(j - 1) : m \in Nodes
    <3>1. rows'[j] = rows[j] /\ \A m \in (i + 1)..(j - 1) : k \notin rows[m].writes
      BY <2>2, <1>1
    <3>2. <<i, j>> \in edges
      BY <3>1, <2>1, <2>2 DEF AfterWrites
    <3> QED BY <3>2, <1>3
  <2>3. CASE j = n + 1
    <3>1. k \in Objects /\ k \in row.reads \cup row.writes
      BY <2>3, <1>1, RowTypes DEF Support
    <3>2. i \in Writers(k) /\ Writers(k) \subseteq 1..n /\ IsLatest(lastWriter[k], Writers(k))
      BY <2>1, <1>1, <3>1 DEF Writers, Remembered
    <3>3. \A m \in (i + 1)..n : m \notin Writers(k)
      BY <2>3, <1>1, <1>5 DEF Writers
    <3>4. i = lastWriter[k]
      BY <3>2, <3>3, <1>1, LatestIsLast
    <3>5. i \in Sources(row)
      BY <3>1, <3>4, <2>1, <1>4 DEF Sources, OnWriters
    <3> QED BY <3>5, <2>1, <2>3, <1>3
  <2> QED BY <2>2, <2>3, <1>2
<1>7. AfterReads'
  <2> SUFFICES ASSUME NEW i \in Nodes', NEW j \in Nodes',
                      NEW k \in rows'[i].reads \cap rows'[j].writes,
                      i < j, \A m \in (i + 1)..(j - 1) : k \notin rows'[m].writes
               PROVE  <<i, j>> \in edges'
    BY DEF AfterReads
  <2>1. i \in Nodes /\ rows'[i] = rows[i] /\ rows[i] \in Rows
    BY <1>1, <1>2
  <2>2. CASE j \in Nodes /\ \A m \in (i + 1)..(j - 1) : m \in Nodes
    <3>1. rows'[j] = rows[j] /\ \A m \in (i + 1)..(j - 1) : k \notin rows[m].writes
      BY <2>2, <1>1
    <3>2. <<i, j>> \in edges
      BY <3>1, <2>1, <2>2 DEF AfterReads
    <3> QED BY <3>2, <1>3
  <2>3. CASE j = n + 1
    <3>1. k \in Objects /\ k \in row.writes
      BY <2>3, <1>1, RowTypes
    <3>2. \A m \in (i + 1)..n : m \notin Writers(k)
      BY <2>3, <1>1, <1>5 DEF Writers
    <3>3. lastWriter[k] \in Int /\ lastWriter[k] <= n
      BY <1>1, <3>1 DEF GraphTypeOK, NoRow
    <3>4. i >= lastWriter[k]
      <4>1. IsLatest(lastWriter[k], Writers(k))
        BY <3>1 DEF Remembered
      <4>2. CASE Writers(k) = {}
        BY <4>1, <4>2, <1>1, <2>1 DEF IsLatest, NoRow
      <4>3. CASE lastWriter[k] \in Writers(k)
        BY <4>3, <3>2, <3>3, <2>1, <1>1
      <4> QED BY <4>1, <4>2, <4>3 DEF IsLatest
    <3>5. i \in lastReaders[k]
      BY <3>1, <3>4, <2>1 DEF Remembered
    <3>6. i \in Sources(row)
      BY <3>1, <3>5, <2>1, <1>4 DEF Sources, OnReaders
    <3> QED BY <3>6, <2>1, <2>3, <1>3
  <2> QED BY <2>2, <2>3, <1>2
<1>8. AfterLink'
  <2> SUFFICES ASSUME NEW i \in Nodes', NEW j \in Nodes',
                      i < j, rows'[i].link # Null, rows'[i].link = rows'[j].link,
                      \A m \in (i + 1)..(j - 1) : rows'[m].link # rows'[i].link
               PROVE  <<i, j>> \in edges'
    BY DEF AfterLink
  <2>1. i \in Nodes /\ rows'[i] = rows[i] /\ rows[i] \in Rows
    BY <1>1, <1>2
  <2>2. CASE j \in Nodes /\ \A m \in (i + 1)..(j - 1) : m \in Nodes
    <3>1. rows'[j] = rows[j] /\ \A m \in (i + 1)..(j - 1) : rows[m].link # rows[i].link
      BY <2>1, <2>2, <1>1
    <3>2. <<i, j>> \in edges
      BY <3>1, <2>1, <2>2 DEF AfterLink
    <3> QED BY <3>2, <1>3
  <2>3. CASE j = n + 1
    <3> DEFINE l == row.link
    <3>1. l \in Links /\ l # Null /\ rows[i].link = l
      BY <2>1, <2>3, <1>1, RowTypes
    <3>2. i \in OnTheLink(l) /\ OnTheLink(l) \subseteq 1..n /\ IsLatest(linkLast[l], OnTheLink(l))
      BY <2>1, <1>1, <3>1 DEF OnTheLink, Remembered
    <3>3. \A m \in (i + 1)..n : m \notin OnTheLink(l)
      BY <2>1, <2>3, <1>1, <1>5, <3>1 DEF OnTheLink
    <3>4. i = linkLast[l]
      BY <3>2, <3>3, <1>1, LatestIsLast
    <3>5. i \in Sources(row)
      BY <3>1, <3>4, <2>1, <1>4 DEF Sources, OnLink
    <3> QED BY <3>5, <2>1, <2>3, <1>3
  <2> QED BY <2>2, <2>3, <1>2
<1>9. AfterAll'
  <2> SUFFICES ASSUME NEW i \in Nodes', NEW j \in Nodes', i < j, rows'[j].op = "barrier"
               PROVE  <<i, j>> \in edges'
    BY DEF AfterAll
  <2>1. i \in Nodes
    BY <1>2
  <2>2. CASE j \in Nodes
    BY <2>1, <2>2, <1>1, <1>3 DEF AfterAll
  <2>3. CASE j = n + 1
    <3>1. i \in Sources(row)
      BY <2>1, <2>3, <1>1, <1>4 DEF Sources, OnAll
    <3> QED BY <3>1, <2>1, <2>3, <1>3
  <2> QED BY <2>2, <2>3, <1>2
<1>10. AfterMeasurement'
  <2> SUFFICES ASSUME NEW i \in Nodes', NEW j \in Nodes',
                      i < j, rows'[j].op = "control", rows'[j].condition # Null,
                      Measures(i, rows[j].condition)',
                      \A m \in (i + 1)..(j - 1) : ~ Measures(m, rows[j].condition)'
               PROVE  <<i, j>> \in edges'
    BY DEF AfterMeasurement
  <2>1. i \in Nodes /\ rows'[i] = rows[i] /\ rows[i] \in Rows
    BY <1>1, <1>2
  <2>2. CASE j \in Nodes /\ \A m \in (i + 1)..(j - 1) : m \in Nodes
    <3>1. /\ rows'[j] = rows[j] /\ Measures(i, rows[j].condition)
          /\ \A m \in (i + 1)..(j - 1) : ~ Measures(m, rows[j].condition)
      BY <2>1, <2>2, <1>1 DEF Measures
    <3>2. <<i, j>> \in edges
      BY <3>1, <2>1, <2>2 DEF AfterMeasurement
    <3> QED BY <3>2, <1>3
  <2>3. CASE j = n + 1
    <3> DEFINE k == row.condition
    <3>1. k \in Objects /\ k # Null /\ row.op = "control" /\ Measures(i, k)
      BY <2>1, <2>3, <1>1, RowTypes DEF Measures
    <3>2. i \in Measured(k) /\ Measured(k) \subseteq 1..n /\ IsLatest(measuredBy[k], Measured(k))
      BY <2>1, <1>1, <3>1 DEF Measured, Remembered
    <3>3. \A m \in (i + 1)..n : m \notin Measured(k)
      BY <2>1, <2>3, <1>1, <1>5, <3>1 DEF Measured, Measures
    <3>4. i = measuredBy[k]
      BY <3>2, <3>3, <1>1, LatestIsLast
    <3>5. i \in Sources(row)
      BY <3>1, <3>4, <2>1, <1>4 DEF Sources, OnMeasurement
    <3> QED BY <3>5, <2>1, <2>3, <1>3
  <2> QED BY <2>2, <2>3, <1>2
<1> QED BY <1>6, <1>7, <1>8, <1>9, <1>10

\* A program without rows satisfies the invariant.
LEMMA GraphInvInit == GraphInit => GraphInv
<1> SUFFICES ASSUME GraphInit PROVE GraphInv
  OBVIOUS
<1>1. Nodes = {}
  BY DEF GraphInit, Nodes
<1> QED BY <1>1, GraphTypesInit, RememberedInit
        DEF GraphInv, AfterWrites, AfterReads, AfterLink, AfterAll, AfterMeasurement

\* An added row, and a schedule, keep the invariant.
LEMMA GraphInvNext ==
    ASSUME GraphInv, [GraphNext]_graphVars PROVE GraphInv'
<1>1. GraphTypeOK'
  BY GraphTypesNext DEF GraphInv
<1>2. ASSUME NEW row \in Rows, AddRow(row) PROVE GraphInv'
  BY <1>1, <1>2, RememberedNext, EdgesNext DEF GraphInv
<1>3. ASSUME UNCHANGED builderVars PROVE GraphInv'
  <2>1. /\ rows' = rows /\ edges' = edges /\ lastWriter' = lastWriter
        /\ lastReaders' = lastReaders /\ linkLast' = linkLast /\ measuredBy' = measuredBy
    BY <1>3 DEF builderVars
  <2>2. Remembered'
    BY <2>1 DEF GraphInv, Remembered, Nodes, Writers, OnTheLink, Measured, Measures
  <2>3. AfterWrites' /\ AfterReads' /\ AfterLink' /\ AfterAll'
    BY <2>1 DEF GraphInv, Nodes, AfterWrites, AfterReads, AfterLink, AfterAll
  <2>4. AfterMeasurement'
    BY <2>1 DEF GraphInv, Nodes, Measures, AfterMeasurement
  <2> QED BY <1>1, <2>2, <2>3, <2>4 DEF GraphInv
<1> QED BY <1>2, <1>3 DEF GraphNext, graphVars, Schedule

-----------------------------------------------------------------------------
(* Rows that conflict are ordered.                                          *)
\* A set of some of the first n numbers has a greatest one, its Max.
LEMMA Greatest ==
    ASSUME NEW n \in Nat, NEW S, S \subseteq 0..n, S # {}
    PROVE  Max(S) \in S /\ \A m \in S : m <= Max(S)
<1>1. IsFiniteSet(S)
  <2>1. IsFiniteSet(0..n)
    BY FS_Interval
  <2> QED BY <2>1, FS_Subset
<1>2. S \subseteq Nat
  OBVIOUS
<1> QED BY <1>1, <1>2, LargestNatural

\* A lower bound of a set that is in it is its Min.
LEMMA LeastIsMin ==
    ASSUME NEW S, S \subseteq Int, NEW i \in S, \A m \in S : i <= m
    PROVE  Min(S) = i
<1>1. Min(S) \in S /\ \A m \in S : Min(S) <= m
  BY DEF Min
<1>2. Min(S) \in Int /\ Min(S) <= i /\ i <= Min(S) /\ i \in Int
  BY <1>1
<1> QED BY <1>2

\* Where neighbours in a set of rows are ordered, all of its rows are.
LEMMA NeighboursSuffice ==
    ASSUME NEW n \in Nat, NEW reach, NEW S, S \subseteq 1..n,
           \A i, j, k \in 1..n : j \in reach[i] /\ k \in reach[j] => k \in reach[i],
           \A i, j \in S : i < j /\ (\A m \in (i + 1)..(j - 1) : m \notin S) => j \in reach[i]
    PROVE  \A i, j \in S : i < j => j \in reach[i]
<1> DEFINE D == {d \in Nat : \A i, j \in S : i < j /\ j <= i + d => j \in reach[i]}
<1>1. 0 \in D
  <2>1. \A i, j \in S : ~ (i < j /\ j <= i + 0)
    OBVIOUS
  <2> QED BY <2>1
<1>2. ASSUME NEW d \in Nat, d \in D PROVE d + 1 \in D
  <2> SUFFICES ASSUME NEW i \in S, NEW j \in S, i < j, j <= i + (d + 1)
               PROVE  j \in reach[i]
    OBVIOUS
  <2>1. CASE \E m \in (i + 1)..(j - 1) : m \in S
    <3>1. PICK m \in (i + 1)..(j - 1) : m \in S
      BY <2>1
    <3>2. i \in 1..n /\ j \in 1..n /\ m \in 1..n
      BY <3>1
    <3>3. m \in reach[i] /\ j \in reach[m]
      BY <3>1, <3>2, <1>2
    <3> QED BY <3>2, <3>3
  <2> QED BY <2>1
<1>3. n \in D
  <2> HIDE DEF D
  <2> QED BY <1>1, <1>2, SetInduction
<1>4. \A i, j \in S : j <= i + n
  OBVIOUS
<1> QED BY <1>3, <1>4

\* A row is after every row that writes what it touches.
LEMMA WritesAreOrdered ==
    ASSUME GraphInv, NEW i \in Nodes, NEW j \in Nodes, i < j,
           NEW k \in rows[i].writes \cap Support(rows[j])
    PROVE  Ordered(i, j)
<1> DEFINE N == Len(rows)
<1>1. rows \in Seq(Rows) /\ N \in Nat /\ Nodes = 1..N
  BY NodesAreNumbers DEF GraphInv, GraphTypeOK
<1>2. Forward(edges, N) /\ Follows(Reach, edges, N)
  BY <1>1, ReachableIsDefined DEF GraphInv, GraphTypeOK, Reach
<1>3. /\ \A a, b \in Nodes : <<a, b>> \in edges => b \in Reach[a]
      /\ \A a, b, c \in Nodes : b \in Reach[a] /\ c \in Reach[b] => c \in Reach[a]
  BY <1>1, <1>2, FollowsLater
<1> HIDE DEF N
<1>4. \A a, b \in Writers(k) : a < b => b \in Reach[a]
  <2>1. ASSUME NEW a \in Writers(k), NEW b \in Writers(k), a < b,
               \A m \in (a + 1)..(b - 1) : m \notin Writers(k)
        PROVE  b \in Reach[a]
    <3>1. a \in Nodes /\ b \in Nodes /\ k \in rows[a].writes \cap Support(rows[b])
      BY DEF Writers, Support
    <3>2. \A m \in (a + 1)..(b - 1) : k \notin rows[m].writes
      BY <2>1, <3>1, <1>1 DEF Writers
    <3>3. <<a, b>> \in edges
      BY <3>1, <3>2, <2>1 DEF GraphInv, AfterWrites
    <3> QED BY <3>1, <3>3, <1>3
  <2>2. Writers(k) \subseteq 1..N
    BY <1>1 DEF Writers
  <2> QED BY <2>1, <2>2, <1>1, <1>3, NeighboursSuffice
<1>5. PICK m \in i..(j - 1) : /\ k \in rows[m].writes
                              /\ \A x \in (m + 1)..(j - 1) : k \notin rows[x].writes
  <2> DEFINE S == {x \in i..(j - 1) : k \in rows[x].writes}
  <2>1. i \in S /\ S \subseteq 0..N
    BY <1>1
  <2> HIDE DEF S
  <2>2. PICK m \in S : \A x \in S : x <= m
    BY <2>1, <1>1, Greatest
  <2> QED BY <2>2, <1>1 DEF S
<1>6. m \in Nodes /\ <<m, j>> \in edges
  BY <1>1, <1>5 DEF GraphInv, AfterWrites
<1>7. CASE m = i
  BY <1>6, <1>7, <1>3 DEF Ordered
<1>8. CASE i < m
  <2>1. m \in Reach[i]
    BY <1>4, <1>5, <1>6, <1>8 DEF Writers
  <2> QED BY <2>1, <1>6, <1>3 DEF Ordered
<1> QED BY <1>5, <1>6, <1>7, <1>8, <1>1

\* A row that writes something is after every row that reads it.
LEMMA ReadsAreOrdered ==
    ASSUME GraphInv, NEW i \in Nodes, NEW j \in Nodes, i < j,
           NEW k \in rows[i].reads \cap rows[j].writes
    PROVE  Ordered(i, j)
<1> DEFINE N == Len(rows)
<1>1. rows \in Seq(Rows) /\ N \in Nat /\ Nodes = 1..N
  BY NodesAreNumbers DEF GraphInv, GraphTypeOK
<1>2. Forward(edges, N) /\ Follows(Reach, edges, N)
  BY <1>1, ReachableIsDefined DEF GraphInv, GraphTypeOK, Reach
<1>3. /\ \A a, b \in Nodes : <<a, b>> \in edges => b \in Reach[a]
      /\ \A a, b, c \in Nodes : b \in Reach[a] /\ c \in Reach[b] => c \in Reach[a]
  BY <1>1, <1>2, FollowsLater
<1> HIDE DEF N
<1>4. PICK m \in (i + 1)..j : /\ k \in rows[m].writes
                              /\ \A x \in (i + 1)..(m - 1) : k \notin rows[x].writes
  <2> DEFINE S == {x \in (i + 1)..j : k \in rows[x].writes}
  <2>1. j \in S /\ S \subseteq Nat
    BY <1>1
  <2>2. PICK m \in S : \A x \in S : m <= x
    BY <2>1, LeastNatural
  <2> QED BY <2>2, <1>1
<1>5. m \in Nodes /\ <<i, m>> \in edges
  BY <1>1, <1>4 DEF GraphInv, AfterReads
<1>6. CASE m = j
  BY <1>5, <1>6, <1>3 DEF Ordered
<1>7. CASE m < j
  <2>1. Ordered(m, j)
    BY <1>4, <1>5, <1>7, WritesAreOrdered DEF Support
  <2> QED BY <2>1, <1>5, <1>3 DEF Ordered
<1> QED BY <1>4, <1>5, <1>6, <1>7, <1>1

\* Rows on one link are in the order of the source.
LEMMA LinksAreOrdered ==
    ASSUME GraphInv, NEW i \in Nodes, NEW j \in Nodes, i < j,
           rows[i].link # Null, rows[i].link = rows[j].link
    PROVE  Ordered(i, j)
<1> DEFINE N == Len(rows)
           l == rows[i].link
<1>1. rows \in Seq(Rows) /\ N \in Nat /\ Nodes = 1..N
  BY NodesAreNumbers DEF GraphInv, GraphTypeOK
<1>2. Forward(edges, N) /\ Follows(Reach, edges, N)
  BY <1>1, ReachableIsDefined DEF GraphInv, GraphTypeOK, Reach
<1>3. /\ \A a, b \in Nodes : <<a, b>> \in edges => b \in Reach[a]
      /\ \A a, b, c \in Nodes : b \in Reach[a] /\ c \in Reach[b] => c \in Reach[a]
  BY <1>1, <1>2, FollowsLater
<1> HIDE DEF N
<1>4. ASSUME NEW a \in OnTheLink(l), NEW b \in OnTheLink(l), a < b,
             \A m \in (a + 1)..(b - 1) : m \notin OnTheLink(l)
      PROVE  b \in Reach[a]
  <2>1. a \in Nodes /\ b \in Nodes /\ rows[a].link = l /\ rows[b].link = l
    BY DEF OnTheLink
  <2>2. \A m \in (a + 1)..(b - 1) : rows[m].link # rows[a].link
    BY <1>4, <2>1, <1>1 DEF OnTheLink
  <2>3. <<a, b>> \in edges
    BY <1>4, <2>1, <2>2 DEF GraphInv, AfterLink
  <2> QED BY <2>1, <2>3, <1>3
<1>5. OnTheLink(l) \subseteq 1..N
  BY <1>1 DEF OnTheLink
<1>6. \A a, b \in OnTheLink(l) :
          a < b /\ (\A m \in (a + 1)..(b - 1) : m \notin OnTheLink(l)) => b \in Reach[a]
  BY <1>4
<1> HIDE DEF l
<1>7. \A a, b \in OnTheLink(l) : a < b => b \in Reach[a]
  BY <1>1, <1>3, <1>5, <1>6, NeighboursSuffice
<1> QED BY <1>7 DEF OnTheLink, Ordered, l

\* What conflicts is ordered.
LEMMA ConflictsOrdered ==
    ASSUME GraphInv, NEW i \in Nodes, NEW j \in Nodes, i < j, Conflict(i, j)
    PROVE  Ordered(i, j)
<1>1. \A a, b \in Nodes : <<a, b>> \in edges => Ordered(a, b)
  <2>1. rows \in Seq(Rows) /\ Len(rows) \in Nat /\ Nodes = 1..Len(rows)
    BY NodesAreNumbers DEF GraphInv, GraphTypeOK
  <2>2. Forward(edges, Len(rows)) /\ Follows(Reach, edges, Len(rows))
    BY <2>1, ReachableIsDefined DEF GraphInv, GraphTypeOK, Reach
  <2> QED BY <2>1, <2>2, FollowsLater DEF Ordered
<1>2. CASE Interfere(rows[i], rows[j])
  <2>1. CASE rows[i].writes \cap Support(rows[j]) # {}
    BY <2>1, WritesAreOrdered
  <2>2. CASE rows[j].writes \cap Support(rows[i]) # {}
    <3>1. PICK k \in rows[j].writes : k \in rows[i].reads \/ k \in rows[i].writes
      BY <2>2 DEF Support
    <3>2. CASE k \in rows[i].reads
      BY <3>1, <3>2, ReadsAreOrdered
    <3>3. CASE k \in rows[i].writes
      BY <3>1, <3>3, WritesAreOrdered DEF Support
    <3> QED BY <3>1, <3>2, <3>3
  <2> QED BY <1>2, <2>1, <2>2 DEF Interfere
<1>3. CASE rows[i].link # Null /\ rows[i].link = rows[j].link
  BY <1>3, LinksAreOrdered
<1>4. CASE rows[j].op = "barrier"
  BY <1>1, <1>4 DEF GraphInv, AfterAll
<1>5. CASE /\ rows[j].op = "control" /\ rows[j].condition # Null
           /\ rows[i].op = "measure" /\ rows[i].out = rows[j].condition
           /\ \A k \in (i + 1)..(j - 1) :
                 ~ (rows[k].op = "measure" /\ rows[k].out = rows[j].condition)
  <2>1. <<i, j>> \in edges
    BY <1>5 DEF GraphInv, AfterMeasurement, Measures
  <2> QED BY <2>1, <1>1
<1> QED BY <1>2, <1>3, <1>4, <1>5 DEF Conflict
-----------------------------------------------------------------------------
(* Kahn's order.                                                            *)
\* Kahn's order takes the rows as they are in the source.
LEMMA SourceOrder ==
    ASSUME rows \in Seq(Rows), Forward(edges, Len(rows))
    PROVE  Topo = [n \in Nodes |-> n]
<1> DEFINE N == Len(rows)
           V == Seq(Nat)
           Next(before) ==
             LET done == ToSet(before)
                 ready == {n \in Nodes \ done : Pred(n) \subseteq done}
             IN  IF ready = {} THEN before ELSE Append(before, Min(ready))
           B == [i \in 0..N |-> [f \in [0..N -> V] |->
                   IF i = 0 THEN <<>> ELSE Next(f[i - 1])]]
           Solves(sorted) ==
             sorted = [i \in 0..N |->
               IF i = 0 THEN <<>>
               ELSE LET done == ToSet(sorted[i - 1])
                        ready == {n \in Nodes \ done : Pred(n) \subseteq done}
                    IN  IF ready = {} THEN sorted[i - 1]
                        ELSE Append(sorted[i - 1], Min(ready))]
           First(i) == [n \in 1..i |-> n]
<1>1. N \in Nat /\ Nodes = 1..N
  BY NodesAreNumbers
<1>2. \A n \in Nodes : Pred(n) \subseteq 1..(n - 1)
  <2> SUFFICES ASSUME NEW n \in Nodes, NEW m \in Pred(n) PROVE m \in 1..(n - 1)
    OBVIOUS
  <2>1. m \in Nodes /\ <<m, n>> \in edges
    BY DEF Pred
  <2>2. <<m, n>>[1] < <<m, n>>[2]
    BY <2>1 DEF Forward
  <2> QED BY <2>1, <2>2, <1>1
<1> HIDE DEF N
<1>3. ASSUME NEW i \in 1..N PROVE Next(First(i - 1)) = First(i)
  <2>1. First(i - 1) \in Seq(Nat) /\ Len(First(i - 1)) = i - 1
    BY <1>1
  <2>2. ToSet(First(i - 1)) = 1..(i - 1)
    BY <1>1 DEF ToSet
  <2> DEFINE ready == {n \in Nodes \ (1..(i - 1)) : Pred(n) \subseteq 1..(i - 1)}
  <2>3. i \in ready /\ \A n \in ready : i <= n /\ n \in Nat
    BY <1>1, <1>2
  <2> HIDE DEF ready
  <2>4. Min(ready) = i
    <3>1. ready \subseteq Int
      BY <2>3
    <3> QED BY <2>3, <3>1, LeastIsMin
  <2>5. Next(First(i - 1)) = Append(First(i - 1), i)
    BY <2>2, <2>3, <2>4 DEF ready
  <2>6. Append(First(i - 1), i) = First(i)
    BY <2>1, <1>1
  <2> QED BY <2>5, <2>6
<1> DEFINE f == [i \in 0..N |-> First(i)]
<1>4. f = [i \in 0..N |-> IF i = 0 THEN <<>> ELSE Next(f[i - 1])]
  <2>1. \A i \in 1..N : i \in 0..N /\ i - 1 \in 0..N
    BY <1>1
  <2>2. First(0) = <<>>
    OBVIOUS
  <2> HIDE DEF Next, First
  <2>3. \A i \in 0..N : First(i) = IF i = 0 THEN <<>> ELSE Next(f[i - 1])
    BY <2>1, <2>2, <1>3, <1>1
  <2> QED BY <2>3
<1>5. Solves(f)
  BY <1>4
<1>6. \E sorted : Solves(sorted)
  <2> HIDE DEF Solves, f
  <2> QED BY <1>5
<1> DEFINE sorted == CHOOSE s : Solves(s)
<1>7. Solves(sorted)
  <2> HIDE DEF Solves, f
  <2> QED BY <1>6
<1>8. Topo = sorted[N]
  BY DEF Topo, N
<1> HIDE DEF sorted
<1>9. \A i \in 0..N : sorted[i] = IF i = 0 THEN <<>> ELSE Next(sorted[i - 1])
  BY <1>7
<1> HIDE DEF Next, Solves, f
<1> DEFINE S == {i \in Nat : i <= N => sorted[i] = First(i)}
<1>10. 0 \in S
  <2>1. First(0) = <<>>
    OBVIOUS
  <2> HIDE DEF First
  <2>2. 0 \in 0..N
    BY <1>1
  <2>3. sorted[0] = <<>>
    BY <2>2, <1>9
  <2> QED BY <2>1, <2>3
<1>11. ASSUME NEW i \in Nat, i \in S PROVE i + 1 \in S
  <2> HIDE DEF First
  <2> SUFFICES ASSUME i + 1 <= N PROVE sorted[i + 1] = First(i + 1)
    OBVIOUS
  <2>1. i + 1 \in 1..N /\ i + 1 \in 0..N /\ (i + 1) - 1 = i
    BY <1>1
  <2>2. sorted[i + 1] = Next(sorted[i])
    BY <2>1, <1>9
  <2>3. sorted[i] = First(i)
    BY <1>11, <2>1, <1>1
  <2>4. Next(First(i)) = First(i + 1)
    BY <2>1, <1>3
  <2> QED BY <2>2, <2>3, <2>4
<1> HIDE DEF S
<1>12. N \in S
  BY <1>1, <1>10, <1>11, SetInduction
<1> QED BY <1>1, <1>8, <1>12 DEF S

\* The edges go forward, conflicts are ordered, and so is the order of analyze.
LEMMA GraphIsOrdered == GraphInv => ConflictsAreOrdered
<1> SUFFICES ASSUME GraphInv PROVE ConflictsAreOrdered
  OBVIOUS
<1>1. rows \in Seq(Rows) /\ Forward(edges, Len(rows))
  BY DEF GraphInv, GraphTypeOK
<1>2. \A e \in edges : e[1] < e[2]
  BY <1>1 DEF Forward
<1>3. Topo = [n \in Nodes |-> n]
  BY <1>1, SourceOrder
<1> QED BY <1>2, <1>3, ConflictsOrdered DEF ConflictsAreOrdered

-----------------------------------------------------------------------------
(* The list scheduler.                                                      *)
Accs ==
    [done : SUBSET Nodes, start : [Nodes -> Nat], free : [Targets \cup {Null} -> Nat]]

\* when a row that waits for p hears that it has ended
Arrival(acc, place, time, p, n) == acc.start[p] + rows[p].cost + Delay(place, time, p, n)

\* when it has heard of all it waits for
ReadyAt(acc, place, time, n) ==
    Largest({acc.start[p] + rows[p].cost + Delay(place, time, p, n) : p \in Pred(n)})

Heard(acc, place, time, n, ready) ==
    ready \in Nat /\ \A p \in Pred(n) : Arrival(acc, place, time, p, n) <= ready

AfterPreds(acc, place, time) ==
    \A j \in acc.done : \A i \in Pred(j) :
        i \in acc.done /\ Arrival(acc, place, time, i, j) <= acc.start[j]

OneAtATime(acc, place) ==
    \A i, j \in acc.done : i # j /\ place[i] = place[j] =>
        \/ acc.start[i] + rows[i].cost <= acc.start[j]
        \/ acc.start[j] + rows[j].cost <= acc.start[i]

FreeAfterAll(acc, place) ==
    \A i \in acc.done : acc.start[i] + rows[i].cost <= acc.free[place[i]]

FreeAfterOne(acc, place) ==
    \A t \in Targets \cup {Null} :
        \/ acc.free[t] = 0
        \/ \E i \in acc.done : place[i] = t /\ acc.free[t] = acc.start[i] + rows[i].cost

Sensible(acc, place, time) ==
    /\ acc \in Accs /\ AfterPreds(acc, place, time) /\ OneAtATime(acc, place)
    /\ FreeAfterAll(acc, place) /\ FreeAfterOne(acc, place)

\* the rows and edges of a graph
GraphShape ==
    /\ rows \in Seq(Rows) /\ Forward(edges, Len(rows))
    /\ entangled \in [Objects -> SUBSET Objects]

\* What a row and the rows it waits for are.
LEMMA ShapeFacts ==
    ASSUME GraphShape
    PROVE  /\ Len(rows) \in Nat /\ Nodes = 1..Len(rows) /\ IsFiniteSet(Nodes)
           /\ \A n \in Nodes : rows[n] \in Rows /\ rows[n].cost \in Nat
           /\ \A n \in Nodes : \A p \in Pred(n) : p \in Nodes /\ p < n
           /\ \A n \in Nodes : \A s \in Succ(n) : s \in Nodes /\ n < s
           /\ \A n \in Nodes : IsFiniteSet(Pred(n)) /\ IsFiniteSet(Succ(n))
<1>1. Len(rows) \in Nat /\ Nodes = 1..Len(rows)
  BY NodesAreNumbers DEF GraphShape
<1>2. IsFiniteSet(Nodes)
  BY <1>1, FS_Interval
<1>3. \A n \in Nodes : rows[n] \in Rows
  BY <1>1 DEF GraphShape
<1>4. \A n \in Nodes : rows[n].cost \in Nat
  BY <1>3, RowTypes
<1>5. \A x, y \in Nodes : <<x, y>> \in edges => x < y
  <2> SUFFICES ASSUME NEW x \in Nodes, NEW y \in Nodes, <<x, y>> \in edges PROVE x < y
    OBVIOUS
  <2>1. <<x, y>>[1] < <<x, y>>[2]
    BY DEF GraphShape, Forward
  <2> QED BY <2>1
<1>6. \A n \in Nodes : Pred(n) \in SUBSET Nodes /\ Succ(n) \in SUBSET Nodes
  BY DEF Pred, Succ
<1>7. \A n \in Nodes : IsFiniteSet(Pred(n)) /\ IsFiniteSet(Succ(n))
  BY <1>2, <1>6, FS_Subset
<1>8. \A n \in Nodes : /\ \A p \in Pred(n) : p \in Nodes /\ p < n
                       /\ \A s \in Succ(n) : s \in Nodes /\ n < s
  BY <1>5 DEF Pred, Succ
<1> QED BY <1>1, <1>2, <1>3, <1>4, <1>7, <1>8

\* A message takes its time or none.
LEMMA DelayType ==
    ASSUME NEW place, NEW time \in Nat, NEW p, NEW n
    PROVE  Delay(place, time, p, n) \in Nat
  BY DEF Delay

\* When a row can start: not before it hears of all it waits for.
LEMMA ReadyTime ==
    ASSUME GraphShape, NEW acc \in Accs, NEW place, NEW time \in Nat, NEW n \in Nodes
    PROVE  LET ready == ReadyAt(acc, place, time, n)
           IN  /\ ready \in Nat
               /\ \A p \in Pred(n) : Arrival(acc, place, time, p, n) <= ready
               /\ ready = 0 \/ \E p \in Pred(n) : ready = Arrival(acc, place, time, p, n)
<1> DEFINE f == [p \in Pred(n) |-> Arrival(acc, place, time, p, n)]
<1>1. f \in [Pred(n) -> Nat]
  <2>1. \A p \in Pred(n) : p \in Nodes /\ rows[p].cost \in Nat
    BY ShapeFacts
  <2>2. \A p \in Pred(n) : acc.start[p] \in Nat
    BY <2>1 DEF Accs
  <2>3. \A p \in Pred(n) : Arrival(acc, place, time, p, n) \in Nat
    BY <2>1, <2>2, DelayType DEF Arrival
  <2> QED BY <2>3
<1>2. {acc.start[p] + rows[p].cost + Delay(place, time, p, n) : p \in Pred(n)}
      = {f[p] : p \in Pred(n)}
  BY DEF Arrival
<1>3. \A p \in Pred(n) : f[p] = Arrival(acc, place, time, p, n)
  OBVIOUS
<1>4. IsFiniteSet(Pred(n))
  BY ShapeFacts
<1> HIDE DEF f
<1>5. LET M == Max({0} \cup {f[p] : p \in Pred(n)})
      IN  M \in Nat /\ (\A p \in Pred(n) : f[p] <= M) /\ (M = 0 \/ \E p \in Pred(n) : M = f[p])
  BY <1>1, <1>4, GreatestValue
<1> QED BY <1>2, <1>3, <1>5 DEF Largest, ReadyAt

\* What is said of a row's start: after those it waits for, and when its target is free.
LEMMA PutKeeps ==
    ASSUME GraphShape, NEW place \in Placements, NEW time \in Nat, NEW acc,
           Sensible(acc, place, time), NEW n \in Nodes, n \notin acc.done, Pred(n) \subseteq acc.done,
           NEW ready, Heard(acc, place, time, n, ready)
    PROVE  /\ Sensible(Put(acc, n, place[n], ready), place, time)
           /\ Put(acc, n, place[n], ready).done = acc.done \cup {n}
<1> DEFINE t == place[n]
           begin == Max({ready, acc.free[t]})
           c == rows[n].cost
           new == Put(acc, n, place[n], ready)
<1> USE DEF Heard
<1>1. /\ acc \in Accs /\ AfterPreds(acc, place, time) /\ OneAtATime(acc, place)
      /\ FreeAfterAll(acc, place) /\ FreeAfterOne(acc, place)
  BY DEF Sensible
<1>2. /\ acc.done \subseteq Nodes /\ acc.start \in [Nodes -> Nat]
      /\ acc.free \in [Targets \cup {Null} -> Nat]
  BY <1>1 DEF Accs
<1>3. c \in Nat /\ \A i \in Nodes : rows[i].cost \in Nat
  BY ShapeFacts
<1>4. \A i \in Nodes : place[i] \in Targets \cup {Null}
  BY DEF Placements
<1>5. begin \in Nat /\ ready <= begin /\ acc.free[t] <= begin
  <2>1. acc.free[t] \in Nat
    BY <1>2, <1>4
  <2> QED BY <2>1, GreaterOfTwo
<1>6. new = [done |-> acc.done \cup {n}, start |-> [acc.start EXCEPT ![n] = begin],
             free |-> [acc.free EXCEPT ![t] = begin + c]]
  <2>1. acc = [done |-> acc.done, start |-> acc.start, free |-> acc.free]
    BY <1>1 DEF Accs
  <2>2. new = [acc EXCEPT !.done = @ \cup {n}, !.start[n] = begin, !.free[t] = begin + c]
    BY DEF Put
  <2> HIDE DEF begin, new, c, t
  <2> DEFINE d == acc.done
             s == acc.start
             f == acc.free
  <2>3. acc = [done |-> d, start |-> s, free |-> f]
    BY <2>1
  <2> HIDE DEF d, s, f
  <2>4. new = [done |-> d \cup {n}, start |-> [s EXCEPT ![n] = begin],
               free |-> [f EXCEPT ![t] = begin + c]]
    BY <2>2, <2>3
  <2> QED BY <2>4 DEF d, s, f
<1> HIDE DEF begin
<1>7. /\ new \in Accs /\ new.done = acc.done \cup {n}
      /\ \A i \in Nodes : new.start[i] = IF i = n THEN begin ELSE acc.start[i]
      /\ \A u \in Targets \cup {Null} :
            new.free[u] = IF u = t THEN begin + c ELSE acc.free[u]
  <2>1. new \in Accs
    BY <1>2, <1>3, <1>4, <1>5, <1>6 DEF Accs
  <2> QED BY <2>1, <1>2, <1>6
<1> HIDE DEF new, c
<1>9. n \notin acc.done /\ \A i \in Nodes : \A p \in Pred(i) : p \in Nodes /\ p < i
  BY ShapeFacts
<1>10. AfterPreds(new, place, time)
  <2> SUFFICES ASSUME NEW j \in new.done, NEW i \in Pred(j)
               PROVE  i \in new.done /\ Arrival(new, place, time, i, j) <= new.start[j]
    BY DEF AfterPreds
  <2>1. CASE j = n
    <3>1. i \in acc.done /\ i # n /\ i \in Nodes
      BY <1>9, <1>2, <2>1
    <3>2. Arrival(new, place, time, i, j) = Arrival(acc, place, time, i, n)
      BY <3>1, <1>7, <2>1 DEF Arrival
    <3>3. Arrival(acc, place, time, i, n) \in Nat
      BY <3>1, <1>2, <1>3, DelayType DEF Arrival
    <3>4. Arrival(acc, place, time, i, n) <= begin
      BY <3>3, <1>5, <2>1
    <3> QED BY <3>1, <3>2, <3>4, <1>7, <2>1
  <2>2. CASE j \in acc.done
    <3>1. i \in acc.done /\ i # n /\ j # n /\ i \in Nodes /\ j \in Nodes
      BY <1>1, <1>2, <1>9, <2>2 DEF AfterPreds
    <3>2. Arrival(acc, place, time, i, j) <= acc.start[j]
      BY <1>1, <2>2 DEF AfterPreds
    <3>3. Arrival(new, place, time, i, j) = Arrival(acc, place, time, i, j)
      BY <3>1, <1>7 DEF Arrival
    <3> QED BY <3>1, <3>2, <3>3, <1>7
  <2> QED BY <2>1, <2>2, <1>7
<1>11. OneAtATime(new, place)
  <2> SUFFICES ASSUME NEW i \in new.done, NEW j \in new.done, i # j, place[i] = place[j]
               PROVE  \/ new.start[i] + rows[i].cost <= new.start[j]
                      \/ new.start[j] + rows[j].cost <= new.start[i]
    BY DEF OneAtATime
  <2>1. \A m \in acc.done : m \in Nodes /\ new.start[m] = acc.start[m] /\ acc.start[m] \in Nat
    BY <1>2, <1>7, <1>9
  <2>2. \A m \in acc.done : place[m] = t => acc.start[m] + rows[m].cost <= begin
    <3> SUFFICES ASSUME NEW m \in acc.done, place[m] = t
                 PROVE  acc.start[m] + rows[m].cost <= begin
      OBVIOUS
    <3>1. acc.start[m] + rows[m].cost <= acc.free[t]
      BY <1>1 DEF FreeAfterAll
    <3>2. acc.free[t] \in Nat /\ rows[m].cost \in Nat
      BY <1>2, <1>3, <1>4, <2>1
    <3> QED BY <3>1, <3>2, <1>5, <2>1
  <2>3. new.start[n] = begin
    BY <1>7
  <2>4. CASE i = n
    BY <2>1, <2>2, <2>3, <2>4, <1>7
  <2>5. CASE j = n
    BY <2>1, <2>2, <2>3, <2>5, <1>7
  <2>6. CASE i \in acc.done /\ j \in acc.done
    BY <2>1, <2>6, <1>1 DEF OneAtATime
  <2> QED BY <2>4, <2>5, <2>6, <1>7
<1>12. FreeAfterAll(new, place)
  <2> SUFFICES ASSUME NEW i \in new.done
               PROVE  new.start[i] + rows[i].cost <= new.free[place[i]]
    BY DEF FreeAfterAll
  <2>1. CASE i = n
    BY <2>1, <1>3, <1>4, <1>5, <1>7 DEF c
  <2>2. CASE i \in acc.done
    <3>1. i \in Nodes /\ i # n /\ acc.start[i] + rows[i].cost <= acc.free[place[i]]
      BY <2>2, <1>1, <1>2, <1>9 DEF FreeAfterAll
    <3>2. acc.free[place[i]] \in Nat /\ acc.start[i] \in Nat /\ rows[i].cost \in Nat
      BY <3>1, <1>2, <1>3, <1>4
    <3>3. CASE place[i] = t
      BY <3>1, <3>2, <3>3, <1>3, <1>4, <1>5, <1>7
    <3>4. CASE place[i] # t
      BY <3>1, <3>4, <1>4, <1>7
    <3> QED BY <3>3, <3>4
  <2> QED BY <2>1, <2>2, <1>7
<1>13. FreeAfterOne(new, place)
  <2> SUFFICES ASSUME NEW u \in Targets \cup {Null}
               PROVE  \/ new.free[u] = 0
                      \/ \E i \in new.done :
                            place[i] = u /\ new.free[u] = new.start[i] + rows[i].cost
    BY DEF FreeAfterOne
  <2>1. CASE u = t
    BY <2>1, <1>7 DEF c
  <2>2. CASE u # t
    <3>1. new.free[u] = acc.free[u]
      BY <2>2, <1>7
    <3>2. \A i \in acc.done : i \in new.done /\ new.start[i] = acc.start[i]
      BY <1>2, <1>7, <1>9
    <3> QED BY <3>1, <3>2, <1>1 DEF FreeAfterOne
  <2> QED BY <2>1, <2>2
<1> QED BY <1>7, <1>10, <1>11, <1>12, <1>13 DEF Sensible, new, begin

\* Nothing is wrong with a schedule of no rows.
LEMMA NothingIsSensible ==
    ASSUME NEW place, NEW time PROVE Sensible(NothingScheduled, place, time)
  BY DEF NothingScheduled, Sensible, Accs, AfterPreds, OneAtATime, FreeAfterAll, FreeAfterOne

\* Nor with one of a row more. The row is taken if those it waits for have been.
LEMMA TakeRowKeeps ==
    ASSUME GraphShape, NEW place \in Placements, NEW time \in Nat, NEW acc,
           Sensible(acc, place, time), NEW n \in Nodes
    PROVE  LET new == TakeRow(acc, n, place, time)
           IN  /\ Sensible(new, place, time) /\ acc.done \subseteq new.done
               /\ Pred(n) \subseteq acc.done => n \in new.done
<1>1. CASE n \in acc.done \/ ~ Pred(n) \subseteq acc.done
  BY <1>1 DEF TakeRow
<1>2. CASE n \notin acc.done /\ Pred(n) \subseteq acc.done
  <2> DEFINE ready == ReadyAt(acc, place, time, n)
             new == Put(acc, n, place[n], ready)
  <2>1. acc \in Accs
    BY DEF Sensible
  <2>2. Heard(acc, place, time, n, ready)
    BY <2>1, ReadyTime DEF Heard
  <2>3. TakeRow(acc, n, place, time) = new
    BY <1>2 DEF TakeRow, ReadyAt
  <2> HIDE DEF ready
  <2>4. n \notin acc.done /\ Pred(n) \subseteq acc.done
    BY <1>2
  <2>5. Sensible(new, place, time) /\ new.done = acc.done \cup {n}
    BY <2>2, <2>4, PutKeeps
  <2> QED BY <2>3, <2>5
<1> QED BY <1>1, <1>2

\* A pass takes the rows one by one.
LEMMA PassTable ==
    ASSUME GraphShape, NEW place \in Placements, NEW time \in Nat, NEW acc,
           Sensible(acc, place, time), NEW order \in [1..Len(rows) -> Nodes]
    PROVE  \E turn :
              /\ turn[0] = acc /\ Pass(acc, order, place, time) = turn[Len(rows)]
              /\ \A i \in 0..Len(rows) : Sensible(turn[i], place, time)
              /\ \A i \in 1..Len(rows) :
                    turn[i] = TakeRow(turn[i - 1], order[i], place, time)
<1> DEFINE N == Len(rows)
           V == {x \in Accs : Sensible(x, place, time)}
           Step == [i \in 1..N |-> [x \in V |-> TakeRow(x, order[i], place, time)]]
           Solves(turn) ==
             turn = [i \in 0..N |->
               IF i = 0 THEN acc ELSE TakeRow(turn[i - 1], order[i], place, time)]
           turn == CHOOSE f : Solves(f)
<1>1. N \in Nat
  BY ShapeFacts
<1>2. acc \in V
  BY DEF Sensible
<1>3. \A i \in 1..N : \A x \in V : TakeRow(x, order[i], place, time) \in V
  <2> SUFFICES ASSUME NEW i \in 1..N, NEW x \in V
               PROVE  TakeRow(x, order[i], place, time) \in V
    OBVIOUS
  <2>1. Sensible(x, place, time) /\ order[i] \in Nodes
    OBVIOUS
  <2>2. Sensible(TakeRow(x, order[i], place, time), place, time)
    BY <2>1, TakeRowKeeps
  <2> QED BY <2>2 DEF Sensible
<1>4. Pass(acc, order, place, time) = turn[N]
  BY DEF Pass
<1>5. \A x \in V : Sensible(x, place, time)
  OBVIOUS
<1> HIDE DEF V, N
<1>6. Step \in Steps(N, V) /\ \A i \in 1..N : \A x \in V :
         Step[i][x] = TakeRow(x, order[i], place, time)
  BY <1>3 DEF Steps
<1> HIDE DEF Step
<1>7. PICK f : IsTable(f, N, V, acc, Step)
  BY <1>1, <1>2, <1>6, StepRecursion
<1>8. \A i \in 0..N : i = 0 \/ (i \in 1..N /\ i - 1 \in 0..N)
  BY <1>1
<1>9. f = [i \in 0..N |-> IF i = 0 THEN acc ELSE TakeRow(f[i - 1], order[i], place, time)]
  <2>1. \A i \in 1..N : f[i] = TakeRow(f[i - 1], order[i], place, time)
    <3> SUFFICES ASSUME NEW i \in 1..N PROVE f[i] = TakeRow(f[i - 1], order[i], place, time)
      OBVIOUS
    <3>1. i - 1 \in 0..N
      BY <1>1
    <3> QED BY <3>1, <1>6, <1>7 DEF IsTable
  <2>2. \A i \in 0..N :
           f[i] = IF i = 0 THEN acc ELSE TakeRow(f[i - 1], order[i], place, time)
    BY <2>1, <1>7, <1>8 DEF IsTable
  <2> QED BY <2>2, <1>7 DEF IsTable
<1>10. Solves(f)
  BY <1>9
<1>11. Solves(turn)
  <2> HIDE DEF Solves
  <2> QED BY <1>10
<1> HIDE DEF turn
<1>12. /\ turn[0] = acc
       /\ \A i \in 1..N : turn[i] = TakeRow(turn[i - 1], order[i], place, time)
  <2>1. \A i \in 0..N :
           turn[i] = IF i = 0 THEN acc ELSE TakeRow(turn[i - 1], order[i], place, time)
    BY <1>11
  <2>2. 0 \in 0..N /\ \A i \in 1..N : i \in 0..N /\ i # 0
    BY <1>1
  <2> HIDE DEF Solves
  <2> QED BY <2>1, <2>2
<1> HIDE DEF Solves
<1>13. 0..N \subseteq {i \in 0..N : turn[i] \in V}
  <2> DEFINE S == {i \in 0..N : turn[i] \in V}
  <2>1. 0 \in S
    BY <1>1, <1>2, <1>12
  <2>2. ASSUME NEW i \in 1..N, i - 1 \in S PROVE i \in S
    <3>1. turn[i] = Step[i][turn[i - 1]]
      BY <2>2, <1>6, <1>12
    <3>2. i \in 0..N
      BY <1>1
    <3> QED BY <2>2, <3>1, <3>2, <1>6 DEF Steps
  <2> HIDE DEF S
  <2>3. 0..N \subseteq S
    BY <1>1, <2>1, <2>2, BoundedInduction
  <2> QED BY <2>3 DEF S
<1>14. \A i \in 0..N : Sensible(turn[i], place, time)
  BY <1>5, <1>13
<1> QED BY <1>4, <1>12, <1>14 DEF N

\* It keeps the rows it is given, and takes each that it finds can be.
LEMMA PassTakes ==
    ASSUME GraphShape, NEW place \in Placements, NEW time \in Nat, NEW acc,
           Sensible(acc, place, time), NEW order \in [1..Len(rows) -> Nodes],
           \A n \in Nodes : \E i \in 1..Len(rows) : order[i] = n
    PROVE  LET new == Pass(acc, order, place, time)
           IN  /\ Sensible(new, place, time) /\ acc.done \subseteq new.done
               /\ \A n \in Nodes : Pred(n) \subseteq acc.done => n \in new.done
<1> DEFINE N == Len(rows)
<1>1. N \in Nat
  BY ShapeFacts
<1>2. PICK turn :
         /\ turn[0] = acc /\ Pass(acc, order, place, time) = turn[N]
         /\ \A i \in 0..N : Sensible(turn[i], place, time)
         /\ \A i \in 1..N : turn[i] = TakeRow(turn[i - 1], order[i], place, time)
  BY PassTable
<1>3. \A n \in Nodes : \E i \in 1..N : order[i] = n
  OBVIOUS
<1>4. \A i \in 1..N : order[i] \in Nodes
  OBVIOUS
<1> HIDE DEF N
<1>5. ASSUME NEW i \in 1..N
      PROVE  /\ turn[i - 1].done \subseteq turn[i].done
             /\ Pred(order[i]) \subseteq turn[i - 1].done => order[i] \in turn[i].done
  <2>1. i - 1 \in 0..N
    BY <1>1
  <2>2. Sensible(turn[i - 1], place, time)
    BY <1>2, <2>1
  <2> QED BY <1>2, <1>4, <2>2, TakeRowKeeps
<1> DEFINE S == {i \in 0..N : acc.done \subseteq turn[i].done /\
                    \A j \in 1..i : Pred(order[j]) \subseteq acc.done
                                       => order[j] \in turn[i].done}
<1>6. 0 \in S
  <2>1. 1..0 = {}
    OBVIOUS
  <2> QED BY <2>1, <1>1, <1>2
<1>7. ASSUME NEW i \in 1..N, i - 1 \in S PROVE i \in S
  <2>1. \A j \in 1..i : j = i \/ j \in 1..(i - 1)
    OBVIOUS
  <2>2. i \in 0..N
    BY <1>1
  <2> QED BY <1>5, <1>7, <2>1, <2>2
<1> HIDE DEF S
<1>8. N \in S
  <2>1. 0..N \subseteq S
    BY <1>1, <1>6, <1>7, BoundedInduction
  <2> QED BY <2>1, <1>1
<1>9. N \in 0..N
  BY <1>1
<1> QED BY <1>2, <1>3, <1>8, <1>9 DEF S

-----------------------------------------------------------------------------
(* Start times in general.                                                  *)
\* The time a schedule takes.
LEMMA MakespanFacts ==
    ASSUME GraphShape, NEW begin \in [Nodes -> Nat]
    PROVE  /\ Makespan(begin) \in Nat
           /\ \A n \in Nodes : begin[n] + rows[n].cost <= Makespan(begin)
           /\ Makespan(begin) = 0 \/ \E n \in Nodes : Makespan(begin) = begin[n] + rows[n].cost
<1> DEFINE f == [n \in Nodes |-> begin[n] + rows[n].cost]
<1>1. f \in [Nodes -> Nat]
  BY ShapeFacts
<1>2. \A n \in Nodes : f[n] = begin[n] + rows[n].cost
  OBVIOUS
<1>3. {begin[n] + rows[n].cost : n \in Nodes} = {f[n] : n \in Nodes}
  OBVIOUS
<1>4. IsFiniteSet(Nodes)
  BY ShapeFacts
<1> HIDE DEF f
<1>5. LET M == Max({0} \cup {f[n] : n \in Nodes})
      IN  M \in Nat /\ (\A n \in Nodes : f[n] <= M) /\ (M = 0 \/ \E n \in Nodes : M = f[n])
  BY <1>1, <1>4, GreatestValue
<1> QED BY <1>2, <1>3, <1>5 DEF Makespan, Largest

\* Earlier starts, no longer a schedule.
LEMMA EarlierIsShorter ==
    ASSUME GraphShape, NEW a \in [Nodes -> Nat], NEW b \in [Nodes -> Nat],
           \A n \in Nodes : a[n] <= b[n]
    PROVE  Makespan(a) <= Makespan(b)
<1>1. Makespan(a) \in Nat /\ Makespan(b) \in Nat
  BY MakespanFacts
<1>2. CASE Makespan(a) = 0
  BY <1>1, <1>2
<1>3. CASE \E n \in Nodes : Makespan(a) = a[n] + rows[n].cost
  <2>1. PICK n \in Nodes : Makespan(a) = a[n] + rows[n].cost
    BY <1>3
  <2>2. b[n] + rows[n].cost <= Makespan(b)
    BY MakespanFacts
  <2>3. a[n] \in Nat /\ b[n] \in Nat /\ rows[n].cost \in Nat /\ a[n] <= b[n]
    BY ShapeFacts
  <2> QED BY <1>1, <2>1, <2>2, <2>3
<1> QED BY <1>2, <1>3, MakespanFacts

\* A list of all rows, each of them once.
LEMMA ListsOfRows ==
    ASSUME GraphShape
    PROVE  /\ SetToSeqs(Nodes) =
                {f \in [1..Len(rows) -> Nodes] :
                    \A i, j \in 1..Len(rows) : i # j => f[i] # f[j]}
           /\ \A f \in SetToSeqs(Nodes) :
                 \A n \in Nodes : \E i \in 1..Len(rows) : f[i] = n
<1>1. Len(rows) \in Nat /\ Nodes = 1..Len(rows)
  BY ShapeFacts
<1>2. Cardinality(Nodes) = Len(rows)
  <2> DEFINE N == Len(rows)
  <2>1. N \in Nat /\ Nodes = 1..N
    BY <1>1
  <2> HIDE DEF N
  <2>2. Cardinality(1..N) = N
    BY <2>1, FS_Interval
  <2> QED BY <2>1, <2>2 DEF N
<1>3. SetToSeqs(Nodes) = {f \in [1..Len(rows) -> Nodes] :
                             \A i, j \in 1..Len(rows) : i # j => f[i] # f[j]}
  BY <1>2 DEF SetToSeqs
<1>4. ASSUME NEW f \in SetToSeqs(Nodes)
      PROVE  \A n \in Nodes : \E i \in 1..Len(rows) : f[i] = n
  <2> DEFINE N == Len(rows)
  <2>1. f \in [1..N -> 1..N] /\ \A i, j \in 1..N : i # j => f[i] # f[j]
    BY <1>1, <1>3
  <2> HIDE DEF N
  <2>2. N \in Nat
    BY <1>1 DEF N
  <2>3. \A n \in 1..N : \E i \in 1..N : f[i] = n
    BY <2>1, <2>2, ListsAll
  <2> QED BY <2>3, <1>1 DEF N
<1> QED BY <1>3, <1>4

\* turn is what the rows taken one by one in the order lead to
Turns(turn, order, place, time) ==
    /\ turn[0] = NothingScheduled
    /\ Pass(NothingScheduled, order, place, time) = turn[Len(rows)]
    /\ \A i \in 0..Len(rows) :
          /\ Sensible(turn[i], place, time)
          /\ turn[i].done = {order[j] : j \in 1..i}
    /\ \A i \in 1..Len(rows) :
          /\ turn[i] = TakeRow(turn[i - 1], order[i], place, time)
          /\ order[i] \in Nodes /\ order[i] \notin turn[i - 1].done
          /\ Pred(order[i]) \subseteq turn[i - 1].done

\* A pass over the rows in an order the graph allows takes each at its turn.
LEMMA OrderedPass ==
    ASSUME GraphShape, NEW place \in Placements, NEW time \in Nat, NEW order \in Orders
    PROVE  \E turn : Turns(turn, order, place, time)
<1> DEFINE N == Len(rows)
<1>1. N \in Nat /\ Nodes = 1..N
  BY ShapeFacts
<1>2. /\ order \in [1..N -> Nodes] /\ \A i, j \in 1..N : i # j => order[i] # order[j]
      /\ \A n \in Nodes : \E i \in 1..N : order[i] = n
      /\ \A i, j \in Nodes : i > j => order[i] \notin Pred(order[j])
  BY ListsOfRows DEF Orders
<1>3. Sensible(NothingScheduled, place, time)
  BY NothingIsSensible
<1>4. PICK turn :
         /\ turn[0] = NothingScheduled
         /\ Pass(NothingScheduled, order, place, time) = turn[N]
         /\ \A i \in 0..N : Sensible(turn[i], place, time)
         /\ \A i \in 1..N : turn[i] = TakeRow(turn[i - 1], order[i], place, time)
  BY <1>2, <1>3, PassTable
<1> HIDE DEF N
<1> DEFINE First(i) == {order[j] : j \in 1..i}
<1>5. ASSUME NEW i \in 1..N
      PROVE  /\ order[i] \in Nodes /\ order[i] \notin First(i - 1)
             /\ Pred(order[i]) \subseteq First(i - 1)
             /\ First(i) = First(i - 1) \cup {order[i]}
  <2>1. \A j \in 1..(i - 1) : j \in 1..N /\ j # i
    BY <1>1
  <2>2. \A j \in 1..i : j = i \/ j \in 1..(i - 1)
    OBVIOUS
  <2>3. i \in 1..i /\ 1..(i - 1) \subseteq 1..i
    OBVIOUS
  <2>4. First(i) = First(i - 1) \cup {order[i]}
    BY <2>2, <2>3
  <2>5. ASSUME NEW p \in Pred(order[i]) PROVE p \in First(i - 1)
    <3>1. p \in Nodes /\ p < order[i]
      BY <1>2, ShapeFacts
    <3>2. PICK k \in 1..N : order[k] = p
      BY <1>2, <3>1
    <3>3. ~ (k > i) /\ k # i
      BY <1>1, <1>2, <3>1, <3>2
    <3>4. k \in 1..(i - 1)
      BY <3>3, <1>1
    <3> QED BY <3>2, <3>4
  <2> QED BY <1>2, <2>1, <2>4, <2>5
<1> HIDE DEF First
<1> DEFINE S == {i \in 0..N : turn[i].done = First(i)}
<1>6. 0 \in S
  <2>1. First(0) = {} /\ NothingScheduled.done = {}
    BY DEF First, NothingScheduled
  <2>2. 0 \in 0..N
    BY <1>1
  <2>3. turn[0].done = First(0)
    BY <2>1, <1>4
  <2> QED BY <2>2, <2>3
<1>7. ASSUME NEW i \in 1..N, i - 1 \in S PROVE i \in S
  <2>1. turn[i] = TakeRow(turn[i - 1], order[i], place, time)
    BY <1>4
  <2>2. order[i] \notin turn[i - 1].done /\ Pred(order[i]) \subseteq turn[i - 1].done
    BY <1>5, <1>7
  <2>3. Sensible(turn[i - 1], place, time) /\ turn[i - 1] \in Accs
    BY <1>1, <1>4 DEF Sensible
  <2>4. \A x \in Accs : \A n \in Nodes : \A t, r : Put(x, n, t, r).done = x.done \cup {n}
    BY DEF Put, Accs
  <2>5. turn[i].done = turn[i - 1].done \cup {order[i]}
    BY <2>1, <2>2, <2>3, <2>4, <1>5 DEF TakeRow
  <2>6. i \in 0..N
    BY <1>1
  <2> QED BY <2>5, <2>6, <1>5, <1>7
<1> HIDE DEF S
<1>8. 0..N \subseteq S
  BY <1>1, <1>6, <1>7, BoundedInduction
<1>9. \A i \in 0..N : turn[i].done = First(i)
  BY <1>8 DEF S
<1>10. \A i \in 1..N : i - 1 \in 0..N
  BY <1>1
<1>11. \A i \in 1..N : /\ order[i] \in Nodes /\ order[i] \notin turn[i - 1].done
                       /\ Pred(order[i]) \subseteq turn[i - 1].done
  BY <1>5, <1>9, <1>10
<1> QED BY <1>4, <1>9, <1>11 DEF N, First, Turns
-----------------------------------------------------------------------------
(* Every list of rows that the graph allows is taken in one pass.           *)
\* The rows in the order of some start times, of those that start together
\* the ones that cost nothing first.
Earlier(begin, x, y) ==
    \/ begin[x] < begin[y]
    \/ /\ begin[x] = begin[y]
       /\ \/ rows[x].cost = 0 /\ rows[y].cost > 0
          \/ (rows[x].cost = 0 <=> rows[y].cost = 0) /\ x < y

\* That is an order of all rows.
LEMMA EarlierOrders ==
    ASSUME NEW begin, NEW x \in Nat, NEW y \in Nat,
           begin[x] \in Nat, begin[y] \in Nat,
           rows[x].cost \in Nat, rows[y].cost \in Nat
    PROVE  /\ x # y => Earlier(begin, x, y) \/ Earlier(begin, y, x)
           /\ Earlier(begin, x, y) => x # y /\ begin[x] <= begin[y]
           /\ Earlier(begin, x, y) /\ begin[x] = begin[y] =>
                 rows[x].cost = 0 \/ rows[y].cost > 0
           /\ Earlier(begin, x, y) /\ begin[x] = begin[y]
              /\ (rows[x].cost = 0 <=> rows[y].cost = 0) => x < y
           /\ \A z \in Nat :
                 /\ begin[z] \in Nat /\ rows[z].cost \in Nat
                 /\ Earlier(begin, x, y) /\ Earlier(begin, y, z)
                 => Earlier(begin, x, z)
<1>1. x # y => Earlier(begin, x, y) \/ Earlier(begin, y, x)
  BY DEF Earlier
<1>2. Earlier(begin, x, y) => x # y /\ begin[x] <= begin[y]
  BY DEF Earlier
<1>3. Earlier(begin, x, y) /\ begin[x] = begin[y] => rows[x].cost = 0 \/ rows[y].cost > 0
  BY DEF Earlier
<1>4. Earlier(begin, x, y) /\ begin[x] = begin[y]
      /\ (rows[x].cost = 0 <=> rows[y].cost = 0) => x < y
  BY DEF Earlier
<1>5. ASSUME NEW z \in Nat, begin[z] \in Nat, rows[z].cost \in Nat,
             Earlier(begin, x, y), Earlier(begin, y, z)
      PROVE  Earlier(begin, x, z)
  BY <1>5 DEF Earlier
<1> QED BY <1>1, <1>2, <1>3, <1>4, <1>5

\* A row taken after the rows that some other start times put before it starts
\* no later than they say.
LEMMA TakenEarly ==
    ASSUME GraphShape, NEW place \in Placements, NEW acc, Sensible(acc, place, 0),
           NEW n \in Nodes, n \notin acc.done, Pred(n) \subseteq acc.done,
           NEW begin \in [Nodes -> Nat], Feasible(begin, place, 0),
           \A i \in acc.done : acc.start[i] <= begin[i] /\ Earlier(begin, i, n)
    PROVE  \A i \in acc.done \cup {n} : TakeRow(acc, n, place, 0).start[i] <= begin[i]
<1> DEFINE ready == ReadyAt(acc, place, 0, n)
           at == Max({ready, acc.free[place[n]]})
<1>1. acc \in Accs /\ FreeAfterOne(acc, place)
  BY DEF Sensible
<1>2. acc.done \subseteq Nodes /\ acc.start \in [Nodes -> Nat]
      /\ acc.free \in [Targets \cup {Null} -> Nat]
  BY <1>1 DEF Accs
<1>3. \A i \in Nodes : rows[i].cost \in Nat
  BY ShapeFacts
<1>4. place[n] \in Targets \cup {Null}
  BY DEF Placements
<1>5. ready \in Nat /\ (ready = 0 \/ \E p \in Pred(n) : ready = Arrival(acc, place, 0, p, n))
  BY <1>1, ReadyTime
<1>6. TakeRow(acc, n, place, 0) = Put(acc, n, place[n], ready)
  BY DEF TakeRow, ReadyAt
<1> HIDE DEF ready
<1>7. ready <= begin[n]
  <2>1. CASE ready = 0
    BY <2>1
  <2>2. ASSUME NEW p \in Pred(n), ready = Arrival(acc, place, 0, p, n) PROVE ready <= begin[n]
    <3>1. p \in Nodes /\ p \in acc.done /\ <<p, n>> \in edges
      BY DEF Pred
    <3>2. begin[p] + rows[p].cost + Delay(place, 0, p, n) <= begin[n]
      BY <3>1 DEF Feasible
    <3>3. acc.start[p] <= begin[p] /\ acc.start[p] \in Nat /\ begin[p] \in Nat
          /\ rows[p].cost \in Nat /\ Delay(place, 0, p, n) = 0 /\ begin[n] \in Nat
      BY <3>1, <1>2, <1>3 DEF Delay
    <3>4. ready = acc.start[p] + rows[p].cost + Delay(place, 0, p, n)
      BY <2>2 DEF Arrival
    <3> QED BY <3>2, <3>3, <3>4
  <2> QED BY <2>1, <2>2, <1>5
<1>8. acc.free[place[n]] <= begin[n]
  <2>1. CASE acc.free[place[n]] = 0
    BY <2>1
  <2>2. ASSUME NEW i \in acc.done, place[i] = place[n],
               acc.free[place[n]] = acc.start[i] + rows[i].cost
        PROVE  acc.free[place[n]] <= begin[n]
    <3>1. i \in Nodes /\ i # n
      BY <1>2
    <3>2. \/ begin[i] + rows[i].cost <= begin[n]
          \/ begin[n] + rows[n].cost <= begin[i]
      BY <2>2, <3>1 DEF Feasible
    <3>3. /\ acc.start[i] <= begin[i] /\ acc.start[i] \in Nat
          /\ begin[i] \in Nat /\ begin[n] \in Nat
          /\ rows[i].cost \in Nat /\ rows[n].cost \in Nat
      BY <3>1, <1>2, <1>3
    <3>4. \/ begin[i] < begin[n]
          \/ begin[i] = begin[n] /\ (rows[n].cost = 0 => rows[i].cost = 0)
      BY <3>3 DEF Earlier
    <3>5. begin[i] + rows[i].cost <= begin[n]
      BY <3>2, <3>3, <3>4
    <3> QED BY <2>2, <3>3, <3>5
  <2> QED BY <2>1, <2>2, <1>1, <1>4 DEF FreeAfterOne
<1>9. at <= begin[n]
  <2>1. acc.free[place[n]] \in Nat
    BY <1>2, <1>4
  <2> QED BY <2>1, <1>5, <1>7, <1>8, GreaterOfTwo
<1>10. TakeRow(acc, n, place, 0).start = [acc.start EXCEPT ![n] = at]
  BY <1>1, <1>6 DEF Put, Accs
<1> HIDE DEF at
<1>11. \A i \in acc.done : i \in Nodes /\ i # n
  BY <1>2
<1>12. \A i \in acc.done \cup {n} :
          TakeRow(acc, n, place, 0).start[i] = IF i = n THEN at ELSE acc.start[i]
  BY <1>2, <1>10, <1>11
<1> QED BY <1>9, <1>11, <1>12

\* No start times without a contradiction beat all orders.
LEMMA NoneBeatsOrders ==
    ASSUME GraphShape, NEW place \in Placements,
           NEW begin \in [Nodes -> Nat], Feasible(begin, place, 0)
    PROVE  \E order \in Orders :
              Makespan(Pass(NothingScheduled, order, place, 0).start) <= Makespan(begin)
<1> DEFINE N == Len(rows)
           R == {e \in Nodes \X Nodes : Earlier(begin, e[1], e[2])}
<1>1. N \in Nat /\ Nodes = 1..N
  BY ShapeFacts
<1>2. \A x, y \in Nodes : <<x, y>> \in R <=> Earlier(begin, x, y)
  OBVIOUS
<1>3. \A x \in Nodes : begin[x] \in Nat /\ x \in Nat /\ rows[x].cost \in Nat
  BY <1>1, ShapeFacts
<1> HIDE DEF R, N
<1>4. PICK order \in [1..N -> 1..N] : ListsOrder(R, order, N)
  <2>1. \A x, y, z \in 1..N : <<x, y>> \in R /\ <<y, z>> \in R => <<x, z>> \in R
    BY <1>1, <1>2, <1>3, EarlierOrders
  <2>2. \A x, y \in 1..N : x # y => <<x, y>> \in R \/ <<y, x>> \in R
    BY <1>1, <1>2, <1>3, EarlierOrders
  <2> QED BY <1>1, <2>1, <2>2, CanBeSorted
<1>5. \A i, j \in 1..N : i < j =>
         order[i] # order[j] /\ Earlier(begin, order[i], order[j])
  <2> SUFFICES ASSUME NEW i \in 1..N, NEW j \in 1..N, i < j
               PROVE  order[i] # order[j] /\ Earlier(begin, order[i], order[j])
    OBVIOUS
  <2>1. <<order[i], order[j]>> \in R
    BY <1>4 DEF ListsOrder
  <2>2. order[i] \in Nodes /\ order[j] \in Nodes
    BY <1>1, <1>4
  <2> QED BY <2>1, <2>2, <1>2, <1>3, EarlierOrders
<1>6. order \in Orders
  <2>1. order \in [1..N -> Nodes] /\ \A i, j \in 1..N : i # j => order[i] # order[j]
    BY <1>1, <1>4, <1>5
  <2>2. order \in SetToSeqs(Nodes)
    BY <2>1, ListsOfRows DEF N
  <2>3. ASSUME NEW i \in Nodes, NEW j \in Nodes, i > j PROVE order[i] \notin Pred(order[j])
    <3> DEFINE x == order[i]
               y == order[j]
    <3>1. x \in Nodes /\ y \in Nodes /\ Earlier(begin, y, x)
      BY <2>1, <2>3, <1>1, <1>5
    <3> HIDE DEF x, y
    <3>2. /\ begin[x] \in Nat /\ begin[y] \in Nat
          /\ rows[x].cost \in Nat /\ rows[y].cost \in Nat /\ Delay(place, 0, x, y) = 0
      BY <3>1, ShapeFacts DEF Delay
    <3>3. SUFFICES ASSUME <<x, y>> \in edges PROVE FALSE
      BY DEF Pred, x, y
    <3>4. begin[x] + rows[x].cost + Delay(place, 0, x, y) <= begin[y]
      BY <3>1, <3>3 DEF Feasible
    <3>5. x < y
      BY <3>1, <3>3, ShapeFacts DEF Pred
    <3>6. x \in Nat /\ y \in Nat
      BY <1>3, <3>1
    <3>7. begin[y] <= begin[x]
      BY <3>1, <3>2, <3>6, EarlierOrders
    <3>8. begin[x] = begin[y] /\ rows[x].cost = 0
      BY <3>2, <3>4, <3>7
    <3>9. rows[y].cost = 0
      BY <3>1, <3>2, <3>6, <3>8, EarlierOrders
    <3> QED BY <3>1, <3>2, <3>5, <3>6, <3>8, <3>9, EarlierOrders
  <2> QED BY <2>2, <2>3 DEF Orders
<1>7. PICK turn : Turns(turn, order, place, 0)
  BY <1>6, OrderedPass
<1> USE DEF Turns, N
<1> DEFINE S == {i \in 0..N : \A m \in turn[i].done : turn[i].start[m] <= begin[m]}
<1>8. 0 \in S
  <2>1. turn[0].done = {} /\ 0 \in 0..N
    BY <1>1, <1>7 DEF NothingScheduled
  <2> QED BY <2>1
<1>9. ASSUME NEW i \in 1..N, i - 1 \in S PROVE i \in S
  <2>1. i \in 0..N /\ i - 1 \in 0..N
    BY <1>1
  <2>2. /\ turn[i - 1].done = {order[j] : j \in 1..(i - 1)}
        /\ turn[i].done = {order[j] : j \in 1..i}
    BY <1>7, <2>1
  <2>3. turn[i].done \subseteq turn[i - 1].done \cup {order[i]}
    <3>1. \A j \in 1..i : j = i \/ j \in 1..(i - 1)
      OBVIOUS
    <3> QED BY <2>2, <3>1
  <2>4. \A j \in 1..(i - 1) : Earlier(begin, order[j], order[i])
    BY <1>1, <1>5
  <2>5. \A m \in turn[i - 1].done :
           turn[i - 1].start[m] <= begin[m] /\ Earlier(begin, m, order[i])
    BY <1>9, <2>2, <2>4
  <2>6. Sensible(turn[i - 1], place, 0)
    BY <1>7, <2>1
  <2>7. \A m \in turn[i - 1].done \cup {order[i]} :
           TakeRow(turn[i - 1], order[i], place, 0).start[m] <= begin[m]
    BY <1>7, <2>5, <2>6, TakenEarly
  <2> QED BY <1>7, <2>1, <2>3, <2>7
<1> HIDE DEF S
<1>10. N \in S /\ N \in 0..N
  <2>1. 0..N \subseteq S
    BY <1>1, <1>8, <1>9, BoundedInduction
  <2> QED BY <1>1, <2>1
<1>11. turn[N].start \in [Nodes -> Nat] /\ turn[N].done = Nodes
  <2>1. turn[N] \in Accs /\ turn[N].done = {order[j] : j \in 1..N}
    BY <1>7, <1>10 DEF Sensible
  <2>2. \A n \in Nodes : \E i \in 1..N : order[i] = n
    BY <1>6, ListsOfRows DEF Orders, N
  <2> QED BY <2>1, <2>2 DEF Accs
<1>12. \A m \in Nodes : turn[N].start[m] <= begin[m]
  BY <1>10, <1>11 DEF S
<1>13. Makespan(turn[N].start) <= Makespan(begin)
  BY <1>11, <1>12, EarlierIsShorter
<1> QED BY <1>6, <1>7, <1>13

-----------------------------------------------------------------------------
(* The recursions of the analysis.                                          *)
IsLargestOn(M, f, S) ==
    /\ M \in Nat /\ \A x \in S : f[x] <= M
    /\ M = 0 \/ \E x \in S : M = f[x]

\* The largest value of a function on some of its finite domain, 0 if there is none.
LEMMA LargestOn ==
    ASSUME NEW D, IsFiniteSet(D), NEW f \in [D -> Nat], NEW S \in SUBSET D
    PROVE  IsLargestOn(Largest(ValuesOn(f, S)), f, S)
<1> DEFINE g == [x \in S |-> f[x]]
<1>1. g \in [S -> Nat] /\ {g[x] : x \in S} = ValuesOn(f, S) /\ \A x \in S : g[x] = f[x]
  BY DEF ValuesOn
<1>2. IsFiniteSet(S)
  BY FS_Subset
<1> HIDE DEF g
<1>3. LET M == Max({0} \cup {g[x] : x \in S})
      IN  M \in Nat /\ (\A x \in S : g[x] <= M) /\ (M = 0 \/ \E x \in S : M = g[x])
  BY <1>1, <1>2, GreatestValue
<1> QED BY <1>1, <1>3 DEF Largest, IsLargestOn

\* The recursion that defines when rows finish has a solution.
LEMMA FinishIsDefined ==
    ASSUME GraphShape
    PROVE  /\ Finish \in [Nodes -> Nat]
           /\ \A n \in Nodes :
                 Finish[n] = rows[n].cost + Largest({Finish[p] : p \in Pred(n)})
<1> DEFINE N == Len(rows)
           Rule(f, n) == rows[n].cost + Largest(ValuesOn(f, Pred(n)))
           B == [n \in 1..N |-> [f \in [1..N -> Nat] |-> Rule(f, n)]]
           Solves(f) == f = [n \in Nodes |-> rows[n].cost + Largest({f[p] : p \in Pred(n)})]
<1>1. N \in Nat /\ Nodes = 1..N /\ IsFiniteSet(Nodes)
  BY ShapeFacts
<1>2. \A n \in Nodes : rows[n].cost \in Nat /\ Pred(n) \in SUBSET Nodes
  BY ShapeFacts
<1>3. \A n \in Nodes : \A p \in Pred(n) : p \in 1..(n - 1)
  BY <1>1, ShapeFacts
<1> HIDE DEF N
<1>4. ASSUME NEW n \in 1..N, NEW f \in [1..N -> Nat] PROVE Rule(f, n) \in Nat
  <2>1. Pred(n) \in SUBSET (1..N) /\ rows[n].cost \in Nat /\ IsFiniteSet(1..N)
    BY <1>1, <1>2
  <2>2. Largest(ValuesOn(f, Pred(n))) \in Nat
    BY <2>1, LargestOn DEF IsLargestOn
  <2> QED BY <2>1, <2>2
<1>5. ASSUME NEW n \in 1..N, NEW f \in [1..N -> Nat], NEW g \in [1..N -> Nat],
             \A m \in 1..(n - 1) : f[m] = g[m]
      PROVE  Rule(f, n) = Rule(g, n)
  <2>1. ValuesOn(f, Pred(n)) = ValuesOn(g, Pred(n))
    BY <1>1, <1>3, <1>5 DEF ValuesOn
  <2> QED BY <2>1
<1>6. \A n \in 1..N : \A f \in [1..N -> Nat] : B[n][f] = Rule(f, n)
  OBVIOUS
<1>7. B \in RuleTables(1, N, Nat)
  BY <1>4 DEF RuleTables
<1> HIDE DEF B
<1>8. LooksBack(B, N, Nat)
  <2> SUFFICES ASSUME NEW n \in 1..N, NEW f \in [1..N -> Nat], NEW g \in [1..N -> Nat],
                      \A m \in 1..(n - 1) : f[m] = g[m]
               PROVE  B[n][f] = B[n][g]
    BY DEF LooksBack
  <2> HIDE DEF Rule
  <2>1. Rule(f, n) = Rule(g, n)
    BY <1>5
  <2> QED BY <2>1, <1>6
<1>9. PICK f : IsSolution(f, B, N, Nat)
  <2>1. 0 \in Nat
    OBVIOUS
  <2> QED BY <1>1, <1>7, <1>8, <2>1, BackwardLooking
<1>10. Solves(f)
  BY <1>1, <1>6, <1>9 DEF IsSolution, ValuesOn
<1>11. Solves(Finish)
  <2>1. Finish = CHOOSE g : Solves(g)
    BY DEF Finish
  <2> HIDE DEF Solves
  <2> QED BY <1>10, <2>1
<1>12. \A n \in Nodes : Finish[n] = rows[n].cost + Largest({Finish[p] : p \in Pred(n)})
  BY <1>11
<1>13. Finish = [n \in Nodes |-> Finish[n]]
  BY <1>11
<1> DEFINE S == {n \in 1..N : Finish[n] \in Nat}
<1>14. ASSUME NEW n \in 1..N, 1..(n - 1) \subseteq S PROVE n \in S
  <2> DEFINE g == [m \in 1..N |-> IF m < n THEN Finish[m] ELSE 0]
  <2>1. \A m \in 1..N : m < n => Finish[m] \in Nat
    BY <1>14
  <2>2. g \in [1..N -> Nat]
    BY <2>1
  <2>3. \A p \in Pred(n) : g[p] = Finish[p]
    <3>1. n \in Nodes
      BY <1>1
    <3>2. \A p \in Pred(n) : p \in 1..N /\ p < n
      BY <3>1, <1>1, <1>3
    <3> QED BY <3>2
  <2> HIDE DEF g
  <2>4. Rule(g, n) = Finish[n]
    <3>1. ValuesOn(g, Pred(n)) = {Finish[p] : p \in Pred(n)}
      BY <2>3 DEF ValuesOn
    <3> QED BY <3>1, <1>1, <1>12
  <2>5. Rule(g, n) \in Nat
    BY <2>2, <1>4
  <2> QED BY <2>4, <2>5
<1> HIDE DEF S
<1>15. 1..N \subseteq S
  BY <1>1, <1>14, FromThoseBefore
<1>16. \A n \in Nodes : Finish[n] \in Nat
  BY <1>1, <1>15 DEF S
<1> QED BY <1>12, <1>13, <1>16

\* The recursion that defines what is left after rows start has a solution.
LEMMA BottomIsDefined ==
    ASSUME GraphShape
    PROVE  /\ Bottom \in [Nodes -> Nat]
           /\ \A n \in Nodes :
                 Bottom[n] = rows[n].cost + Largest({Bottom[m] : m \in Succ(n)})
<1> DEFINE N == Len(rows)
           Rule(f, n) == rows[n].cost + Largest(ValuesOn(f, Succ(n)))
           B == [n \in 1..N |-> [f \in [1..N -> Nat] |-> Rule(f, n)]]
           Solves(f) == f = [n \in Nodes |-> rows[n].cost + Largest({f[m] : m \in Succ(n)})]
<1>1. N \in Nat /\ Nodes = 1..N /\ IsFiniteSet(Nodes)
  BY ShapeFacts
<1>2. \A n \in Nodes : rows[n].cost \in Nat /\ Succ(n) \in SUBSET Nodes
  BY ShapeFacts
<1>3. \A n \in Nodes : \A m \in Succ(n) : m \in (n + 1)..N
  BY <1>1, ShapeFacts
<1> HIDE DEF N
<1>4. ASSUME NEW n \in 1..N, NEW f \in [1..N -> Nat] PROVE Rule(f, n) \in Nat
  <2>1. Succ(n) \in SUBSET (1..N) /\ rows[n].cost \in Nat /\ IsFiniteSet(1..N)
    BY <1>1, <1>2
  <2>2. Largest(ValuesOn(f, Succ(n))) \in Nat
    BY <2>1, LargestOn DEF IsLargestOn
  <2> QED BY <2>1, <2>2
<1>5. ASSUME NEW n \in 1..N, NEW f \in [1..N -> Nat], NEW g \in [1..N -> Nat],
             \A m \in (n + 1)..N : f[m] = g[m]
      PROVE  Rule(f, n) = Rule(g, n)
  <2>1. ValuesOn(f, Succ(n)) = ValuesOn(g, Succ(n))
    BY <1>1, <1>3, <1>5 DEF ValuesOn
  <2> QED BY <2>1
<1>6. \A n \in 1..N : \A f \in [1..N -> Nat] : B[n][f] = Rule(f, n)
  OBVIOUS
<1>7. B \in RuleTables(1, N, Nat)
  BY <1>4 DEF RuleTables
<1> HIDE DEF B
<1>8. LooksAhead(B, N, Nat)
  <2> SUFFICES ASSUME NEW n \in 1..N, NEW f \in [1..N -> Nat], NEW g \in [1..N -> Nat],
                      \A m \in (n + 1)..N : f[m] = g[m]
               PROVE  B[n][f] = B[n][g]
    BY DEF LooksAhead
  <2> HIDE DEF Rule
  <2>1. Rule(f, n) = Rule(g, n)
    BY <1>5
  <2> QED BY <2>1, <1>6
<1>9. PICK f : IsSolution(f, B, N, Nat)
  <2>1. 0 \in Nat
    OBVIOUS
  <2> QED BY <1>1, <1>7, <1>8, <2>1, ForwardLooking
<1>10. Solves(f)
  BY <1>1, <1>6, <1>9 DEF IsSolution, ValuesOn
<1>11. Solves(Bottom)
  <2>1. Bottom = CHOOSE g : Solves(g)
    BY DEF Bottom
  <2> HIDE DEF Solves
  <2> QED BY <1>10, <2>1
<1>12. \A n \in Nodes : Bottom[n] = rows[n].cost + Largest({Bottom[m] : m \in Succ(n)})
  BY <1>11
<1>13. Bottom = [n \in Nodes |-> Bottom[n]]
  BY <1>11
<1> DEFINE S == {n \in 1..N : Bottom[n] \in Nat}
<1>14. ASSUME NEW n \in 1..N, (n + 1)..N \subseteq S PROVE n \in S
  <2> DEFINE g == [m \in 1..N |-> IF m > n THEN Bottom[m] ELSE 0]
  <2>1. \A m \in 1..N : m > n => Bottom[m] \in Nat
    BY <1>14
  <2>2. g \in [1..N -> Nat]
    BY <2>1
  <2>3. \A m \in Succ(n) : g[m] = Bottom[m]
    <3>1. n \in Nodes
      BY <1>1
    <3>2. \A m \in Succ(n) : m \in 1..N /\ m > n
      BY <3>1, <1>1, <1>3
    <3> QED BY <3>2
  <2> HIDE DEF g
  <2>4. Rule(g, n) = Bottom[n]
    <3>1. ValuesOn(g, Succ(n)) = {Bottom[m] : m \in Succ(n)}
      BY <2>3 DEF ValuesOn
    <3> QED BY <3>1, <1>1, <1>12
  <2>5. Rule(g, n) \in Nat
    BY <2>2, <1>4
  <2> QED BY <2>4, <2>5
<1> HIDE DEF S
<1>15. 1..N \subseteq S
  BY <1>1, <1>14, FromThoseAfter
<1>16. \A n \in Nodes : Bottom[n] \in Nat
  BY <1>1, <1>15 DEF S
<1> QED BY <1>12, <1>13, <1>16

\* The recursion that defines the levels of rows has a solution.
LEMMA LevelsIsDefined ==
    ASSUME GraphShape
    PROVE  /\ Levels \in [Nodes -> Nat]
           /\ \A n \in Nodes :
                 Levels[n] = IF Pred(n) = {} THEN 0 ELSE 1 + Max({Levels[p] : p \in Pred(n)})
<1> DEFINE N == Len(rows)
           Rule(f, n) == IF Pred(n) = {} THEN 0 ELSE 1 + Max(ValuesOn(f, Pred(n)))
           B == [n \in 1..N |-> [f \in [1..N -> Nat] |-> Rule(f, n)]]
           Solves(f) == f = [n \in Nodes |-> IF Pred(n) = {} THEN 0 ELSE 1 + Max({f[p] : p \in Pred(n)})]
<1>1. N \in Nat /\ Nodes = 1..N /\ IsFiniteSet(Nodes)
  BY ShapeFacts
<1>2. \A n \in Nodes : Pred(n) \in SUBSET Nodes
  BY ShapeFacts
<1>3. \A n \in Nodes : \A p \in Pred(n) : p \in 1..(n - 1)
  BY <1>1, ShapeFacts
<1> HIDE DEF N
<1>4. ASSUME NEW n \in 1..N, NEW f \in [1..N -> Nat] PROVE Rule(f, n) \in Nat
  <2>1. Pred(n) \in SUBSET (1..N) /\ IsFiniteSet(1..N)
    BY <1>1, <1>2
  <2>2. Pred(n) # {} => Max(ValuesOn(f, Pred(n))) \in Nat
    BY <2>1, GreatestOn DEF IsGreatestOn
  <2> QED BY <2>1, <2>2
<1>5. ASSUME NEW n \in 1..N, NEW f \in [1..N -> Nat], NEW g \in [1..N -> Nat],
             \A m \in 1..(n - 1) : f[m] = g[m]
      PROVE  Rule(f, n) = Rule(g, n)
  <2>1. ValuesOn(f, Pred(n)) = ValuesOn(g, Pred(n))
    BY <1>1, <1>3, <1>5 DEF ValuesOn
  <2> QED BY <2>1
<1>6. \A n \in 1..N : \A f \in [1..N -> Nat] : B[n][f] = Rule(f, n)
  OBVIOUS
<1>7. B \in RuleTables(1, N, Nat)
  BY <1>4 DEF RuleTables
<1> HIDE DEF B
<1>8. LooksBack(B, N, Nat)
  <2> SUFFICES ASSUME NEW n \in 1..N, NEW f \in [1..N -> Nat], NEW g \in [1..N -> Nat],
                      \A m \in 1..(n - 1) : f[m] = g[m]
               PROVE  B[n][f] = B[n][g]
    BY DEF LooksBack
  <2> HIDE DEF Rule
  <2>1. Rule(f, n) = Rule(g, n)
    BY <1>5
  <2> QED BY <2>1, <1>6
<1>9. PICK f : IsSolution(f, B, N, Nat)
  <2>1. 0 \in Nat
    OBVIOUS
  <2> QED BY <1>1, <1>7, <1>8, <2>1, BackwardLooking
<1>10. Solves(f)
  BY <1>1, <1>6, <1>9 DEF IsSolution, ValuesOn
<1>11. Solves(Levels)
  <2>1. Levels = CHOOSE g : Solves(g)
    BY DEF Levels
  <2> HIDE DEF Solves
  <2> QED BY <1>10, <2>1
<1>12. \A n \in Nodes : Levels[n] = IF Pred(n) = {} THEN 0 ELSE 1 + Max({Levels[p] : p \in Pred(n)})
  BY <1>11
<1>13. Levels = [n \in Nodes |-> Levels[n]]
  BY <1>11
<1> DEFINE S == {n \in 1..N : Levels[n] \in Nat}
<1>14. ASSUME NEW n \in 1..N, 1..(n - 1) \subseteq S PROVE n \in S
  <2> DEFINE g == [m \in 1..N |-> IF m < n THEN Levels[m] ELSE 0]
  <2>1. \A m \in 1..N : m < n => Levels[m] \in Nat
    BY <1>14
  <2>2. g \in [1..N -> Nat]
    BY <2>1
  <2>3. \A p \in Pred(n) : g[p] = Levels[p]
    <3>1. n \in Nodes
      BY <1>1
    <3>2. \A p \in Pred(n) : p \in 1..N /\ p < n
      BY <3>1, <1>1, <1>3
    <3> QED BY <3>2
  <2> HIDE DEF g
  <2>4. Rule(g, n) = Levels[n]
    <3>1. ValuesOn(g, Pred(n)) = {Levels[p] : p \in Pred(n)}
      BY <2>3 DEF ValuesOn
    <3> QED BY <3>1, <1>1, <1>12
  <2>5. Rule(g, n) \in Nat
    BY <2>2, <1>4
  <2> QED BY <2>4, <2>5
<1> HIDE DEF S
<1>15. 1..N \subseteq S
  BY <1>1, <1>14, FromThoseBefore
<1>16. \A n \in Nodes : Levels[n] \in Nat
  BY <1>1, <1>15 DEF S
<1> QED BY <1>12, <1>13, <1>16

-----------------------------------------------------------------------------
(* All rows are scheduled, and no schedule beats the optimum.               *)
\* Whatever the numbers, rows can be sorted by them.
LEMMA SortedLists ==
    ASSUME GraphShape, NEW key \in [Nodes -> Int] PROVE Sorted(key) \in SetToSeqs(Nodes)
<1> DEFINE N == Len(rows)
           R == {e \in Nodes \X Nodes :
                   \/ key[e[1]] < key[e[2]]
                   \/ key[e[1]] = key[e[2]] /\ e[1] < e[2]}
           Sorts(order) == \A i, j \in Nodes : i < j =>
                              \/ key[order[i]] < key[order[j]]
                              \/ key[order[i]] = key[order[j]] /\ order[i] < order[j]
<1>1. N \in Nat /\ Nodes = 1..N
  BY ShapeFacts
<1>2. \A x, y \in Nodes :
         <<x, y>> \in R <=> key[x] < key[y] \/ (key[x] = key[y] /\ x < y)
  OBVIOUS
<1>3. \A x \in Nodes : key[x] \in Int /\ x \in Nat
  BY <1>1
<1> HIDE DEF R, N
<1>4. PICK order \in [1..N -> 1..N] : ListsOrder(R, order, N)
  <2>1. \A x, y, z \in 1..N : <<x, y>> \in R /\ <<y, z>> \in R => <<x, z>> \in R
    BY <1>1, <1>2, <1>3
  <2>2. \A x, y \in 1..N : x # y => <<x, y>> \in R \/ <<y, x>> \in R
    BY <1>1, <1>2, <1>3
  <2> QED BY <1>1, <2>1, <2>2, CanBeSorted
<1>5. ASSUME NEW i \in 1..N, NEW j \in 1..N, i < j
      PROVE  /\ order[i] # order[j]
             /\ \/ key[order[i]] < key[order[j]]
                \/ key[order[i]] = key[order[j]] /\ order[i] < order[j]
  <2>1. <<order[i], order[j]>> \in R
    BY <1>4, <1>5 DEF ListsOrder
  <2>2. order[i] \in Nodes /\ order[j] \in Nodes
    BY <1>1, <1>4
  <2> QED BY <2>1, <2>2, <1>2, <1>3
<1>6. order \in SetToSeqs(Nodes)
  <2>1. order \in [1..N -> Nodes] /\ \A i, j \in 1..N : i # j => order[i] # order[j]
    BY <1>1, <1>4, <1>5
  <2> QED BY <2>1, ListsOfRows DEF N
<1>7. Sorts(order)
  BY <1>1, <1>5
<1>8. Sorted(key) = CHOOSE f \in SetToSeqs(Nodes) : Sorts(f)
  BY DEF Sorted
<1> HIDE DEF Sorts
<1> QED BY <1>6, <1>7, <1>8

\* The pending rows are all rows.
LEMMA PendingRows ==
    ASSUME GraphShape, NEW mode PROVE Pending(mode) \in SetToSeqs(Nodes)
<1>1. ASSUME NEW n \in Nodes PROVE RowPriority(mode, n) \in Int
  <2>1. Levels[n] \in Nat /\ Bottom[n] \in Nat
    BY LevelsIsDefined, BottomIsDefined
  <2>2. rows[n] \in Rows /\ rows[n].errors \in Nat
    BY ShapeFacts, RowTypes
  <2>3. Cardinality(EntanglementSet(rows[n])) \in Nat
    <3>1. rows[n].reads \subseteq Objects /\ rows[n].writes \subseteq Objects
      BY <2>2, RowTypes
    <3>2. EntanglementSet(rows[n]) \in SUBSET Objects
      BY <3>1 DEF EntanglementSet, GraphShape
    <3>3. IsFiniteSet(EntanglementSet(rows[n]))
      BY <3>2, FS_Subset, GraphAssumption DEF GraphAssumption
    <3> QED BY <3>3, FS_CardinalityType
  <2>4. Bottom[n] * (1 + rows[n].errors) \in Int
    <3> DEFINE x == Bottom[n]
               y == 1 + rows[n].errors
    <3>1. x \in Int /\ y \in Int
      BY <2>1, <2>2
    <3> HIDE DEF x, y
    <3>2. x * y \in Int
      BY <3>1
    <3> QED BY <3>2 DEF x, y
  <2> DEFINE c == Cardinality(EntanglementSet(rows[n]))
             f == Bottom[n] * (1 + rows[n].errors)
  <2>5. RowPriority(mode, n) =
          CASE mode = "ASAP" -> - Levels[n]
            [] mode = "ALAP" -> Levels[n]
            [] mode = "COMMUNICATION_AWARE" -> Bottom[n] + 2 * c
            [] mode = "FIDELITY_AWARE" -> f
            [] OTHER -> Bottom[n]
    BY DEF RowPriority
  <2>6. c \in Nat /\ f \in Int
    BY <2>3, <2>4
  <2> HIDE DEF c, f
  <2>7. /\ - Levels[n] \in Int /\ Levels[n] \in Int /\ Bottom[n] + 2 * c \in Int
        /\ Bottom[n] \in Int
    BY <2>1, <2>6
  <2> QED BY <2>5, <2>6, <2>7
<1>2. [n \in Nodes |-> - RowPriority(mode, n)] \in [Nodes -> Int]
  BY <1>1
<1> QED BY <1>2, SortedLists DEF Pending

\* Passes over all rows schedule all rows.
LEMMA AllAreScheduled ==
    ASSUME GraphShape, NEW mode, NEW place \in Placements
    PROVE  LET all == ListSchedule(mode, place)
           IN  Sensible(all, place, MessageTime) /\ all.done = Nodes
<1> DEFINE N == Len(rows)
           order == Pending(mode)
           V == {x \in Accs : Sensible(x, place, MessageTime)}
           Step == [i \in 1..N |-> [x \in V |-> Pass(x, order, place, MessageTime)]]
           Solves(pass) ==
             pass = [i \in 0..N |->
               IF i = 0 THEN NothingScheduled
               ELSE Pass(pass[i - 1], order, place, MessageTime)]
           pass == CHOOSE f : Solves(f)
<1>1. N \in Nat /\ Nodes = 1..N /\ MessageTime \in Nat
  BY ShapeFacts, GraphAssumption DEF GraphAssumption
<1>2. /\ order \in [1..Len(rows) -> Nodes]
      /\ \A n \in Nodes : \E i \in 1..Len(rows) : order[i] = n
  BY PendingRows, ListsOfRows
<1>3. ListSchedule(mode, place) = pass[N]
  BY DEF ListSchedule
<1>4. ASSUME NEW x, Sensible(x, place, MessageTime)
      PROVE  LET new == Pass(x, order, place, MessageTime)
             IN  /\ Sensible(new, place, MessageTime) /\ x.done \subseteq new.done
                 /\ \A n \in Nodes : Pred(n) \subseteq x.done => n \in new.done
  BY <1>1, <1>2, <1>4, PassTakes
<1> HIDE DEF N, order
<1>5. \A x \in V : Sensible(x, place, MessageTime) /\ Pass(x, order, place, MessageTime) \in V
  <2> SUFFICES ASSUME NEW x \in V PROVE Pass(x, order, place, MessageTime) \in V
    OBVIOUS
  <2>1. Sensible(Pass(x, order, place, MessageTime), place, MessageTime)
    BY <1>4
  <2> QED BY <2>1 DEF Sensible
<1>6. NothingScheduled \in V
  <2>1. Sensible(NothingScheduled, place, MessageTime)
    BY NothingIsSensible
  <2> QED BY <2>1 DEF Sensible
<1>7. \A x \in V : x.done \subseteq Nodes
  BY DEF Accs
<1> HIDE DEF V
<1>8. /\ Step \in Steps(N, V)
      /\ \A i \in 1..N : \A x \in V : Step[i][x] = Pass(x, order, place, MessageTime)
  BY <1>5 DEF Steps
<1> HIDE DEF Step
<1>9. PICK f : IsTable(f, N, V, NothingScheduled, Step)
  BY <1>1, <1>6, <1>8, StepRecursion
<1>10. \A i \in 0..N : i = 0 \/ (i \in 1..N /\ i - 1 \in 0..N)
  BY <1>1
<1>11. Solves(f)
  <2>1. \A i \in 1..N : f[i] = Pass(f[i - 1], order, place, MessageTime)
    <3> SUFFICES ASSUME NEW i \in 1..N
                 PROVE  f[i] = Pass(f[i - 1], order, place, MessageTime)
      OBVIOUS
    <3>1. i - 1 \in 0..N
      BY <1>1
    <3> QED BY <3>1, <1>8, <1>9 DEF IsTable
  <2>2. \A i \in 0..N : f[i] = IF i = 0 THEN NothingScheduled
                               ELSE Pass(f[i - 1], order, place, MessageTime)
    BY <2>1, <1>9, <1>10 DEF IsTable
  <2> QED BY <2>2, <1>9 DEF IsTable
<1>12. Solves(pass)
  <2> HIDE DEF Solves
  <2> QED BY <1>11
<1> HIDE DEF pass
<1>13. /\ pass[0] = NothingScheduled
       /\ \A i \in 1..N : pass[i] = Pass(pass[i - 1], order, place, MessageTime)
  <2>1. \A i \in 0..N : pass[i] = IF i = 0 THEN NothingScheduled
                                  ELSE Pass(pass[i - 1], order, place, MessageTime)
    BY <1>12
  <2>2. 0 \in 0..N /\ \A i \in 1..N : i \in 0..N /\ i # 0
    BY <1>1
  <2> HIDE DEF Solves
  <2> QED BY <2>1, <2>2
<1> HIDE DEF Solves
<1> DEFINE S == {i \in 0..N : pass[i] \in V /\ 1..i \subseteq pass[i].done}
<1>14. 0 \in S
  <2>1. 1..0 = {} /\ 0 \in 0..N
    BY <1>1
  <2> QED BY <2>1, <1>6, <1>13
<1>15. ASSUME NEW i \in 1..N, i - 1 \in S PROVE i \in S
  <2>1. pass[i - 1] \in V /\ 1..(i - 1) \subseteq pass[i - 1].done
    BY <1>15
  <2>2. pass[i] = Pass(pass[i - 1], order, place, MessageTime) /\ pass[i] \in V
    BY <2>1, <1>5, <1>13
  <2>3. pass[i - 1].done \subseteq pass[i].done
    BY <2>1, <2>2, <1>4, <1>5
  <2>4. i \in pass[i].done
    <3>1. i \in Nodes
      BY <1>1
    <3>2. \A p \in Pred(i) : p \in 1..(i - 1)
      BY <3>1, <1>1, ShapeFacts
    <3>3. Pred(i) \subseteq pass[i - 1].done
      BY <3>2, <2>1
    <3> QED BY <2>1, <2>2, <3>1, <3>3, <1>4, <1>5
  <2>5. \A j \in 1..i : j = i \/ j \in 1..(i - 1)
    OBVIOUS
  <2>6. i \in 0..N
    BY <1>1
  <2> QED BY <2>1, <2>2, <2>3, <2>4, <2>5, <2>6
<1> HIDE DEF S
<1>16. N \in S
  <2>1. 0..N \subseteq S
    BY <1>1, <1>14, <1>15, BoundedInduction
  <2> QED BY <1>1, <2>1
<1> QED BY <1>1, <1>3, <1>5, <1>7, <1>16 DEF S

\* A schedule of all rows in which nothing is wrong contradicts nothing.
LEMMA SensibleIsFeasible ==
    ASSUME GraphShape, NEW place, NEW time, NEW acc, Sensible(acc, place, time), acc.done = Nodes
    PROVE  acc.start \in [Nodes -> Nat] /\ Feasible(acc.start, place, time)
<1>1. acc.start \in [Nodes -> Nat]
  BY DEF Sensible, Accs
<1>2. ASSUME NEW i \in Nodes, NEW j \in Nodes, <<i, j>> \in edges
      PROVE  acc.start[i] + rows[i].cost + Delay(place, time, i, j) <= acc.start[j]
  BY <1>2 DEF Sensible, AfterPreds, Pred, Arrival
<1>3. ASSUME NEW i \in Nodes, NEW j \in Nodes, i # j, place[i] = place[j]
      PROVE  \/ acc.start[i] + rows[i].cost <= acc.start[j]
             \/ acc.start[j] + rows[j].cost <= acc.start[i]
  BY <1>3 DEF Sensible, OneAtATime
<1> QED BY <1>1, <1>2, <1>3 DEF Feasible

\* Where messages take time, start times also do where they take none.
LEMMA FeasibleWithoutDelays ==
    ASSUME GraphShape, NEW place, NEW time \in Nat, NEW begin \in [Nodes -> Nat],
           Feasible(begin, place, time)
    PROVE  Feasible(begin, place, 0)
<1>1. ASSUME NEW i \in Nodes, NEW j \in Nodes, <<i, j>> \in edges
      PROVE  begin[i] + rows[i].cost + Delay(place, 0, i, j) <= begin[j]
  <2>1. begin[i] + rows[i].cost + Delay(place, time, i, j) <= begin[j]
    BY <1>1 DEF Feasible
  <2>2. /\ begin[i] \in Nat /\ begin[j] \in Nat /\ rows[i].cost \in Nat
        /\ Delay(place, time, i, j) \in Nat /\ Delay(place, 0, i, j) = 0
    BY ShapeFacts, DelayType DEF Delay
  <2> QED BY <2>1, <2>2
<1> QED BY <1>1 DEF Feasible

\* An order the graph allows gives start times that contradict nothing.
LEMMA OrdersAreFeasible ==
    ASSUME GraphShape, NEW place \in Placements, NEW order \in Orders
    PROVE  /\ Pass(NothingScheduled, order, place, 0).start \in [Nodes -> Nat]
           /\ Feasible(Pass(NothingScheduled, order, place, 0).start, place, 0)
<1> DEFINE new == Pass(NothingScheduled, order, place, 0)
<1>1. PICK turn : Turns(turn, order, place, 0)
  BY OrderedPass
<1>2. Len(rows) \in 0..Len(rows)
  BY ShapeFacts
<1>3. Sensible(new, place, 0) /\ new.done = {order[j] : j \in 1..Len(rows)}
  BY <1>1, <1>2 DEF Turns
<1>4. new.done = Nodes
  <2>1. order \in SetToSeqs(Nodes)
    BY DEF Orders
  <2>2. \A n \in Nodes : \E i \in 1..Len(rows) : order[i] = n
    BY <2>1, ListsOfRows
  <2>3. new.done \subseteq Nodes
    BY <1>3 DEF Sensible, Accs
  <2> QED BY <1>3, <2>2, <2>3
<1> HIDE DEF new
<1>5. new.start \in [Nodes -> Nat] /\ Feasible(new.start, place, 0)
  BY <1>3, <1>4, SensibleIsFeasible
<1> QED BY <1>5 DEF new

\* The optimum is the time of some order, and no start times beat it.
LEMMA Optimum ==
    ASSUME GraphShape, NEW place \in Placements
    PROVE  /\ ExactMakespan(place) \in Nat
           /\ \E order \in Orders :
                 ExactMakespan(place) = Makespan(Pass(NothingScheduled, order, place, 0).start)
           /\ \A begin \in [Nodes -> Nat] :
                 Feasible(begin, place, 0) => ExactMakespan(place) <= Makespan(begin)
<1> DEFINE of(order) == Makespan(Pass(NothingScheduled, order, place, 0).start)
           S == {of(order) : order \in Orders}
<1>1. ASSUME NEW order \in Orders PROVE of(order) \in Nat
  BY OrdersAreFeasible, MakespanFacts
<1>2. S \subseteq Nat
  BY <1>1
<1>3. S # {}
  <2>1. \E order : order \in Orders
    <3> DEFINE f == [n \in 1..Len(rows) |-> n]
    <3>1. f \in SetToSeqs(Nodes)
      BY ShapeFacts, ListsOfRows
    <3>2. \A i, j \in Nodes : i > j => f[i] \notin Pred(f[j])
      BY ShapeFacts
    <3> QED BY <3>1, <3>2 DEF Orders
  <2> QED BY <2>1
<1>4. ExactMakespan(place) = Min(S)
  BY DEF ExactMakespan
<1> HIDE DEF S
<1>5. \E x \in S : \A y \in S : x <= y
  BY <1>2, <1>3, LeastNatural
<1>6. Min(S) \in S /\ \A y \in S : Min(S) <= y
  BY <1>5 DEF Min
<1>7. ASSUME NEW begin \in [Nodes -> Nat], Feasible(begin, place, 0)
      PROVE  ExactMakespan(place) <= Makespan(begin)
  <2>1. PICK order \in Orders : of(order) <= Makespan(begin)
    BY <1>7, NoneBeatsOrders
  <2>2. Makespan(begin) \in Nat /\ of(order) \in Nat
    BY <1>1, MakespanFacts
  <2>3. of(order) \in S
    BY DEF S
  <2> HIDE DEF of
  <2>4. Min(S) \in Nat /\ Min(S) <= of(order)
    BY <1>2, <1>6, <2>3
  <2> QED BY <1>4, <2>1, <2>2, <2>4
<1> QED BY <1>2, <1>4, <1>6, <1>7 DEF S

\* No start times without a contradiction are shorter than the longest chain.
LEMMA NoneBeatsSpan ==
    ASSUME GraphShape, NEW place, NEW begin \in [Nodes -> Nat], Feasible(begin, place, 0)
    PROVE  Span <= Makespan(begin)
<1> DEFINE N == Len(rows)
           S == {n \in 1..N : Finish[n] <= begin[n] + rows[n].cost}
<1>1. N \in Nat /\ Nodes = 1..N /\ IsFiniteSet(Nodes)
  BY ShapeFacts
<1>2. Finish \in [Nodes -> Nat]
  BY FinishIsDefined
<1> HIDE DEF N
<1>3. ASSUME NEW n \in 1..N, 1..(n - 1) \subseteq S PROVE n \in S
  <2> DEFINE M == Largest(ValuesOn(Finish, Pred(n)))
  <2>1. n \in Nodes /\ begin[n] \in Nat /\ rows[n].cost \in Nat
    BY <1>1, ShapeFacts
  <2>2. Pred(n) \in SUBSET Nodes
    BY <2>1, ShapeFacts
  <2>3. IsLargestOn(M, Finish, Pred(n))
    BY <1>1, <1>2, <2>2, LargestOn
  <2>4. Finish[n] = rows[n].cost + M
    BY <2>1, FinishIsDefined DEF ValuesOn
  <2>5. ASSUME NEW p \in Pred(n), M = Finish[p] PROVE M <= begin[n]
    <3>1. p \in Nodes /\ p \in 1..(n - 1) /\ <<p, n>> \in edges
      BY <2>1, <1>1, ShapeFacts DEF Pred
    <3>2. Finish[p] <= begin[p] + rows[p].cost
      BY <3>1, <1>3
    <3>3. begin[p] + rows[p].cost + Delay(place, 0, p, n) <= begin[n]
      BY <2>1, <3>1 DEF Feasible
    <3>4. /\ begin[p] \in Nat /\ rows[p].cost \in Nat /\ Delay(place, 0, p, n) = 0
          /\ Finish[p] \in Nat
      BY <3>1, <1>2, ShapeFacts DEF Delay
    <3> QED BY <2>1, <2>5, <3>2, <3>3, <3>4
  <2> HIDE DEF M
  <2>6. M \in Nat /\ M <= begin[n]
    BY <2>1, <2>3, <2>5 DEF IsLargestOn
  <2> QED BY <2>1, <2>4, <2>6
<1> HIDE DEF S
<1>4. 1..N \subseteq S
  BY <1>1, <1>3, FromThoseBefore
<1> DEFINE L == Largest(ValuesOn(Finish, Nodes))
<1>5. Span = L
  BY DEF Span, ValuesOn
<1>6. IsLargestOn(L, Finish, Nodes)
  BY <1>1, <1>2, LargestOn
<1> HIDE DEF L
<1>7. Makespan(begin) \in Nat
      /\ \A n \in Nodes : begin[n] + rows[n].cost <= Makespan(begin)
  BY MakespanFacts
<1>8. ASSUME NEW n \in Nodes, L = Finish[n] PROVE L <= Makespan(begin)
  <2>1. Finish[n] <= begin[n] + rows[n].cost
    BY <1>1, <1>4 DEF S
  <2>2. Finish[n] \in Nat /\ begin[n] \in Nat /\ rows[n].cost \in Nat
    BY <1>2, ShapeFacts
  <2> QED BY <1>7, <1>8, <2>1, <2>2
<1> QED BY <1>5, <1>6, <1>7, <1>8 DEF IsLargestOn
-----------------------------------------------------------------------------
(* A schedule in hand is of all rows, and contradicts nothing.              *)
ScheduleInv ==
    schedule # NoSchedule =>
        /\ schedule.place \in Placements /\ schedule.start \in [Nodes -> Nat]
        /\ schedule.done = Nodes
        /\ Feasible(schedule.start, schedule.place, MessageTime)

\* A schedule is right when it is made, and is not touched afterwards.
LEMMA ScheduleInvNext ==
    ASSUME GraphInv, ScheduleInv, [GraphNext]_graphVars PROVE ScheduleInv'
<1>1. ASSUME NEW row \in Rows, AddRow(row) PROVE ScheduleInv'
  <2>1. schedule' = schedule /\ schedule = NoSchedule
    BY <1>1 DEF AddRow
  <2>2. NoSchedule' = NoSchedule
    BY DEF NoSchedule
  <2> QED BY <2>1, <2>2 DEF ScheduleInv
<1>2. ASSUME NEW mode \in Modes, NEW place \in Placements, Schedule(mode, place)
      PROVE  ScheduleInv'
  <2> DEFINE all == ListSchedule(mode, place)
  <2>1. GraphShape
    BY DEF GraphInv, GraphTypeOK, GraphShape
  <2>2. Sensible(all, place, MessageTime) /\ all.done = Nodes
    BY <2>1, AllAreScheduled
  <2>3. all.start \in [Nodes -> Nat] /\ Feasible(all.start, place, MessageTime)
    BY <2>1, <2>2, SensibleIsFeasible
  <2>4. schedule' = [mode |-> mode, place |-> place, done |-> all.done, start |-> all.start]
    BY <1>2 DEF Schedule
  <2> HIDE DEF all
  <2>5. /\ schedule'.place = place /\ schedule'.start = all.start
        /\ schedule'.done = all.done
    BY <2>4
  <2>6. rows' = rows /\ edges' = edges
    BY <1>2 DEF Schedule, builderVars
  <2>7. Feasible(schedule.start, schedule.place, MessageTime)'
    BY <2>3, <2>5, <2>6 DEF Feasible, Delay, Nodes
  <2> QED BY <2>2, <2>3, <2>5, <2>6, <2>7 DEF ScheduleInv, Placements, Nodes
<1>3. ASSUME UNCHANGED graphVars PROVE ScheduleInv'
  BY <1>3 DEF graphVars, builderVars, ScheduleInv, NoSchedule, Placements, Feasible, Delay,
              Nodes
<1> QED BY <1>1, <1>2, <1>3 DEF GraphNext

\* What is known of a schedule in hand makes it sound.
LEMMA ScheduleSound == GraphInv /\ ScheduleInv => ScheduleIsSound
<1> SUFFICES ASSUME GraphInv, ScheduleInv PROVE ScheduleIsSound
  OBVIOUS
<1>1. GraphShape
  BY DEF GraphInv, GraphTypeOK, GraphShape
<1>2. OptimumIsExact
  <2> SUFFICES ASSUME NEW place \in Placements,
                      NEW begin \in [Nodes -> 0..(ExactMakespan(place) - 1)],
                      Feasible(begin, place, 0)
               PROVE  Makespan(begin) >= ExactMakespan(place)
    BY DEF OptimumIsExact
  <2>1. begin \in [Nodes -> Nat]
    OBVIOUS
  <2>2. ExactMakespan(place) \in Nat /\ Makespan(begin) \in Nat
    BY <1>1, <2>1, Optimum, MakespanFacts
  <2>3. ExactMakespan(place) <= Makespan(begin)
    BY <1>1, <2>1, Optimum
  <2> QED BY <2>2, <2>3
<1>3. ASSUME schedule # NoSchedule
      PROVE  /\ schedule.done = Nodes
             /\ Feasible(schedule.start, schedule.place, MessageTime)
             /\ Makespan(schedule.start) >= ExactMakespan(schedule.place)
             /\ ExactMakespan(schedule.place) >= Span
  <2> DEFINE place == schedule.place
             start == schedule.start
             exact == ExactMakespan(place)
  <2>1. /\ place \in Placements /\ start \in [Nodes -> Nat] /\ schedule.done = Nodes
        /\ Feasible(start, place, MessageTime) /\ MessageTime \in Nat
    BY <1>3, GraphAssumption DEF ScheduleInv, GraphAssumption
  <2> HIDE DEF place, start
  <2>2. Feasible(start, place, 0)
    BY <1>1, <2>1, FeasibleWithoutDelays
  <2>3. exact \in Nat /\ exact <= Makespan(start) /\ Makespan(start) \in Nat
    BY <1>1, <2>1, <2>2, Optimum, MakespanFacts
  <2>4. PICK order \in Orders : exact = Makespan(Pass(NothingScheduled, order, place, 0).start)
    BY <1>1, <2>1, Optimum
  <2>5. /\ Pass(NothingScheduled, order, place, 0).start \in [Nodes -> Nat]
        /\ Feasible(Pass(NothingScheduled, order, place, 0).start, place, 0)
    BY <1>1, <2>1, OrdersAreFeasible
  <2>6. Span <= exact
    BY <1>1, <2>4, <2>5, NoneBeatsSpan
  <2> HIDE DEF exact
  <2>7. Makespan(start) >= exact
    BY <2>3
  <2>8. exact >= Span
    BY <2>6
  <2> QED BY <2>1, <2>7, <2>8 DEF place, start, exact
<1> QED BY <1>2, <1>3 DEF ScheduleIsSound

-----------------------------------------------------------------------------
(* The measures of the graph.                                               *)
Transitive(r, n) == \A i, j, k \in 1..n : j \in r[i] /\ k \in r[j] => k \in r[i]

\* What is reachable by edges is in every transitive relation that they are in.
LEMMA ReachIsLeast ==
    ASSUME NEW n \in Nat, NEW R, Forward(R, n), NEW reach, Follows(reach, R, n), NEW r,
           Transitive(r, n), \A i, j \in 1..n : <<i, j>> \in R => j \in r[i]
    PROVE  \A i, j \in 1..n : j \in reach[i] => j \in r[i]
<1> DEFINE S == {i \in 1..n : \A j \in 1..n : j \in reach[i] => j \in r[i]}
<1>1. ASSUME NEW i \in 1..n, (i + 1)..n \subseteq S PROVE i \in S
  <2> SUFFICES ASSUME NEW j \in 1..n, j \in reach[i] PROVE j \in r[i]
    OBVIOUS
  <2>1. CASE j \in Nexts(R, n, i)
    BY <2>1 DEF Nexts
  <2>2. ASSUME NEW m \in Nexts(R, n, i), j \in reach[m] PROVE j \in r[i]
    <3>1. m \in 1..n /\ <<i, m>> \in R
      BY DEF Nexts
    <3>2. <<i, m>>[1] < <<i, m>>[2]
      BY <3>1 DEF Forward
    <3>3. m \in (i + 1)..n
      BY <3>1, <3>2
    <3>4. j \in r[m] /\ m \in r[i]
      BY <3>1, <3>3, <2>2, <1>1
    <3> QED BY <3>1, <3>4 DEF Transitive
  <2> QED BY <2>1, <2>2 DEF Follows
<1> HIDE DEF S
<1>2. 1..n \subseteq S
  BY <1>1, FromThoseAfter
<1> QED BY <1>2 DEF S

\* What is known of the order of the rows.
LEMMA ReachFacts ==
    ASSUME GraphShape
    PROVE  /\ Follows(Reach, edges, Len(rows)) /\ Reach \in [Nodes -> SUBSET Nodes]
           /\ Transitive(Reach, Len(rows))
           /\ \A i, j \in Nodes : <<i, j>> \in edges => j \in Reach[i]
           /\ \A i, j \in Nodes : j \in Reach[i] => i < j
<1>1. Len(rows) \in Nat /\ Nodes = 1..Len(rows) /\ Forward(edges, Len(rows))
  BY ShapeFacts DEF GraphShape
<1>2. Follows(Reach, edges, Len(rows))
  BY ReachableIsDefined DEF GraphShape, Reach
<1>3. Reach \in [Nodes -> SUBSET Nodes]
  BY <1>1, <1>2 DEF Follows
<1> QED BY <1>1, <1>2, <1>3, FollowsLater DEF Transitive

\* What is reached is reached by an edge, or from what an edge leads to.
LEMMA FollowsFrom ==
    ASSUME NEW n \in Nat, NEW R, NEW reach, Follows(reach, R, n),
           NEW i \in 1..n, NEW j \in 1..n, j \in reach[i]
    PROVE  <<i, j>> \in R \/ \E m \in Nexts(R, n, i) : j \in reach[m]
<1>1. reach[i] = Nexts(R, n, i) \cup UNION {reach[m] : m \in Nexts(R, n, i)}
  BY DEF Follows
<1>2. j \in Nexts(R, n, i) => <<i, j>> \in R
  BY DEF Nexts
<1> QED BY <1>1, <1>2

\* The reduction orders the same rows, and no edge of it is redundant.
LEMMA ReductionIsExact ==
    ASSUME GraphShape
    PROVE  /\ ReachableBy(Reduction) = Reach
           /\ \A e \in Reduction : ReachableBy(Reduction \ {e}) # Reach
<1> DEFINE N == Len(rows)
           reduced == ReachableBy(Reduction)
<1>1. N \in Nat /\ Nodes = 1..N
  BY ShapeFacts
<1>2. /\ Follows(Reach, edges, N) /\ Reach \in [Nodes -> SUBSET Nodes]
      /\ Transitive(Reach, N) /\ Forward(edges, N)
      /\ \A i, j \in Nodes : <<i, j>> \in edges => j \in Reach[i]
      /\ \A i, j \in Nodes : j \in Reach[i] => i < j
  BY ReachFacts DEF GraphShape
<1>3. Reduction \subseteq edges
  BY DEF Reduction
<1>4. ASSUME NEW R, R \subseteq edges
      PROVE  /\ Forward(R, N) /\ Follows(ReachableBy(R), R, N)
             /\ Transitive(ReachableBy(R), N)
             /\ \A i, j \in Nodes : <<i, j>> \in R => j \in ReachableBy(R)[i]
             /\ \A i, j \in Nodes : j \in ReachableBy(R)[i] => i < j
             /\ \A i, j \in Nodes : j \in ReachableBy(R)[i] => j \in Reach[i]
  <2>1. Forward(R, N)
    BY <1>2, <1>4 DEF Forward
  <2>2. Follows(ReachableBy(R), R, N)
    BY <2>1, ReachableIsDefined DEF GraphShape
  <2> HIDE DEF N
  <2>3. /\ Transitive(ReachableBy(R), N)
        /\ \A i, j \in Nodes : <<i, j>> \in R => j \in ReachableBy(R)[i]
        /\ \A i, j \in Nodes : j \in ReachableBy(R)[i] => i < j
    BY <1>1, <2>1, <2>2, FollowsLater DEF Transitive
  <2>4. \A i, j \in 1..N : <<i, j>> \in R => j \in Reach[i]
    BY <1>1, <1>2, <1>4
  <2>5. \A i, j \in 1..N : j \in ReachableBy(R)[i] => j \in Reach[i]
    BY <1>1, <1>2, <2>1, <2>2, <2>4, ReachIsLeast
  <2> QED BY <1>1, <2>1, <2>2, <2>3, <2>5
<1> HIDE DEF N
<1>5. /\ Follows(reduced, Reduction, N) /\ Transitive(reduced, N)
      /\ \A i, j \in Nodes : <<i, j>> \in Reduction => j \in reduced[i]
      /\ \A i, j \in Nodes : j \in reduced[i] => j \in Reach[i]
  BY <1>3, <1>4
<1> HIDE DEF reduced
<1> DEFINE S == {d \in Nat : \A i, j \in Nodes :
                    j \in Reach[i] /\ j <= i + d => j \in reduced[i]}
<1>6. 0 \in S
  BY <1>1, <1>2
<1>7. ASSUME NEW d \in Nat, d \in S PROVE d + 1 \in S
  <2> SUFFICES ASSUME NEW i \in Nodes, NEW j \in Nodes, j \in Reach[i], j <= i + (d + 1)
               PROVE  j \in reduced[i]
    OBVIOUS
  <2>1. ASSUME NEW m \in Nodes, m \in Reach[i], j \in Reach[m] PROVE j \in reduced[i]
    <3>1. i < m /\ m < j
      BY <1>2, <2>1
    <3>2. m <= i + d /\ j <= m + d
      BY <3>1, <1>1
    <3>3. m \in reduced[i] /\ j \in reduced[m]
      BY <3>2, <2>1, <1>7
    <3> QED BY <3>3, <1>1, <1>5 DEF Transitive
  <2>2. CASE <<i, j>> \in Reduction
    BY <2>2, <1>5
  <2>3. CASE <<i, j>> \in edges /\ <<i, j>> \notin Reduction
    <3>1. PICK m \in Succ(i) \ {j} : j \in Reach[m]
      BY <2>3 DEF Reduction
    <3>2. m \in Nodes /\ m \in Reach[i]
      BY <1>2 DEF Succ
    <3> QED BY <3>1, <3>2, <2>1
  <2>4. CASE \E m \in Nexts(edges, N, i) : j \in Reach[m]
    <3>1. PICK m \in Nexts(edges, N, i) : j \in Reach[m]
      BY <2>4
    <3>2. m \in Nodes /\ m \in Reach[i]
      BY <1>1, <1>2 DEF Nexts
    <3> QED BY <3>1, <3>2, <2>1
  <2>5. <<i, j>> \in edges \/ \E m \in Nexts(edges, N, i) : j \in Reach[m]
    BY <1>1, <1>2, FollowsFrom
  <2> QED BY <2>2, <2>3, <2>4, <2>5
<1> HIDE DEF S
<1>8. N \in S
  BY <1>1, <1>6, <1>7, SetInduction
<1>9. \A i, j \in Nodes : j \in Reach[i] => j \in reduced[i]
  BY <1>1, <1>8 DEF S
<1>10. reduced = Reach
  <2>1. reduced \in [Nodes -> SUBSET Nodes]
    BY <1>1, <1>5 DEF Follows
  <2>2. \A i \in Nodes : reduced[i] = Reach[i]
    BY <1>2, <1>5, <1>9, <2>1
  <2> QED BY <1>2, <2>1, <2>2
<1>11. ASSUME NEW e \in Reduction PROVE ReachableBy(Reduction \ {e}) # Reach
  <2> DEFINE R == Reduction \ {e}
             less == ReachableBy(R)
  <2>1. R \subseteq edges
    BY <1>3
  <2>2. /\ Follows(less, R, N)
        /\ \A i, j \in Nodes : j \in less[i] => i < j /\ j \in Reach[i]
    BY <2>1, <1>4
  <2>3. PICK i \in Nodes, j \in Nodes : e = <<i, j>>
    BY <1>1, <1>2, <1>3 DEF Forward
  <2>4. \A m \in Succ(i) \ {j} : j \notin Reach[m]
    BY <2>3 DEF Reduction
  <2>5. j \in Reach[i]
    BY <1>2, <1>3, <2>3
  <2>6. ASSUME j \in less[i] PROVE FALSE
    <3>1. <<i, j>> \in R \/ \E m \in Nexts(R, N, i) : j \in less[m]
      BY <1>1, <2>2, <2>6, FollowsFrom
    <3>2. <<i, j>> \notin R
      BY <2>3
    <3>3. PICK m \in Nexts(R, N, i) : j \in less[m]
      BY <3>1, <3>2
    <3>4. m \in Nodes /\ <<i, m>> \in edges
      BY <1>1, <2>1 DEF Nexts
    <3>5. m < j /\ j \in Reach[m]
      BY <2>2, <3>3, <3>4
    <3>6. m \in Succ(i) \ {j}
      BY <1>1, <3>4, <3>5 DEF Succ
    <3> QED BY <2>4, <3>5, <3>6
  <2> QED BY <2>5, <2>6
<1> QED BY <1>10, <1>11 DEF reduced

\* A row is on a higher level than those it is after; a level is an antichain.
LEMMA LevelsAreAntichains ==
    ASSUME GraphShape
    PROVE  \A n \in Nodes : {m \in Nodes : Levels[m] = Levels[n]} \in Antichains
<1> DEFINE N == Len(rows)
           r == [i \in 1..N |-> {j \in 1..N : Levels[i] < Levels[j]}]
<1>1. N \in Nat /\ Nodes = 1..N /\ IsFiniteSet(Nodes)
  BY ShapeFacts
<1>2. Levels \in [Nodes -> Nat]
  BY LevelsIsDefined
<1> HIDE DEF N
<1>3. \A i, j \in 1..N : j \in r[i] <=> Levels[i] < Levels[j]
  OBVIOUS
<1> HIDE DEF r
<1>4. Transitive(r, N)
  <2>1. \A i \in 1..N : Levels[i] \in Nat
    BY <1>1, <1>2
  <2> QED BY <1>3, <2>1 DEF Transitive
<1>5. ASSUME NEW i \in 1..N, NEW j \in 1..N, <<i, j>> \in edges PROVE j \in r[i]
  <2> DEFINE M == Max(ValuesOn(Levels, Pred(j)))
  <2>1. Pred(j) \in SUBSET Nodes /\ i \in Pred(j)
    BY <1>1, <1>5 DEF Pred
  <2>2. IsGreatestOn(M, Levels, Pred(j))
    BY <1>1, <1>2, <2>1, GreatestOn
  <2>3. Levels[j] = 1 + M
    BY <1>1, <2>1, LevelsIsDefined DEF ValuesOn
  <2> HIDE DEF M
  <2>4. Levels[i] \in Nat /\ M \in Nat /\ Levels[i] <= M
    BY <1>1, <1>2, <2>1, <2>2 DEF IsGreatestOn
  <2> QED BY <1>3, <2>3, <2>4
<1>6. \A i, j \in 1..N : j \in Reach[i] => j \in r[i]
  <2>1. Forward(edges, N) /\ Follows(Reach, edges, N)
    BY ReachFacts DEF GraphShape, N
  <2>2. \A i, j \in 1..N : <<i, j>> \in edges => j \in r[i]
    BY <1>5
  <2> QED BY <1>1, <1>4, <2>1, <2>2, ReachIsLeast
<1>7. \A i, j \in Nodes : Levels[i] = Levels[j] => j \notin Reach[i]
  BY <1>1, <1>2, <1>3, <1>6
<1> QED BY <1>7 DEF Antichains, Ordered

-----------------------------------------------------------------------------
(* The span.                                                                *)
CostsOf(S) == [n \in Nodes |-> IF n \in S THEN rows[n].cost ELSE 0]

\* What a set of rows costs, and with one more row.
LEMMA CostFacts ==
    ASSUME GraphShape
    PROVE  /\ Cost({}) = 0
           /\ \A S \in SUBSET Nodes : Cost(S) \in Nat
           /\ \A S \in SUBSET Nodes : \A n \in Nodes \ S :
                 Cost(S \cup {n}) = Cost(S) + rows[n].cost
<1> DEFINE N == Len(rows)
<1>1. N \in Nat /\ Nodes = 1..N /\ \A n \in Nodes : rows[n].cost \in Nat
  BY ShapeFacts
<1>2. \A S : Cost(S) = SumTo(CostsOf(S), N)
  BY DEF Cost, CostsOf
<1> HIDE DEF N
<1>3. \A S : \A n \in 1..N :
         CostsOf(S)[n] \in Nat /\ CostsOf(S)[n] = IF n \in S THEN rows[n].cost ELSE 0
  BY <1>1 DEF CostsOf
<1>4. Cost({}) = 0
  <2>1. \A n \in 1..N : CostsOf({})[n] = 0
    BY <1>3
  <2>2. SumTo(CostsOf({}), N) = 0
    BY <1>1, <2>1, SumOfZeros
  <2> QED BY <1>2, <2>2
<1>5. ASSUME NEW S \in SUBSET Nodes PROVE Cost(S) \in Nat
  <2>1. SumTo(CostsOf(S), N) \in Nat
    BY <1>1, <1>3, SumOfNaturals
  <2> QED BY <1>2, <2>1
<1>6. ASSUME NEW S \in SUBSET Nodes, NEW n \in Nodes \ S
      PROVE  Cost(S \cup {n}) = Cost(S) + rows[n].cost
  <2> DEFINE f == CostsOf(S)
             g == CostsOf({n})
             h == CostsOf(S \cup {n})
  <2>1. AreSums(h, f, g, N)
    <3> SUFFICES ASSUME NEW k \in 1..N
                 PROVE  f[k] \in Int /\ g[k] \in Int /\ h[k] = f[k] + g[k]
      BY DEF AreSums
    <3>1. /\ f[k] \in Nat /\ f[k] = IF k \in S THEN rows[k].cost ELSE 0
          /\ g[k] \in Nat /\ g[k] = IF k \in {n} THEN rows[k].cost ELSE 0
          /\ h[k] = IF k \in S \cup {n} THEN rows[k].cost ELSE 0
      BY <1>3
    <3> HIDE DEF f, g, h
    <3>2. CASE k = n
      <4>1. k \notin S /\ rows[k].cost = g[k]
        BY <3>1, <3>2
      <4> QED BY <3>1, <3>2, <4>1
    <3>3. CASE k # n
      BY <3>1, <3>3
    <3> QED BY <3>2, <3>3
  <2>2. n \in 1..N /\ g[n] = rows[n].cost /\ g[n] \in Int
    BY <1>1, <1>3
  <2>3. \A k \in 1..N : k # n => g[k] = 0
    BY <1>3
  <2>4. Cost(S) = SumTo(f, N) /\ Cost(S \cup {n}) = SumTo(h, N)
    BY <1>2
  <2> HIDE DEF f, g, h
  <2>5. SumTo(h, N) = SumTo(f, N) + SumTo(g, N)
    BY <1>1, <2>1, SumOfAll
  <2>6. SumTo(g, N) = g[n]
    BY <1>1, <2>2, <2>3, SumOfOne
  <2> QED BY <2>2, <2>4, <2>5, <2>6
<1> QED BY <1>4, <1>5, <1>6

\* p is one of those in S that finish last.
FinishesLast(p, S) == p \in S /\ \A m \in S : Finish[m] <= Finish[p]

\* When a row finishes: it has waited for the last of those before it.
LEMMA FinishFacts ==
    ASSUME GraphShape
    PROVE  /\ Finish \in [Nodes -> Nat]
           /\ \A n \in Nodes :
                 Largest({Finish[p] : p \in Pred(n)}) = 0 => Finish[n] = rows[n].cost
           /\ \A n \in Nodes : Pred(n) = {} => Finish[n] = rows[n].cost
           /\ \A n \in Nodes : \A p : FinishesLast(p, Pred(n)) =>
                 Finish[n] = Finish[p] + rows[n].cost
           /\ \A i, j \in Nodes : <<i, j>> \in edges =>
                 Finish[i] + rows[j].cost <= Finish[j]
           /\ \A S \in SUBSET Nodes : S # {} => \E p : FinishesLast(p, S)
<1>1. Finish \in [Nodes -> Nat] /\ IsFiniteSet(Nodes)
      /\ \A n \in Nodes : rows[n].cost \in Nat
  BY ShapeFacts, FinishIsDefined
<1>2. ASSUME NEW n \in Nodes
      PROVE  \E M : IsLargestOn(M, Finish, Pred(n)) /\ Finish[n] = rows[n].cost + M
  <2>1. Pred(n) \in SUBSET Nodes
    BY DEF Pred
  <2>2. IsLargestOn(Largest(ValuesOn(Finish, Pred(n))), Finish, Pred(n))
    BY <1>1, <2>1, LargestOn
  <2>3. Finish[n] = rows[n].cost + Largest(ValuesOn(Finish, Pred(n)))
    BY FinishIsDefined DEF ValuesOn
  <2> QED BY <2>2, <2>3
<1>3. ASSUME NEW n \in Nodes, Pred(n) = {} PROVE Finish[n] = rows[n].cost
  <2>1. PICK M : IsLargestOn(M, Finish, Pred(n)) /\ Finish[n] = rows[n].cost + M
    BY <1>2
  <2>2. M = 0
    BY <2>1, <1>3 DEF IsLargestOn
  <2> QED BY <1>1, <2>1, <2>2
<1>4. ASSUME NEW n \in Nodes, NEW p, FinishesLast(p, Pred(n))
      PROVE  Finish[n] = Finish[p] + rows[n].cost
  <2>1. PICK M : IsLargestOn(M, Finish, Pred(n)) /\ Finish[n] = rows[n].cost + M
    BY <1>2
  <2>2. Pred(n) \subseteq Nodes /\ p \in Pred(n)
    BY <1>4 DEF Pred, FinishesLast
  <2>3. M \in Nat /\ Finish[p] \in Nat /\ Finish[p] <= M
    BY <1>1, <2>1, <2>2 DEF IsLargestOn
  <2>4. M <= Finish[p]
    BY <1>1, <1>4, <2>1, <2>2, <2>3 DEF IsLargestOn, FinishesLast
  <2>5. M = Finish[p]
    BY <2>3, <2>4
  <2> QED BY <1>1, <2>1, <2>3, <2>5
<1>5. ASSUME NEW i \in Nodes, NEW j \in Nodes, <<i, j>> \in edges
      PROVE  Finish[i] + rows[j].cost <= Finish[j]
  <2>1. PICK M : IsLargestOn(M, Finish, Pred(j)) /\ Finish[j] = rows[j].cost + M
    BY <1>2
  <2>2. i \in Pred(j)
    BY <1>5 DEF Pred
  <2>3. M \in Nat /\ Finish[i] <= M
    BY <2>1, <2>2 DEF IsLargestOn
  <2> QED BY <1>1, <2>1, <2>3
<1>6. ASSUME NEW S \in SUBSET Nodes, S # {} PROVE \E p : FinishesLast(p, S)
  <2>1. IsGreatestOn(Max(ValuesOn(Finish, S)), Finish, S)
    BY <1>1, <1>6, GreatestOn
  <2> QED BY <2>1 DEF IsGreatestOn, FinishesLast
<1>7. ASSUME NEW n \in Nodes, Largest({Finish[p] : p \in Pred(n)}) = 0
      PROVE  Finish[n] = rows[n].cost
  <2>1. Finish[n] = rows[n].cost + Largest({Finish[p] : p \in Pred(n)})
    BY FinishIsDefined
  <2> QED BY <1>1, <1>7, <2>1
<1> QED BY <1>1, <1>3, <1>4, <1>5, <1>6, <1>7

\* A row finishes before any row that is ordered after it starts.
LEMMA FinishOrder ==
    ASSUME GraphShape
    PROVE  \A i, j \in Nodes : Ordered(i, j) => Finish[i] + rows[j].cost <= Finish[j]
<1> DEFINE N == Len(rows)
           r == [i \in 1..N |-> {j \in 1..N : Finish[i] + rows[j].cost <= Finish[j]}]
<1>1. /\ N \in Nat /\ Nodes = 1..N
      /\ \A n \in Nodes : rows[n].cost \in Nat
  BY ShapeFacts
<1>2. Forward(edges, N) /\ Follows(Reach, edges, N)
  BY ReachFacts DEF GraphShape
<1> HIDE DEF N
<1>3. \A i, j \in 1..N : j \in r[i] <=> Finish[i] + rows[j].cost <= Finish[j]
  OBVIOUS
<1> HIDE DEF r
<1>4. \A n \in 1..N : Finish[n] \in Nat /\ rows[n].cost \in Nat
  BY <1>1, FinishFacts
<1>5. Transitive(r, N)
  BY <1>3, <1>4 DEF Transitive
<1>6. \A i, j \in 1..N : <<i, j>> \in edges => j \in r[i]
  BY <1>1, <1>3, FinishFacts
<1>7. \A i, j \in 1..N : j \in Reach[i] => j \in r[i]
  BY <1>1, <1>2, <1>5, <1>6, ReachIsLeast
<1> QED BY <1>1, <1>3, <1>7 DEF Ordered

\* The rows of S up to k cost no more than the last of them takes to finish.
Covered(S, k) ==
    \/ SumTo(CostsOf(S), k) = 0 /\ \A x \in S : x > k
    \/ \E m \in S : /\ m <= k /\ SumTo(CostsOf(S), k) <= Finish[m]
                    /\ SumTo(CostsOf(S), k) \in Nat

\* No chain of rows costs more than the span.
LEMMA ChainsFit ==
    ASSUME GraphShape, NEW S \in Chains
    PROVE  Cost(S) = 0 \/ \E m \in Nodes : Cost(S) <= Finish[m]
<1> DEFINE N == Len(rows)
           T == {k \in 0..N : Covered(S, k)}
<1>1. N \in Nat /\ Nodes = 1..N /\ S \subseteq Nodes
  BY ShapeFacts DEF Chains
<1>2. \A n \in 1..N : Finish[n] \in Nat /\ rows[n].cost \in Nat
  BY <1>1, FinishFacts, ShapeFacts
<1>3. Cost(S) = SumTo(CostsOf(S), N)
  BY DEF Cost, CostsOf
<1> HIDE DEF N
<1>4. 0 \in T
  <2>1. SumTo(CostsOf(S), 0) = 0
    BY SumStep
  <2>2. \A x \in S : x > 0
    BY <1>1
  <2> QED BY <1>1, <2>1, <2>2 DEF Covered
<1>5. ASSUME NEW k \in 1..N, k - 1 \in T PROVE k \in T
  <2> DEFINE before == SumTo(CostsOf(S), k - 1)
             now == SumTo(CostsOf(S), k)
  <2>1. k - 1 \in Nat /\ (k - 1) + 1 = k
    OBVIOUS
  <2>2. now = before + CostsOf(S)[k]
    BY <2>1, SumStep
  <2>3. CostsOf(S)[k] = IF k \in S THEN rows[k].cost ELSE 0
    BY <1>1 DEF CostsOf
  <2>4. \/ before = 0 /\ \A x \in S : x > k - 1
        \/ \E m \in S : m <= k - 1 /\ before <= Finish[m] /\ before \in Nat
    BY <1>5 DEF Covered
  <2>5. Covered(S, k) <=> \/ now = 0 /\ \A x \in S : x > k
                          \/ \E m \in S : m <= k /\ now <= Finish[m] /\ now \in Nat
    BY DEF Covered
  <2> HIDE DEF before, now
  <2>6. CASE k \notin S
    <3>1. CASE before = 0 /\ \A x \in S : x > k - 1
      <4>1. \A x \in S : x > k
        BY <1>1, <2>6, <3>1
      <4> QED BY <2>2, <2>3, <2>5, <2>6, <3>1, <4>1
    <3>2. ASSUME NEW m \in S, m <= k - 1, before <= Finish[m], before \in Nat
          PROVE  Covered(S, k)
      <4>1. now = before /\ m <= k
        BY <1>1, <2>2, <2>3, <2>6, <3>2
      <4> QED BY <2>5, <3>2, <4>1
    <3> QED BY <2>4, <3>1, <3>2
  <2>7. CASE k \in S
    <3>1. rows[k].cost <= Finish[k]
      <4>1. CASE Pred(k) = {}
        BY <1>1, <1>2, <4>1, FinishFacts
      <4>2. CASE Pred(k) # {}
        <5>1. Pred(k) \in SUBSET Nodes
          BY DEF Pred
        <5>2. PICK p : FinishesLast(p, Pred(k))
          BY <4>2, <5>1, FinishFacts
        <5>3. p \in 1..N /\ Finish[k] = Finish[p] + rows[k].cost
          BY <1>1, <5>1, <5>2, FinishFacts DEF FinishesLast
        <5> QED BY <1>2, <5>3
      <4> QED BY <4>1, <4>2
    <3>2. CASE before = 0 /\ \A x \in S : x > k - 1
      <4>1. now = rows[k].cost
        BY <1>2, <2>2, <2>3, <2>7, <3>2
      <4> QED BY <1>2, <2>5, <2>7, <3>1, <4>1
    <3>3. ASSUME NEW m \in S, m <= k - 1, before <= Finish[m], before \in Nat
          PROVE  Covered(S, k)
      <4>1. m \in 1..N /\ m < k
        BY <1>1, <3>3
      <4>2. Ordered(m, k)
        BY <2>7, <4>1 DEF Chains
      <4>3. Finish[m] + rows[k].cost <= Finish[k]
        BY <1>1, <4>1, <4>2, FinishOrder
      <4>4. now = before + rows[k].cost
        BY <2>2, <2>3, <2>7
      <4>5. now <= Finish[k] /\ now \in Nat
        BY <1>2, <3>3, <4>1, <4>3, <4>4
      <4> QED BY <2>5, <2>7, <4>5
    <3> QED BY <2>4, <3>2, <3>3
  <2> QED BY <2>6, <2>7
<1> HIDE DEF T
<1>6. 0..N \subseteq T
  BY <1>1, <1>4, <1>5, BoundedInduction
<1>7. Covered(S, N)
  BY <1>1, <1>6 DEF T
<1> QED BY <1>1, <1>3, <1>7 DEF Covered

\* S is a chain of rows up to n, and costs what n takes to finish.
ChainTo(S, n) ==
    /\ S \in SUBSET (1..n) /\ n \in S
    /\ \A i, j \in S : i < j => Ordered(i, j)
    /\ Cost(S) = Finish[n]

\* A row alone, if it need not wait, or after a chain to the last of those it
\* waits for.
LEMMA ChainGrows ==
    ASSUME GraphShape, NEW n \in Nodes
    PROVE  /\ Finish[n] = rows[n].cost => ChainTo({n}, n)
           /\ \A p, S : FinishesLast(p, Pred(n)) /\ ChainTo(S, p) => ChainTo(S \cup {n}, n)
<1>1. /\ Len(rows) \in Nat /\ Nodes = 1..Len(rows)
      /\ \A m \in Nodes : rows[m].cost \in Nat
  BY ShapeFacts
<1>2. ASSUME Finish[n] = rows[n].cost PROVE ChainTo({n}, n)
  <2>1. Cost({} \cup {n}) = Cost({}) + rows[n].cost
    BY CostFacts
  <2>2. Cost({n}) = rows[n].cost
    <3>1. {} \cup {n} = {n} /\ Cost({}) = 0 /\ rows[n].cost \in Nat
      BY <1>1, CostFacts
    <3> QED BY <2>1, <3>1
  <2> QED BY <1>1, <1>2, <2>2 DEF ChainTo
<1>3. ASSUME NEW p, NEW S, FinishesLast(p, Pred(n)), ChainTo(S, p)
      PROVE  ChainTo(S \cup {n}, n)
  <2>1. p \in Nodes /\ p < n /\ <<p, n>> \in edges
    <3>1. p \in Pred(n)
      BY <1>3 DEF FinishesLast
    <3> QED BY <3>1, ShapeFacts DEF Pred
  <2>2. S \in SUBSET (1..p) /\ p \in S /\ S \in SUBSET Nodes /\ n \notin S
    BY <1>1, <1>3, <2>1 DEF ChainTo
  <2>3. Cost(S \cup {n}) = Cost(S) + rows[n].cost
    BY <2>2, CostFacts
  <2>4. Finish[n] = Finish[p] + rows[n].cost
    BY <1>3, FinishFacts
  <2>5. Cost(S \cup {n}) = Finish[n]
    BY <1>3, <2>3, <2>4 DEF ChainTo
  <2>6. \A i \in S : Ordered(i, n)
    <3> TAKE i \in S
    <3>1. i \in Nodes /\ p \in Nodes
      BY <2>1, <2>2
    <3>2. n \in Reach[p]
      BY <2>1, ReachFacts
    <3>3. i = p \/ (i < p /\ Ordered(i, p))
      BY <1>1, <1>3, <2>1, <2>2 DEF ChainTo
    <3>4. CASE i = p
      BY <3>2, <3>4 DEF Ordered
    <3>5. CASE p \in Reach[i]
      <4>1. Transitive(Reach, Len(rows))
        BY ReachFacts
      <4> QED BY <1>1, <3>1, <3>2, <3>5, <4>1 DEF Transitive, Ordered
    <3> QED BY <3>3, <3>4, <3>5 DEF Ordered
  <2>7. S \cup {n} \in SUBSET (1..n)
    BY <1>1, <2>1, <2>2
  <2>8. \A i, j \in S \cup {n} : i < j => Ordered(i, j)
    <3> SUFFICES ASSUME NEW i \in S \cup {n}, NEW j \in S \cup {n}, i < j
                 PROVE  Ordered(i, j)
      OBVIOUS
    <3>1. i \in S
      BY <1>1, <2>7
    <3>2. CASE j \in S
      BY <1>3, <3>1, <3>2 DEF ChainTo
    <3>3. CASE j = n
      BY <2>6, <3>1, <3>3
    <3> QED BY <3>2, <3>3
  <2> QED BY <2>5, <2>7, <2>8 DEF ChainTo
<1> QED BY <1>2, <1>3

\* Such a chain is a chain.
LEMMA ChainToIsChain ==
    ASSUME GraphShape, NEW n \in Nodes, NEW S, ChainTo(S, n)
    PROVE  S \in Chains
<1>1. Len(rows) \in Nat /\ Nodes = 1..Len(rows)
  BY ShapeFacts
<1>2. 1..n \subseteq Nodes
  BY <1>1
<1> QED BY <1>2 DEF ChainTo, Chains

\* Every row ends such a chain.
LEMMA ChainToEach ==
    ASSUME GraphShape
    PROVE  \A n \in Nodes : \E S : ChainTo(S, n)
<1> DEFINE N == Len(rows)
           T == {n \in 1..N : \E S : ChainTo(S, n)}
<1>1. N \in Nat /\ Nodes = 1..N
  BY ShapeFacts
<1> HIDE DEF N
<1>2. ASSUME NEW n \in 1..N, 1..(n - 1) \subseteq T PROVE n \in T
  <2>1. n \in Nodes /\ Pred(n) \in SUBSET Nodes
    BY <1>1 DEF Pred
  <2>2. CASE Pred(n) = {}
    BY <2>1, <2>2, FinishFacts, ChainGrows
  <2>3. CASE Pred(n) # {}
    <3>1. PICK p : FinishesLast(p, Pred(n))
      BY <2>1, <2>3, FinishFacts
    <3>2. p \in 1..(n - 1)
      BY <1>1, <2>1, <3>1, ShapeFacts DEF FinishesLast
    <3>3. PICK S : ChainTo(S, p)
      BY <1>2, <3>2
    <3> QED BY <2>1, <3>1, <3>3, ChainGrows
  <2> QED BY <2>2, <2>3
<1> HIDE DEF T
<1>3. 1..N \subseteq T
  BY <1>1, <1>2, FromThoseBefore
<1> QED BY <1>1, <1>3 DEF T

CostsOfChains == {Cost(S) : S \in Chains}

\* A program without rows.
LEMMA NoRows == ASSUME GraphShape PROVE rows = <<>> <=> Nodes = {}
<1>1. rows \in Seq(Rows) /\ Nodes = 1..Len(rows) /\ Len(rows) \in Nat
  BY ShapeFacts DEF GraphShape
<1>2. rows = <<>> <=> Len(rows) = 0
  BY <1>1, EmptySeq
<1>3. Len(rows) = 0 <=> 1..Len(rows) = {}
  <2>1. Len(rows) # 0 => 1 \in 1..Len(rows)
    BY <1>1
  <2> QED BY <1>1, <2>1
<1> QED BY <1>1, <1>2, <1>3

\* When the last rows finish.
LEMMA SpanFacts ==
    ASSUME GraphShape
    PROVE  /\ Span \in Nat
           /\ \A n \in Nodes : Finish[n] <= Span
           /\ \A n : FinishesLast(n, Nodes) => Finish[n] = Span
           /\ rows = <<>> => Span = 0
<1>1. /\ Finish \in [Nodes -> Nat] /\ IsFiniteSet(Nodes)
  BY ShapeFacts, FinishFacts
<1>2. IsLargestOn(Largest(ValuesOn(Finish, Nodes)), Finish, Nodes)
  BY <1>1, LargestOn
<1>3. Span = Largest(ValuesOn(Finish, Nodes))
  BY DEF Span, ValuesOn
<1>4. IsLargestOn(Span, Finish, Nodes)
  BY <1>2, <1>3
<1>5. Span \in Nat /\ (\A n \in Nodes : Finish[n] <= Span)
      /\ (Span = 0 \/ \E n \in Nodes : Span = Finish[n])
  BY <1>4 DEF IsLargestOn
<1>6. ASSUME NEW n, FinishesLast(n, Nodes) PROVE Finish[n] = Span
  <2>1. n \in Nodes /\ Finish[n] \in Nat /\ \A m \in Nodes : Finish[m] <= Finish[n]
    BY <1>1, <1>6 DEF FinishesLast
  <2>2. Span <= Finish[n] /\ Finish[n] <= Span
    BY <1>5, <2>1
  <2> QED BY <1>5, <2>1, <2>2
<1>7. ASSUME rows = <<>> PROVE Span = 0
  <2>1. Nodes = {}
    BY <1>7, NoRows
  <2> QED BY <1>5, <2>1
<1> QED BY <1>5, <1>6, <1>7

\* The span is the cost of the longest chain.
LEMMA SpanIsExact ==
    ASSUME GraphShape
    PROVE  Span = Max({Cost(S) : S \in Chains})
<1>1. /\ Finish \in [Nodes -> Nat] /\ Nodes = 1..Len(rows) /\ Len(rows) \in Nat
  BY ShapeFacts, FinishFacts
<1>2. CostsOfChains \in SUBSET Int
  BY CostFacts DEF CostsOfChains, Chains
<1>3. ASSUME NEW c \in CostsOfChains PROVE c <= Span
  <2>1. PICK S \in Chains : c = Cost(S)
    BY DEF CostsOfChains
  <2>2. Cost(S) = 0 \/ \E m \in Nodes : Cost(S) <= Finish[m]
    BY ChainsFit
  <2>3. Span \in Nat /\ \A n \in Nodes : Finish[n] <= Span
    BY SpanFacts
  <2>4. Cost(S) \in Nat
    BY CostFacts DEF Chains
  <2> QED BY <1>1, <2>1, <2>2, <2>3, <2>4
<1>4. Span \in CostsOfChains
  <2>1. CASE rows = <<>>
    <3>1. {} \in Chains /\ Cost({}) = 0 /\ Span = 0
      BY <2>1, CostFacts, SpanFacts DEF Chains
    <3> QED BY <3>1 DEF CostsOfChains
  <2>2. CASE rows # <<>>
    <3>1. Nodes # {}
      BY <2>2, NoRows
    <3>2. PICK n : FinishesLast(n, Nodes)
      BY <3>1, FinishFacts
    <3>3. n \in Nodes /\ Finish[n] = Span
      BY <3>2, SpanFacts DEF FinishesLast
    <3>4. PICK S : ChainTo(S, n)
      BY <3>3, ChainToEach
    <3>5. S \in Chains /\ Cost(S) = Span
      BY <3>3, <3>4, ChainToIsChain DEF ChainTo
    <3> QED BY <3>5 DEF CostsOfChains
  <2> QED BY <2>1, <2>2
<1>5. Max(CostsOfChains) = Span
  BY <1>2, <1>3, <1>4, MaxIs
<1> QED BY <1>5 DEF CostsOfChains

-----------------------------------------------------------------------------
(* The critical paths.                                                      *)
LatestOf(S) == {n \in S : \A m \in S : Finish[m] <= Finish[n]}

\* what CriticalPaths makes of the paths to the rows before
PathRule(f, n) ==
    IF Largest({Finish[p] : p \in Pred(n)}) = 0 THEN {<<n>>}
    ELSE {Append(path, n) : path \in UNION {f[p] : p \in LatestOf(Pred(n))}}

PathsSolve(f) == f = [n \in Nodes |-> PathRule(f, n)]

Paths == CHOOSE f : PathsSolve(f)

\* The recursion that defines the critical paths has a solution.
LEMMA PathsAreDefined ==
    ASSUME GraphShape
    PROVE  \A n \in Nodes : Paths[n] = PathRule(Paths, n)
<1> DEFINE N == Len(rows)
           V == SUBSET Seq(Nodes)
           B == [n \in 1..N |-> [f \in [1..N -> V] |-> PathRule(f, n)]]
<1>1. N \in Nat /\ Nodes = 1..N
  BY ShapeFacts
<1>2. \A n \in Nodes : \A p \in LatestOf(Pred(n)) : p \in Nodes /\ p \in 1..(n - 1)
  BY <1>1, ShapeFacts DEF LatestOf
<1> HIDE DEF N
<1>3. ASSUME NEW n \in 1..N, NEW f \in [1..N -> V] PROVE PathRule(f, n) \in V
  <2>1. n \in Nodes
    BY <1>1
  <2>2. \A p \in LatestOf(Pred(n)) : f[p] \subseteq Seq(Nodes)
    BY <1>1, <1>2, <2>1
  <2>3. UNION {f[p] : p \in LatestOf(Pred(n))} \subseteq Seq(Nodes)
    BY <2>2
  <2>4. {Append(path, n) : path \in UNION {f[p] : p \in LatestOf(Pred(n))}} \subseteq Seq(Nodes)
    BY <2>1, <2>3
  <2>5. <<n>> \in Seq(Nodes)
    BY <2>1
  <2> QED BY <2>4, <2>5 DEF PathRule
<1>4. ASSUME NEW n \in 1..N, NEW f \in [1..N -> V], NEW g \in [1..N -> V],
             \A m \in 1..(n - 1) : f[m] = g[m]
      PROVE  PathRule(f, n) = PathRule(g, n)
  <2>1. {f[p] : p \in LatestOf(Pred(n))} = {g[p] : p \in LatestOf(Pred(n))}
    BY <1>1, <1>2, <1>4
  <2> QED BY <2>1 DEF PathRule
<1>5. \A n \in 1..N : \A f \in [1..N -> V] : B[n][f] = PathRule(f, n)
  OBVIOUS
<1>6. B \in RuleTables(1, N, V)
  BY <1>3 DEF RuleTables
<1>7. {} \in V
  OBVIOUS
<1> HIDE DEF B, V
<1>8. LooksBack(B, N, V)
  <2> SUFFICES ASSUME NEW n \in 1..N, NEW f \in [1..N -> V], NEW g \in [1..N -> V],
                      \A m \in 1..(n - 1) : f[m] = g[m]
               PROVE  B[n][f] = B[n][g]
    BY DEF LooksBack
  <2>1. PathRule(f, n) = PathRule(g, n)
    BY <1>4
  <2> QED BY <2>1, <1>5
<1>9. PICK f : IsSolution(f, B, N, V)
  BY <1>1, <1>6, <1>7, <1>8, BackwardLooking
<1>10. PathsSolve(f)
  <2>1. f \in [Nodes -> V] /\ \A n \in Nodes : f[n] = PathRule(f, n)
    BY <1>1, <1>5, <1>9 DEF IsSolution
  <2> QED BY <2>1 DEF PathsSolve
<1>11. PathsSolve(Paths)
  BY <1>10 DEF Paths
<1> QED BY <1>11 DEF PathsSolve

\* What CriticalPaths is made of.
LEMMA CriticalPathsAre ==
    CriticalPaths = IF rows = <<>> THEN {<<>>} ELSE Paths[Min(LatestOf(Nodes))]
BY DEF CriticalPaths, Paths, PathsSolve, PathRule, LatestOf

\* Each of the paths to a row is a chain that costs what the row takes to finish.
LEMMA PathsAreChains ==
    ASSUME GraphShape
    PROVE  \A n \in Nodes : \A path \in Paths[n] :
              path \in Seq(Nodes) /\ ChainTo(ToSet(path), n)
<1> DEFINE N == Len(rows)
           IsPath(path, n) == path \in Seq(Nodes) /\ ChainTo(ToSet(path), n)
           T == {n \in 1..N : \A path \in Paths[n] : IsPath(path, n)}
<1>1. N \in Nat /\ Nodes = 1..N
  BY ShapeFacts
<1> HIDE DEF N
<1>2. ASSUME NEW n \in 1..N, 1..(n - 1) \subseteq T, NEW path \in Paths[n]
      PROVE  IsPath(path, n)
  <2>1. n \in Nodes /\ Paths[n] = PathRule(Paths, n)
    BY <1>1, PathsAreDefined
  <2> DEFINE L == Largest({Finish[p] : p \in Pred(n)})
  <2>2. CASE L = 0
    <3>1. path = <<n>>
      BY <1>2, <2>1, <2>2 DEF PathRule
    <3>2. ToSet(<<n>>) = {n}
      BY DEF ToSet
    <3>3. ChainTo({n}, n)
      BY <2>1, <2>2, FinishFacts, ChainGrows
    <3> QED BY <2>1, <3>1, <3>2, <3>3
  <2>3. CASE L # 0
    <3>1. PICK p \in LatestOf(Pred(n)) :
             \E before \in Paths[p] : path = Append(before, n)
      BY <1>2, <2>1, <2>3 DEF PathRule
    <3> PICK before \in Paths[p] : path = Append(before, n)
      BY <3>1
    <3>2. FinishesLast(p, Pred(n))
      BY DEF LatestOf, FinishesLast
    <3>3. p \in 1..(n - 1)
      BY <1>1, <2>1, <3>2, ShapeFacts DEF FinishesLast
    <3>4. IsPath(before, p)
      BY <1>2, <3>3
    <3>5. ToSet(path) = ToSet(before) \cup {n} /\ path \in Seq(Nodes)
      <4>1. before \in Seq(Nodes)
        BY <3>4
      <4>2. /\ Len(path) = Len(before) + 1 /\ Len(before) \in Nat
            /\ DOMAIN before = 1..Len(before) /\ DOMAIN path = 1..Len(path)
            /\ path[Len(before) + 1] = n
            /\ \A i \in 1..Len(before) : path[i] = before[i]
        BY <2>1, <4>1
      <4>3. \A i \in 1..(Len(before) + 1) : i = Len(before) + 1 \/ i \in 1..Len(before)
        BY <4>2
      <4>4. \A i \in 1..Len(before) : i \in 1..Len(path)
        BY <4>2
      <4>5. ToSet(path) = ToSet(before) \cup {n}
        BY <4>2, <4>3, <4>4 DEF ToSet
      <4> QED BY <2>1, <4>1, <4>5
    <3>6. ChainTo(ToSet(before) \cup {n}, n)
      BY <2>1, <3>2, <3>4, ChainGrows
    <3> QED BY <3>5, <3>6
  <2> QED BY <2>2, <2>3
<1>3. ASSUME NEW n \in 1..N, 1..(n - 1) \subseteq T PROVE n \in T
  BY <1>2, <1>3
<1> HIDE DEF T
<1>4. 1..N \subseteq T
  BY <1>1, <1>3, FromThoseBefore
<1> QED BY <1>1, <1>4 DEF T

\* A critical path is a chain that costs as much as the span.
LEMMA CriticalPathsAreCritical ==
    ASSUME GraphShape
    PROVE  \A path \in CriticalPaths :
              ToSet(path) \in Chains /\ Cost(ToSet(path)) = Span
<1> SUFFICES ASSUME NEW path \in CriticalPaths
             PROVE  ToSet(path) \in Chains /\ Cost(ToSet(path)) = Span
  OBVIOUS
<1>1. CASE rows = <<>>
  <2>1. path = <<>>
    BY <1>1, CriticalPathsAre
  <2>2. ToSet(<<>>) = {}
    BY DEF ToSet
  <2>3. {} \in Chains /\ Cost({}) = 0 /\ Span = 0
    BY <1>1, CostFacts, SpanFacts DEF Chains
  <2> QED BY <2>1, <2>2, <2>3
<1>2. CASE rows # <<>>
  <2> DEFINE L == LatestOf(Nodes)
             n == Min(L)
  <2>1. L \subseteq Nat /\ L # {}
    <3>1. Nodes \subseteq Nat
      BY ShapeFacts
    <3>2. Nodes # {} /\ Nodes \in SUBSET Nodes
      BY <1>2, NoRows
    <3>3. PICK p : FinishesLast(p, Nodes)
      BY <3>2, FinishFacts
    <3> QED BY <3>1, <3>3 DEF LatestOf, FinishesLast
  <2>2. n \in L
    <3> HIDE DEF L
    <3>1. PICK x \in L : \A y \in L : x <= y
      BY <2>1, LeastNatural
    <3> QED BY <3>1 DEF Min
  <2>3. FinishesLast(n, Nodes)
    BY <2>2 DEF LatestOf, FinishesLast
  <2> HIDE DEF n
  <2>4. path \in Paths[n]
    BY <1>2, CriticalPathsAre DEF n
  <2>5. n \in Nodes /\ Finish[n] = Span
    BY <2>3, SpanFacts DEF FinishesLast
  <2>6. ChainTo(ToSet(path), n)
    BY <2>4, <2>5, PathsAreChains
  <2> QED BY <2>5, <2>6, ChainToIsChain DEF ChainTo
<1> QED BY <1>1, <1>2

-----------------------------------------------------------------------------
(* One turn of Kuhn's search.                                               *)
Partners(match, U) == {match[v] : v \in U} \ {NoRow}

IsMatching(match, U) ==
    /\ \A v \in U : match[v] # NoRow => v \in Reach[match[v]]
    /\ \A v, w \in U : match[v] = match[w] /\ match[v] # NoRow => v = w

IsClosed(S, match) ==
    \A v \in S : match[v] # NoRow /\ Reach[match[v]] \subseteq S

\* u may be tried: what is not seen is a matching without it, and depth is left
CanTry(u, m, depth) ==
    /\ ~ m.found
    /\ IsMatching(m.match, Nodes \ m.seen)
    /\ u \notin Partners(m.match, Nodes \ m.seen)
    /\ Cardinality(Nodes \ m.seen) <= depth

\* no partner among the candidates up to k, and all they lead to is seen
Fails(u, m, r, k) ==
    /\ ~ r.found /\ r.match = m.match /\ m.seen \subseteq r.seen
    /\ \A v \in Reach[u] : v <= k => v \in r.seen
    /\ \A v \in r.seen \ m.seen :
          m.match[v] # NoRow /\ Reach[m.match[v]] \subseteq r.seen

\* u has got a partner, and all that had one have one
Succeeds(u, m, r) ==
    /\ r.found
    /\ \A v \in m.seen : r.match[v] = m.match[v]
    /\ IsMatching(r.match, Nodes \ m.seen)
    /\ Partners(r.match, Nodes \ m.seen) = Partners(m.match, Nodes \ m.seen) \cup {u}

\* nothing is found, and nothing moved, in a set without a way out
Respects(u, m, r) ==
    \A S \in SUBSET Nodes : IsClosed(S, m.match) =>
        /\ Reach[u] \subseteq S => ~ r.found
        /\ r.found => \A v \in S : r.match[v] = m.match[v]

Tried(u, m, r, k) ==
    /\ r \in Matchings
    /\ Fails(u, m, r, k) \/ Succeeds(u, m, r)
    /\ Respects(u, m, r)

Attempts == [Nodes -> [Matchings -> Matchings]]

Tries(g, depth) ==
    /\ g \in Attempts
    /\ \A u \in Nodes : \A m \in Matchings :
          CanTry(u, m, depth) => Tried(u, m, g[u][m], Len(rows))

Turning(g, u, v, b) ==
    LET tried == [b EXCEPT !.seen = @ \cup {v}]
        moved == IF b.match[v] = NoRow
                 THEN [tried EXCEPT !.found = TRUE]
                 ELSE g[b.match[v]][tried]
    IN  IF b.found \/ v \notin Reach[u] \ b.seen
        THEN b
        ELSE IF moved.found
        THEN [moved EXCEPT !.match[v] = u]
        ELSE moved

\* What a turn makes of a state of the search is one.
LEMMA TurningKeeps ==
    ASSUME GraphShape, NEW g \in Attempts, NEW u \in Nodes, NEW v \in Nodes,
           NEW b \in Matchings
    PROVE  Turning(g, u, v, b) \in Matchings
<1> DEFINE tried == [b EXCEPT !.seen = @ \cup {v}]
           first == [tried EXCEPT !.found = TRUE]
           moved == IF b.match[v] = NoRow THEN first ELSE g[b.match[v]][tried]
<1>1. b.match \in [Nodes -> Nodes \cup {NoRow}] /\ b.seen \in SUBSET Nodes
  BY DEF Matchings
<1>2. tried \in Matchings /\ first \in Matchings
  BY DEF Matchings
<1> HIDE DEF first, tried
<1>3. moved \in Matchings
  <2>1. CASE b.match[v] = NoRow
    BY <1>2, <2>1
  <2>2. CASE b.match[v] # NoRow
    <3>1. b.match[v] \in Nodes
      BY <1>1, <2>2
    <3>2. g[b.match[v]] \in [Matchings -> Matchings]
      BY <3>1 DEF Attempts
    <3>3. g[b.match[v]][tried] \in Matchings
      BY <1>2, <3>2
    <3> QED BY <2>2, <3>3
  <2> QED BY <2>1, <2>2
<1>4. \A r \in Matchings : [r EXCEPT !.match[v] = u] \in Matchings
  BY DEF Matchings
<1>5. Turning(g, u, v, b) = IF b.found \/ v \notin Reach[u] \ b.seen THEN b
                            ELSE IF moved.found THEN [moved EXCEPT !.match[v] = u]
                            ELSE moved
  BY DEF Turning, first, tried
<1> HIDE DEF moved
<1> QED BY <1>3, <1>4, <1>5

\* A row without a partner is one for u.
LEMMA FreeRow ==
    ASSUME GraphShape, NEW u \in Nodes, NEW m \in Matchings, NEW depth,
           CanTry(u, m, depth), NEW b \in Matchings, NEW v \in Nodes,
           Fails(u, m, b, v - 1), v \in Reach[u], v \notin b.seen, b.match[v] = NoRow,
           NEW r \in Matchings, r.found, r.match = [b.match EXCEPT ![v] = u]
    PROVE  Succeeds(u, m, r) /\ Respects(u, m, r)
<1> DEFINE U == Nodes \ m.seen
<1>1. /\ m.match \in [Nodes -> Nodes \cup {NoRow}] /\ m.seen \in SUBSET Nodes
      /\ Nodes \subseteq Nat \ {NoRow}
  BY ShapeFacts DEF Matchings, NoRow
<1>2. b.match = m.match /\ m.seen \subseteq b.seen /\ m.match[v] = NoRow /\ v \in U
  BY DEF Fails
<1>3. \A x \in Nodes : r.match[x] = IF x = v THEN u ELSE m.match[x]
  BY <1>1, <1>2
<1>4. IsMatching(m.match, U) /\ u \notin Partners(m.match, U) /\ U \subseteq Nodes
  BY DEF CanTry
<1>5. u # NoRow /\ \A x \in U : m.match[x] # u
  BY <1>1, <1>4 DEF Partners
<1> HIDE DEF U
<1>6. IsMatching(r.match, U)
  <2>1. \A x \in U : r.match[x] # NoRow => x \in Reach[r.match[x]]
    BY <1>3, <1>4 DEF IsMatching
  <2>2. \A x, y \in U : r.match[x] = r.match[y] /\ r.match[x] # NoRow => x = y
    BY <1>3, <1>4, <1>5 DEF IsMatching
  <2> QED BY <2>1, <2>2 DEF IsMatching
<1>7. Partners(r.match, U) = Partners(m.match, U) \cup {u}
  <2>1. \A x \in U : x # v => r.match[x] = m.match[x]
    BY <1>3, <1>4
  <2>2. r.match[v] = u /\ m.match[v] = NoRow /\ v \in U
    BY <1>2, <1>3
  <2> QED BY <1>5, <2>1, <2>2 DEF Partners
<1>8. \A x \in m.seen : r.match[x] = m.match[x]
  BY <1>1, <1>2, <1>3 DEF U
<1>9. Respects(u, m, r)
  <2> SUFFICES ASSUME NEW S \in SUBSET Nodes, IsClosed(S, m.match)
               PROVE  v \notin S
    BY <1>3 DEF Respects
  <2> QED BY <1>2 DEF IsClosed
<1> QED BY <1>6, <1>7, <1>8, <1>9 DEF Succeeds, U

\* The partner of a row has got another, and u takes its place.
LEMMA MovedPartner ==
    ASSUME GraphShape, NEW u \in Nodes, NEW m \in Matchings, NEW depth,
           CanTry(u, m, depth), NEW b \in Matchings, NEW v \in Nodes,
           Fails(u, m, b, v - 1), v \in Reach[u], v \notin b.seen,
           NEW w \in Nodes, b.match[v] = w, NEW t \in Matchings,
           t.seen = b.seen \cup {v}, t.match = b.match,
           NEW a \in Matchings, Succeeds(w, t, a), Respects(w, t, a),
           NEW r \in Matchings, r.found, r.match = [a.match EXCEPT ![v] = u]
    PROVE  Succeeds(u, m, r) /\ Respects(u, m, r)
<1> DEFINE U == Nodes \ m.seen
           W == Nodes \ t.seen
<1>1. /\ m.match \in [Nodes -> Nodes \cup {NoRow}] /\ m.seen \in SUBSET Nodes
      /\ a.match \in [Nodes -> Nodes \cup {NoRow}]
      /\ Nodes \subseteq Nat \ {NoRow}
  BY ShapeFacts DEF Matchings, NoRow
<1>2. /\ t.match = m.match /\ m.seen \subseteq b.seen /\ m.match[v] = w
      /\ v \in U /\ W \subseteq U /\ v \notin W /\ U \subseteq Nodes
      /\ \A x \in U : x = v \/ x \in W \/ x \in b.seen
      /\ \A x \in b.seen : x \notin W /\ x # v
  BY DEF Fails
<1>3. IsMatching(m.match, U) /\ u \notin Partners(m.match, U)
  BY DEF CanTry
<1>4. u # NoRow /\ w # NoRow /\ \A x \in U : m.match[x] # u
  BY <1>1, <1>3 DEF Partners
<1>5. /\ \A x \in b.seen \cup {v} : a.match[x] = m.match[x]
      /\ IsMatching(a.match, W)
      /\ Partners(a.match, W) = Partners(m.match, W) \cup {w}
  BY <1>2 DEF Succeeds
<1>6. \A x \in Nodes : r.match[x] = IF x = v THEN u ELSE a.match[x]
  BY <1>1
<1>7. m.seen \subseteq b.seen /\ v \notin m.seen /\ b.seen \subseteq Nodes
  BY <1>2 DEF Matchings
<1> HIDE DEF U, W
<1>8. \A y \in W : a.match[y] # NoRow =>
         a.match[y] = w \/ \E z \in W : a.match[y] = m.match[z]
  BY <1>5 DEF Partners
<1>9. ASSUME NEW x \in U, NEW y \in U, r.match[x] = r.match[y], r.match[x] # NoRow
      PROVE  x = y
  <2>1. ASSUME NEW p \in U, NEW q \in W, p \in b.seen, a.match[p] = a.match[q],
               a.match[p] # NoRow
        PROVE  FALSE
    <3>1. a.match[p] = m.match[p] /\ p # v /\ p \notin W
      BY <1>2, <1>5, <2>1
    <3>2. CASE a.match[q] = w
      <4>1. m.match[p] = m.match[v] /\ m.match[p] # NoRow /\ v \in U
        BY <1>2, <2>1, <3>1, <3>2
      <4>2. p = v
        BY <1>3, <4>1 DEF IsMatching
      <4> QED BY <3>1, <4>2
    <3>3. ASSUME NEW z \in W, a.match[q] = m.match[z] PROVE FALSE
      BY <1>2, <1>3, <2>1, <3>1, <3>3 DEF IsMatching
    <3> QED BY <1>8, <2>1, <3>2, <3>3
  <2>2. ASSUME NEW p \in U, p # v, a.match[p] = u PROVE FALSE
    <3>1. CASE p \in b.seen
      BY <1>4, <1>5, <2>2, <3>1
    <3>2. CASE p \in W
      <4>1. CASE a.match[p] = w
        BY <1>2, <1>4, <2>2, <4>1
      <4>2. ASSUME NEW z \in W, a.match[p] = m.match[z] PROVE FALSE
        BY <1>2, <1>4, <2>2, <4>2
      <4> QED BY <1>4, <1>8, <2>2, <3>2, <4>1, <4>2
    <3> QED BY <1>2, <2>2, <3>1, <3>2
  <2>3. x \in Nodes /\ y \in Nodes
    BY <1>2
  <2>4. CASE x = v \/ y = v
    BY <1>6, <1>9, <2>2, <2>3, <2>4
  <2>5. CASE x # v /\ y # v
    <3>1. a.match[x] = a.match[y] /\ a.match[x] # NoRow
      BY <1>6, <1>9, <2>3, <2>5
    <3>2. CASE x \in b.seen /\ y \in b.seen
      BY <1>3, <1>5, <3>1, <3>2 DEF IsMatching
    <3>3. CASE x \in W /\ y \in W
      BY <1>5, <3>1, <3>3 DEF IsMatching
    <3>4. CASE x \in b.seen /\ y \in W
      BY <2>1, <3>1, <3>4
    <3>5. CASE x \in W /\ y \in b.seen
      BY <2>1, <3>1, <3>5
    <3> QED BY <1>2, <2>5, <3>2, <3>3, <3>4, <3>5
  <2> QED BY <2>4, <2>5
<1>10. ASSUME NEW x \in U, r.match[x] # NoRow PROVE x \in Reach[r.match[x]]
  <2>1. x \in Nodes
    BY <1>2
  <2>2. CASE x = v
    BY <1>6, <2>1, <2>2
  <2>3. CASE x # v /\ x \in W
    BY <1>5, <1>6, <1>10, <2>1, <2>3 DEF IsMatching
  <2>4. CASE x # v /\ x \in b.seen
    BY <1>3, <1>5, <1>6, <1>10, <2>1, <2>4 DEF IsMatching
  <2> QED BY <1>2, <2>2, <2>3, <2>4
<1>11. IsMatching(r.match, U)
  BY <1>9, <1>10 DEF IsMatching
<1>12. Partners(r.match, U) = Partners(m.match, U) \cup {u}
  <2>1. ASSUME NEW x \in U, r.match[x] # NoRow
        PROVE  r.match[x] \in Partners(m.match, U) \cup {u}
    <3>1. x \in Nodes
      BY <1>2
    <3>2. CASE x = v
      BY <1>6, <3>1, <3>2
    <3>3. CASE x # v /\ x \in b.seen
      <4>1. r.match[x] = m.match[x]
        BY <1>5, <1>6, <3>1, <3>3
      <4> QED BY <2>1, <4>1 DEF Partners
    <3>4. CASE x # v /\ x \in W
      <4>1. r.match[x] = a.match[x]
        BY <1>6, <3>1, <3>4
      <4>2. CASE a.match[x] = w
        BY <1>2, <2>1, <4>1, <4>2 DEF Partners
      <4>3. ASSUME NEW z \in W, a.match[x] = m.match[z]
            PROVE  r.match[x] \in Partners(m.match, U)
        BY <1>2, <2>1, <4>1, <4>3 DEF Partners
      <4> QED BY <1>8, <2>1, <3>4, <4>1, <4>2, <4>3
    <3> QED BY <1>2, <3>2, <3>3, <3>4
  <2>2. ASSUME NEW x \in U, m.match[x] # NoRow
        PROVE  \E y \in U : r.match[y] = m.match[x]
    <3>1. CASE x \in b.seen
      BY <1>2, <1>5, <1>6, <3>1
    <3>2. CASE x \in W \/ x = v
      <4>1. m.match[x] \in Partners(a.match, W)
        BY <1>2, <1>5, <2>2, <3>2 DEF Partners
      <4>2. PICK y \in W : a.match[y] = m.match[x]
        BY <4>1 DEF Partners
      <4>3. y \in U /\ y \in Nodes /\ y # v
        BY <1>2
      <4> QED BY <1>6, <4>2, <4>3
    <3> QED BY <1>2, <3>1, <3>2
  <2>3. r.match[v] = u /\ v \in U
    BY <1>2, <1>6
  <2>4. \A p \in Partners(r.match, U) : p \in Partners(m.match, U) \cup {u}
    BY <2>1 DEF Partners
  <2>5. \A p \in Partners(m.match, U) : p \in Partners(r.match, U)
    BY <2>2 DEF Partners
  <2>6. u \in Partners(r.match, U)
    BY <1>4, <2>3 DEF Partners
  <2> QED BY <2>4, <2>5, <2>6
<1>13. \A x \in m.seen : r.match[x] = m.match[x]
  BY <1>1, <1>5, <1>6, <1>7
<1>14. Respects(u, m, r)
  <2> SUFFICES ASSUME NEW S \in SUBSET Nodes, IsClosed(S, m.match)
               PROVE  /\ ~ Reach[u] \subseteq S
                      /\ \A x \in S : r.match[x] = m.match[x]
    BY DEF Respects
  <2>1. IsClosed(S, t.match) /\ a.found
    BY <1>2 DEF Succeeds
  <2>2. ~ Reach[w] \subseteq S /\ \A x \in S : a.match[x] = t.match[x]
    BY <2>1 DEF Respects
  <2>3. v \notin S
    BY <1>2, <2>2 DEF IsClosed
  <2> QED BY <1>2, <1>6, <2>2, <2>3
<1> QED BY <1>11, <1>12, <1>13, <1>14 DEF Succeeds, U

-----------------------------------------------------------------------------
(* One call of it.                                                          *)
\* The partner of a row has got no other.
LEMMA KeptPartner ==
    ASSUME GraphShape, NEW u \in Nodes, NEW m \in Matchings, NEW depth,
           CanTry(u, m, depth), NEW b \in Matchings, NEW v \in Nodes,
           Fails(u, m, b, v - 1), v \notin b.seen,
           NEW w \in Nodes, b.match[v] = w, NEW t \in Matchings,
           t.seen = b.seen \cup {v}, t.match = b.match,
           NEW a \in Matchings, Fails(w, t, a, Len(rows))
    PROVE  Fails(u, m, a, v) /\ Respects(u, m, a)
<1>1. /\ Nodes = 1..Len(rows) /\ Len(rows) \in Nat /\ w # NoRow
      /\ \A n \in Nodes : Reach[n] \subseteq Nodes
  BY ShapeFacts, ReachFacts DEF NoRow
<1>2. ~ a.found /\ a.match = m.match /\ m.seen \subseteq a.seen /\ m.match[v] = w
      /\ b.seen \subseteq a.seen /\ v \in a.seen
  BY DEF Fails
<1>3. ASSUME NEW x \in Reach[u], x <= v PROVE x \in a.seen
  <2>1. x \in Nodes /\ (x = v \/ x <= v - 1)
    BY <1>1, <1>3
  <2> QED BY <1>2, <2>1 DEF Fails
<1>4. Reach[w] \subseteq a.seen
  BY <1>1 DEF Fails
<1>5. ASSUME NEW x \in a.seen \ m.seen
      PROVE  m.match[x] # NoRow /\ Reach[m.match[x]] \subseteq a.seen
  <2>1. CASE x \in b.seen
    BY <1>2, <2>1 DEF Fails
  <2>2. CASE x = v
    BY <1>1, <1>2, <1>4, <2>2
  <2>3. CASE x \notin t.seen
    BY <1>2, <2>3 DEF Fails
  <2> QED BY <2>1, <2>2, <2>3
<1>6. Respects(u, m, a)
  BY <1>2 DEF Respects
<1> QED BY <1>2, <1>3, <1>5, <1>6 DEF Fails

\* One row fewer of the rows not seen.
LEMMA OneFewer ==
    ASSUME GraphShape, NEW S \in SUBSET Nodes, NEW T \in SUBSET Nodes,
           S \subseteq T, NEW v \in Nodes, v \notin T, NEW d \in Nat,
           Cardinality(Nodes \ S) <= d
    PROVE  d # 0 /\ Cardinality(Nodes \ (T \cup {v})) <= d - 1
<1> DEFINE A == Nodes \ S
           B == A \ {v}
           C == Nodes \ (T \cup {v})
<1>1. IsFiniteSet(A) /\ v \in A /\ C \subseteq B
  <2>1. IsFiniteSet(Nodes)
    BY ShapeFacts
  <2>2. IsFiniteSet(A)
    BY <2>1, FS_Subset
  <2> QED BY <2>2
<1> HIDE DEF A, C
<1>2. IsFiniteSet(B) /\ Cardinality(B) = Cardinality(A) - 1
  BY <1>1, FS_RemoveElement
<1>3. Cardinality(C) <= Cardinality(B) /\ IsFiniteSet(C)
  BY <1>1, <1>2, FS_Subset
<1>4. Cardinality(A) \in Nat /\ Cardinality(B) \in Nat /\ Cardinality(C) \in Nat
  BY <1>1, <1>2, <1>3, FS_CardinalityType
<1>5. Cardinality(A) <= d
  BY DEF A
<1>6. Cardinality(A) # 0
  BY <1>2, <1>4
<1> QED BY <1>2, <1>3, <1>4, <1>5, <1>6 DEF C

\* A turn of the search.
LEMMA TurningWorks ==
    ASSUME GraphShape, NEW d \in Nat, d # 0, NEW g, Tries(g, d - 1),
           NEW u \in Nodes, NEW m \in Matchings, CanTry(u, m, d),
           NEW v \in Nodes, NEW b \in Matchings, Tried(u, m, b, v - 1)
    PROVE  Tried(u, m, Turning(g, u, v, b), v)
<1> DEFINE t == [b EXCEPT !.seen = @ \cup {v}]
           first == [t EXCEPT !.found = TRUE]
           r == Turning(g, u, v, b)
<1>1. r \in Matchings
  BY TurningKeeps DEF Tries
<1>2. /\ b.match \in [Nodes -> Nodes \cup {NoRow}] /\ b.seen \in SUBSET Nodes
      /\ b.found \in BOOLEAN /\ m.seen \in SUBSET Nodes
      /\ b = [seen |-> b.seen, match |-> b.match, found |-> b.found]
  BY DEF Matchings
<1>3. t \in Matchings /\ t.seen = b.seen \cup {v} /\ t.match = b.match /\ t.found = b.found
  BY <1>2 DEF Matchings
<1>4. first \in Matchings /\ first.found /\ first.match = b.match
  BY <1>2 DEF Matchings
<1>5. CASE b.found
  <2>1. r = b
    BY <1>5 DEF Turning
  <2>2. Succeeds(u, m, b)
    BY <1>5 DEF Tried, Fails
  <2> QED BY <1>1, <2>1, <2>2 DEF Tried
<1>6. CASE ~ b.found /\ v \notin Reach[u] \ b.seen
  <2>1. r = b
    BY <1>6 DEF Turning
  <2>2. Fails(u, m, b, v - 1)
    BY <1>6 DEF Tried, Succeeds
  <2>3. \A x \in Reach[u] : x <= v => x \in b.seen
    <3> TAKE x \in Reach[u]
    <3> HAVE x <= v
    <3>1. x \in Nat /\ v \in Nat
      BY ShapeFacts, ReachFacts
    <3>2. x = v \/ x <= v - 1
      BY <3>1
    <3> QED BY <1>6, <2>2, <3>2 DEF Fails
  <2>4. Fails(u, m, b, v)
    BY <2>2, <2>3 DEF Fails
  <2> QED BY <1>1, <2>1, <2>4 DEF Tried
<1>7. CASE ~ b.found /\ v \in Reach[u] /\ v \notin b.seen
  <2>1. Fails(u, m, b, v - 1)
    BY <1>7 DEF Tried, Succeeds
  <2>2. CASE b.match[v] = NoRow
    <3>1. r = [first EXCEPT !.match[v] = u]
      BY <1>4, <1>7, <2>2 DEF Turning
    <3>2. r.found /\ r.match = [b.match EXCEPT ![v] = u]
      BY <1>2, <3>1
    <3> HIDE DEF r
    <3>3. Succeeds(u, m, r) /\ Respects(u, m, r)
      BY <1>1, <1>7, <2>1, <2>2, <3>2, FreeRow
    <3> QED BY <1>1, <3>3 DEF Tried, r
  <2>3. CASE b.match[v] # NoRow
    <3> DEFINE w == b.match[v]
               a == g[w][t]
    <3>1. w \in Nodes
      BY <1>2, <2>3
    <3>2. b.match = m.match /\ m.seen \subseteq b.seen
      BY <2>1 DEF Fails
    <3>3. CanTry(w, t, d - 1)
      <4>1. ~ t.found
        BY <1>3, <1>7
      <4>2. IsMatching(m.match, Nodes \ m.seen) /\ v \in Nodes \ m.seen
        BY <1>7, <3>2 DEF CanTry
      <4>3. Nodes \ t.seen \subseteq Nodes \ m.seen /\ v \notin Nodes \ t.seen
        BY <1>3, <3>2
      <4>4. IsMatching(m.match, Nodes \ t.seen)
        BY <4>2, <4>3 DEF IsMatching
      <4>5. w \notin Partners(m.match, Nodes \ t.seen)
        <5> SUFFICES ASSUME NEW x \in Nodes \ t.seen, m.match[x] = w PROVE FALSE
          BY DEF Partners
        <5>1. m.match[v] = m.match[x] /\ m.match[v] # NoRow /\ x \in Nodes \ m.seen
          BY <2>3, <3>2, <4>3
        <5>2. v = x
          BY <4>2, <5>1 DEF IsMatching
        <5> QED BY <4>3, <5>2
      <4>6. Cardinality(Nodes \ (b.seen \cup {v})) <= d - 1
        BY <1>2, <1>7, <3>2, OneFewer DEF CanTry
      <4> QED BY <1>3, <3>2, <4>1, <4>4, <4>5, <4>6 DEF CanTry
    <3>4. Tried(w, t, a, Len(rows)) /\ a \in Matchings
      BY <1>3, <3>1, <3>3 DEF Tries, Tried
    <3>5. r = IF a.found THEN [a EXCEPT !.match[v] = u] ELSE a
      BY <1>7, <2>3 DEF Turning
    <3>6. CASE a.found
      <4>1. Succeeds(w, t, a) /\ Respects(w, t, a)
        BY <3>4, <3>6 DEF Tried, Fails
      <4>2. r.found /\ r.match = [a.match EXCEPT ![v] = u]
        BY <3>4, <3>5, <3>6 DEF Matchings
      <4> HIDE DEF r, a, t
      <4>3. Succeeds(u, m, r) /\ Respects(u, m, r)
        BY <1>1, <1>3, <1>7, <2>1, <3>1, <3>4, <4>1, <4>2, MovedPartner
      <4> QED BY <1>1, <4>3 DEF Tried, r
    <3>7. CASE ~ a.found
      <4>1. Fails(w, t, a, Len(rows))
        BY <3>4, <3>7 DEF Tried, Succeeds
      <4> HIDE DEF a, t
      <4>2. Fails(u, m, a, v) /\ Respects(u, m, a)
        BY <1>3, <1>7, <2>1, <3>1, <3>4, <4>1, KeptPartner
      <4> QED BY <1>1, <3>5, <3>7, <4>2 DEF Tried
    <3> QED BY <3>6, <3>7
  <2> QED BY <2>2, <2>3
<1> QED BY <1>2, <1>5, <1>6, <1>7

\* Before the first turn.
LEMMA NothingTried ==
    ASSUME GraphShape, NEW u \in Nodes, NEW m \in Matchings, NEW d, CanTry(u, m, d)
    PROVE  Tried(u, m, m, 0)
<1>1. \A v \in Reach[u] : ~ (v <= 0)
  BY ShapeFacts, ReachFacts
<1> QED BY <1>1 DEF Tried, Fails, Respects, CanTry

\* With all rows seen there is nothing to try.
LEMMA NoneToTry ==
    ASSUME GraphShape
    PROVE  Tries([u \in Nodes |-> [m \in Matchings |-> m]], 0)
<1> SUFFICES ASSUME NEW u \in Nodes, NEW m \in Matchings, CanTry(u, m, 0)
             PROVE  Tried(u, m, m, Len(rows))
  BY DEF Tries, Attempts
<1>1. IsFiniteSet(Nodes \ m.seen)
  BY ShapeFacts, FS_Subset
<1>2. Cardinality(Nodes \ m.seen) = 0
  BY <1>1, FS_CardinalityType DEF CanTry
<1>3. Nodes \ m.seen = {}
  BY <1>1, <1>2, FS_EmptySet
<1>4. Reach[u] \subseteq m.seen
  BY <1>3, ReachFacts
<1> QED BY <1>4 DEF Tried, Fails, Respects, CanTry

-----------------------------------------------------------------------------
(* The recursions that define it.                                           *)
TurningsSolve(t, g, u, m) ==
    t = [v \in 0..Len(rows) |-> IF v = 0 THEN m ELSE Turning(g, u, v, t[v - 1])]

Turnings(g, u, m) == CHOOSE t : TurningsSolve(t, g, u, m)

\* The recursion that defines the turns of a search has a solution.
LEMMA TurningsAre ==
    ASSUME GraphShape, NEW g \in Attempts, NEW u \in Nodes, NEW m \in Matchings
    PROVE  /\ Turnings(g, u, m)[0] = m
           /\ \A v \in Nodes :
                 Turnings(g, u, m)[v] = Turning(g, u, v, Turnings(g, u, m)[v - 1])
           /\ \A v \in 0..Len(rows) : Turnings(g, u, m)[v] \in Matchings
<1> DEFINE N == Len(rows)
           V == Matchings
           Step == [v \in 1..N |-> [b \in V |-> Turning(g, u, v, b)]]
           turn == Turnings(g, u, m)
<1>1. N \in Nat /\ Nodes = 1..N
  BY ShapeFacts
<1> HIDE DEF N
<1>2. \A v \in 1..N : \A b \in V : Turning(g, u, v, b) \in V
  BY <1>1, TurningKeeps
<1>3. m \in V
  OBVIOUS
<1> HIDE DEF V
<1>4. Step \in Steps(N, V)
  BY <1>2 DEF Steps
<1>5. \A v \in 1..N : \A b \in V : Step[v][b] = Turning(g, u, v, b)
  OBVIOUS
<1> HIDE DEF Step
<1>6. PICK f : IsTable(f, N, V, m, Step)
  BY <1>1, <1>3, <1>4, StepRecursion
<1>7. \A v \in 0..N : v = 0 \/ (v \in 1..N /\ v - 1 \in 0..N)
  BY <1>1
<1>8. f = [v \in 0..N |-> IF v = 0 THEN m ELSE Turning(g, u, v, f[v - 1])]
  <2>1. \A v \in 0..N : f[v] = IF v = 0 THEN m ELSE Turning(g, u, v, f[v - 1])
    BY <1>5, <1>6, <1>7 DEF IsTable
  <2>2. f = [v \in 0..N |-> f[v]]
    BY <1>6 DEF IsTable
  <2> QED BY <2>1, <2>2
<1>9. TurningsSolve(turn, g, u, m)
  BY <1>8 DEF Turnings, TurningsSolve, N
<1> HIDE DEF turn
<1>10. \A v \in 0..N : turn[v] = IF v = 0 THEN m ELSE Turning(g, u, v, turn[v - 1])
  BY <1>9 DEF TurningsSolve, N
<1> DEFINE T == {v \in 0..N : turn[v] \in V}
<1>11. 0 \in T
  BY <1>1, <1>3, <1>10
<1>12. ASSUME NEW v \in 1..N, v - 1 \in T PROVE v \in T
  <2>1. v \in 0..N /\ v # 0
    BY <1>1
  <2> QED BY <1>2, <1>10, <1>12, <2>1
<1> HIDE DEF T
<1>13. 0..N \subseteq T
  BY <1>1, <1>11, <1>12, BoundedInduction
<1>14. \A v \in 0..N : turn[v] \in Matchings
  BY <1>13 DEF T, V
<1>15. turn[0] = m
  BY <1>1, <1>10
<1>16. \A v \in Nodes : turn[v] = Turning(g, u, v, turn[v - 1])
  <2>1. \A v \in Nodes : v \in 0..N /\ v # 0
    BY <1>1
  <2> QED BY <1>10, <2>1
<1> QED BY <1>14, <1>15, <1>16 DEF turn, N

\* A whole search works when the searches that it calls do.
LEMMA TurningsWork ==
    ASSUME GraphShape, NEW d \in Nat, d # 0, NEW g, Tries(g, d - 1),
           NEW u \in Nodes, NEW m \in Matchings, CanTry(u, m, d)
    PROVE  Tried(u, m, Turnings(g, u, m)[Len(rows)], Len(rows))
<1> DEFINE N == Len(rows)
           turn == Turnings(g, u, m)
           T == {v \in 0..N : Tried(u, m, turn[v], v)}
<1>1. N \in Nat /\ Nodes = 1..N /\ g \in Attempts
  BY ShapeFacts DEF Tries
<1>2. /\ turn[0] = m
      /\ \A v \in Nodes : turn[v] = Turning(g, u, v, turn[v - 1])
  BY <1>1, TurningsAre
<1> HIDE DEF N, turn
<1>3. 0 \in T
  BY <1>1, <1>2, NothingTried
<1>4. ASSUME NEW v \in 1..N, v - 1 \in T PROVE v \in T
  <2>1. Tried(u, m, turn[v - 1], v - 1) /\ turn[v - 1] \in Matchings /\ v \in Nodes
    BY <1>1, <1>4 DEF Tried
  <2>2. Tried(u, m, Turning(g, u, v, turn[v - 1]), v)
    BY <2>1, TurningWorks
  <2>3. v \in 0..N
    BY <1>1
  <2> QED BY <1>2, <2>1, <2>2, <2>3
<1> HIDE DEF T
<1>5. 0..N \subseteq T
  BY <1>1, <1>3, <1>4, BoundedInduction
<1>6. N \in T
  BY <1>1, <1>5
<1> QED BY <1>6 DEF T, N, turn

Searches(g) ==
    [u \in Nodes |-> [m \in Matchings |-> Turnings(g, u, m)[Len(rows)]]]

SearchesSolve(f) ==
    f = [depth \in 0..Len(rows) |-> [u \in Nodes |-> [m \in Matchings |->
            IF depth = 0 THEN m ELSE Turnings(f[depth - 1], u, m)[Len(rows)]]]]

\* What TryMatch is made of.
LEMMA TryMatchIs == TryMatch = (CHOOSE f : SearchesSolve(f))[Len(rows)]
BY DEF TryMatch, SearchesSolve, Turnings, TurningsSolve, Turning

\* A search by Kuhn's algorithm does what it is for.
LEMMA TryMatchWorks ==
    ASSUME GraphShape
    PROVE  Tries(TryMatch, Len(rows))
<1> DEFINE N == Len(rows)
           V == Attempts
           start == [u \in Nodes |-> [m \in Matchings |-> m]]
           Step == [d \in 1..N |-> [g \in V |-> Searches(g)]]
           search == CHOOSE f : SearchesSolve(f)
<1>1. N \in Nat /\ Nodes = 1..N /\ N \in 0..N
  BY ShapeFacts
<1> HIDE DEF N
<1>2. \A g \in V : Searches(g) \in V
  <2> TAKE g \in V
  <2>1. \A u \in Nodes : \A m \in Matchings : Turnings(g, u, m)[Len(rows)] \in Matchings
    BY <1>1, TurningsAre DEF N
  <2> QED BY <2>1 DEF Searches, Attempts
<1>3. start \in V
  BY DEF Attempts
<1>4. Tries(start, 0)
  BY NoneToTry
<1>5. \A f : \A d \in 0..N :
         [u \in Nodes |-> [m \in Matchings |->
             IF d = 0 THEN m ELSE Turnings(f[d - 1], u, m)[Len(rows)]]]
         = IF d = 0 THEN start ELSE Searches(f[d - 1])
  BY DEF Searches
<1> HIDE DEF V, start
<1>6. Step \in Steps(N, V)
  BY <1>2 DEF Steps
<1>7. \A d \in 1..N : \A g \in V : Step[d][g] = Searches(g)
  OBVIOUS
<1> HIDE DEF Step
<1>8. PICK f : IsTable(f, N, V, start, Step)
  BY <1>1, <1>3, <1>6, StepRecursion
<1>9. \A d \in 0..N : d = 0 \/ (d \in 1..N /\ d - 1 \in 0..N)
  BY <1>1
<1>10. \A h : SearchesSolve(h) <=>
          h = [d \in 0..N |-> IF d = 0 THEN start ELSE Searches(h[d - 1])]
  <2> TAKE h
  <2>1. [d \in 0..N |-> [u \in Nodes |-> [m \in Matchings |->
            IF d = 0 THEN m ELSE Turnings(h[d - 1], u, m)[Len(rows)]]]]
        = [d \in 0..N |-> IF d = 0 THEN start ELSE Searches(h[d - 1])]
    BY <1>5
  <2> QED BY <2>1 DEF SearchesSolve, N
<1>11. SearchesSolve(f)
  <2>1. \A d \in 0..N : f[d] = IF d = 0 THEN start ELSE Searches(f[d - 1])
    BY <1>7, <1>8, <1>9 DEF IsTable
  <2>2. f = [d \in 0..N |-> f[d]]
    BY <1>8 DEF IsTable
  <2> QED BY <1>10, <2>1, <2>2
<1>12. SearchesSolve(search)
  BY <1>11
<1> HIDE DEF search
<1>13. \A d \in 0..N : search[d] = IF d = 0 THEN start ELSE Searches(search[d - 1])
  BY <1>10, <1>12
<1> DEFINE T == {d \in 0..N : Tries(search[d], d)}
<1>14. 0 \in T
  BY <1>1, <1>4, <1>13
<1>15. ASSUME NEW d \in 1..N, d - 1 \in T PROVE d \in T
  <2> DEFINE g == search[d - 1]
  <2>1. Tries(g, d - 1) /\ d \in 0..N /\ d # 0 /\ d \in Nat
    BY <1>1, <1>15
  <2>2. search[d] = Searches(g)
    BY <1>13, <2>1
  <2> HIDE DEF g
  <2>3. Searches(g) \in Attempts
    BY <1>2, <2>1 DEF Tries, V
  <2>4. \A u \in Nodes : \A m \in Matchings :
           Searches(g)[u][m] = Turnings(g, u, m)[Len(rows)]
    BY DEF Searches
  <2>5. \A u \in Nodes : \A m \in Matchings :
           CanTry(u, m, d) => Tried(u, m, Searches(g)[u][m], Len(rows))
    <3> SUFFICES ASSUME NEW u \in Nodes, NEW m \in Matchings, CanTry(u, m, d)
                 PROVE  Tried(u, m, Searches(g)[u][m], Len(rows))
      OBVIOUS
    <3>1. Tried(u, m, Turnings(g, u, m)[Len(rows)], Len(rows))
      BY <2>1, TurningsWork
    <3> QED BY <2>4, <3>1
  <2>6. Tries(Searches(g), d)
    BY <2>3, <2>5 DEF Tries
  <2> QED BY <2>1, <2>2, <2>6
<1> HIDE DEF T
<1>16. 0..N \subseteq T
  BY <1>1, <1>14, <1>15, BoundedInduction
<1>17. Tries(search[N], N)
  BY <1>1, <1>16 DEF T
<1> QED BY <1>17, TryMatchIs DEF search, N

-----------------------------------------------------------------------------
(* One round: a row more has been tried.                                    *)
\* the state of _exact_max_antichain between two calls of try_k
Rounds == [size : Nat, match : [Nodes -> Nodes \cup {NoRow}]]

Round(g, u, before) ==
    LET m == g[u][[seen |-> {}, match |-> before.match, found |-> FALSE]]
    IN  [size |-> before.size + (IF m.found THEN 1 ELSE 0), match |-> m.match]

RoundsSolve(t) ==
    t = [u \in 0..Len(rows) |->
            IF u = 0 THEN [size |-> 0, match |-> [n \in Nodes |-> NoRow]]
            ELSE Round(TryMatch, u, t[u - 1])]

\* What Width is made of.
LEMMA WidthIs == Width = Len(rows) - (CHOOSE t : RoundsSolve(t))[Len(rows)].size
BY DEF Width, RoundsSolve, Round

\* all partners found so far, and what shows that the rows left over have none
Matched(r, k) ==
    /\ r \in Rounds
    /\ IsMatching(r.match, Nodes)
    /\ Partners(r.match, Nodes) \subseteq 1..k
    /\ r.size = Cardinality(Partners(r.match, Nodes))
    /\ \E S \in SUBSET Nodes :
          /\ IsClosed(S, r.match)
          /\ \A u \in (1..k) \ Partners(r.match, Nodes) : Reach[u] \subseteq S

\* A round makes of a round one.
LEMMA RoundKeeps ==
    ASSUME GraphShape, NEW u \in Nodes, NEW r \in Rounds
    PROVE  Round(TryMatch, u, r) \in Rounds
<1> DEFINE m == [seen |-> {}, match |-> r.match, found |-> FALSE]
<1>1. m \in Matchings
  BY DEF Matchings, Rounds
<1>2. TryMatch[u][m] \in Matchings
  BY <1>1, TryMatchWorks DEF Tries, Attempts
<1> HIDE DEF m
<1>3. Round(TryMatch, u, r) = [size |-> r.size + (IF TryMatch[u][m].found THEN 1 ELSE 0),
                               match |-> TryMatch[u][m].match]
  BY DEF Round, m
<1>4. r.size + (IF TryMatch[u][m].found THEN 1 ELSE 0) \in Nat
  BY DEF Rounds
<1> QED BY <1>2, <1>3, <1>4 DEF Matchings, Rounds

\* A round finds a partner for its row, or shows that there is none.
LEMMA RoundWorks ==
    ASSUME GraphShape, NEW u \in Nodes, NEW r, Matched(r, u - 1)
    PROVE  Matched(Round(TryMatch, u, r), u)
<1> DEFINE m == [seen |-> {}, match |-> r.match, found |-> FALSE]
           a == TryMatch[u][m]
           q == Round(TryMatch, u, r)
<1>1. /\ Nodes = 1..Len(rows) /\ Len(rows) \in Nat /\ IsFiniteSet(Nodes)
      /\ \A n \in Nodes : Reach[n] \subseteq Nodes
  BY ShapeFacts, ReachFacts
<1>2. r \in Rounds /\ q \in Rounds
  BY RoundKeeps DEF Matched
<1>3. m \in Matchings /\ m.seen = {} /\ m.match = r.match /\ ~ m.found
  BY <1>2 DEF Matchings, Rounds
<1>4. IsMatching(r.match, Nodes) /\ Partners(r.match, Nodes) \subseteq 1..(u - 1)
      /\ r.size = Cardinality(Partners(r.match, Nodes))
  BY DEF Matched
<1>5. u \notin Partners(r.match, Nodes)
  BY <1>1, <1>4
<1>6. CanTry(u, m, Len(rows))
  <2>1. Cardinality(Nodes) = Len(rows)
    <3> DEFINE N == Len(rows)
    <3>1. N \in Nat /\ Nodes = 1..N
      BY <1>1
    <3> HIDE DEF N
    <3>2. Cardinality(1..N) = N
      BY <3>1, FS_Interval
    <3> QED BY <3>1, <3>2 DEF N
  <2>2. Nodes \ m.seen = Nodes
    BY <1>3
  <2> QED BY <1>1, <1>3, <1>4, <1>5, <2>1, <2>2 DEF CanTry
<1>7. Tried(u, m, a, Len(rows))
  BY <1>3, <1>6, TryMatchWorks DEF Tries
<1>8. q.size = r.size + (IF a.found THEN 1 ELSE 0) /\ q.match = a.match
  BY DEF Round
<1> HIDE DEF m, a, q
<1>9. PICK S \in SUBSET Nodes :
         /\ IsClosed(S, r.match)
         /\ \A n \in (1..(u - 1)) \ Partners(r.match, Nodes) : Reach[n] \subseteq S
  BY DEF Matched
<1>10. \A n \in 1..u : n = u \/ n \in 1..(u - 1)
  BY <1>1
<1>11. 1..(u - 1) \subseteq 1..u /\ u \in 1..u
  BY <1>1
<1>12. ASSUME a.found PROVE Matched(q, u)
  <2>1. /\ IsMatching(q.match, Nodes)
        /\ Partners(q.match, Nodes) = Partners(r.match, Nodes) \cup {u}
    <3>1. Nodes \ m.seen = Nodes
      BY <1>3
    <3> QED BY <1>3, <1>7, <1>8, <1>12, <3>1 DEF Tried, Fails, Succeeds
  <2>2. q.size = Cardinality(Partners(q.match, Nodes))
    <3>1. Partners(r.match, Nodes) \subseteq Nodes
      BY <1>1, <1>4
    <3>2. IsFiniteSet(Partners(r.match, Nodes))
      BY <1>1, <3>1, FS_Subset
    <3>3. Cardinality(Partners(r.match, Nodes) \cup {u})
          = Cardinality(Partners(r.match, Nodes)) + 1
      BY <1>5, <3>2, FS_AddElement
    <3> QED BY <1>4, <1>8, <1>12, <2>1, <3>3
  <2>3. IsClosed(S, q.match)
    <3>1. \A v \in S : q.match[v] = r.match[v]
      BY <1>3, <1>7, <1>8, <1>9, <1>12 DEF Tried, Respects
    <3> QED BY <1>9, <3>1 DEF IsClosed
  <2>4. \A n \in (1..u) \ Partners(q.match, Nodes) : Reach[n] \subseteq S
    BY <1>9, <1>10, <2>1
  <2>5. Partners(q.match, Nodes) \subseteq 1..u
    BY <1>4, <1>11, <2>1
  <2>6. \E Z \in SUBSET Nodes :
           /\ IsClosed(Z, q.match)
           /\ \A n \in (1..u) \ Partners(q.match, Nodes) : Reach[n] \subseteq Z
    BY <2>3, <2>4
  <2> QED BY <1>2, <2>1, <2>2, <2>5, <2>6 DEF Matched
<1>13. ASSUME ~ a.found PROVE Matched(q, u)
  <2> DEFINE T == S \cup a.seen
  <2>1. Fails(u, m, a, Len(rows)) /\ a \in Matchings
    BY <1>7, <1>13 DEF Tried, Succeeds
  <2>2. q.match = r.match /\ q.size = r.size
    BY <1>2, <1>3, <1>8, <1>13, <2>1 DEF Fails, Rounds
  <2>3. T \in SUBSET Nodes /\ IsClosed(T, r.match)
    <3>1. a.seen \in SUBSET Nodes
      BY <2>1 DEF Matchings
    <3>2. \A v \in a.seen : r.match[v] # NoRow /\ Reach[r.match[v]] \subseteq a.seen
      BY <1>3, <2>1 DEF Fails
    <3> QED BY <1>9, <3>1, <3>2 DEF IsClosed
  <2>4. Reach[u] \subseteq a.seen
    BY <1>1, <2>1 DEF Fails
  <2>5. \A n \in (1..u) \ Partners(q.match, Nodes) : Reach[n] \subseteq T
    BY <1>9, <1>10, <2>2, <2>4
  <2>6. Partners(q.match, Nodes) \subseteq 1..u
    BY <1>4, <1>11, <2>2
  <2> HIDE DEF T
  <2>7. \E Z \in SUBSET Nodes :
           /\ IsClosed(Z, q.match)
           /\ \A n \in (1..u) \ Partners(q.match, Nodes) : Reach[n] \subseteq Z
    BY <2>2, <2>3, <2>5
  <2> QED BY <1>2, <1>4, <2>2, <2>6, <2>7 DEF Matched
<1> QED BY <1>12, <1>13 DEF q

-----------------------------------------------------------------------------
(* Dilworth's theorem.                                                      *)
\* After the last round all rows that can have a partner have one.
LEMMA RoundsWork ==
    ASSUME GraphShape
    PROVE  \E r : Matched(r, Len(rows)) /\ Width = Len(rows) - r.size
<1> DEFINE N == Len(rows)
           V == Rounds
           start == [size |-> 0, match |-> [n \in Nodes |-> NoRow]]
           Step == [u \in 1..N |-> [r \in V |-> Round(TryMatch, u, r)]]
           round == CHOOSE t : RoundsSolve(t)
<1>1. N \in Nat /\ Nodes = 1..N /\ N \in 0..N
  BY ShapeFacts
<1> HIDE DEF N
<1>2. start \in V /\ Matched(start, 0)
  <2>1. start \in Rounds /\ \A n \in Nodes : start.match[n] = NoRow
    BY DEF Rounds
  <2>2. start.size = 0
    OBVIOUS
  <2> HIDE DEF start
  <2>3. Partners(start.match, Nodes) = {}
    BY <2>1 DEF Partners
  <2>4. IsMatching(start.match, Nodes)
    BY <2>1 DEF IsMatching
  <2>5. 1..0 = {} /\ Cardinality({}) = 0
    BY FS_EmptySet
  <2>6. \E S \in SUBSET Nodes :
           /\ IsClosed(S, start.match)
           /\ \A u \in (1..0) \ Partners(start.match, Nodes) : Reach[u] \subseteq S
    <3>1. IsClosed({}, start.match)
      BY DEF IsClosed
    <3> QED BY <2>5, <3>1
  <2> QED BY <2>1, <2>2, <2>3, <2>4, <2>5, <2>6 DEF Matched
<1>3. \A u \in 1..N : \A r \in V : Round(TryMatch, u, r) \in V
  BY <1>1, RoundKeeps
<1> HIDE DEF V, start
<1>4. Step \in Steps(N, V)
  BY <1>3 DEF Steps
<1>5. \A u \in 1..N : \A r \in V : Step[u][r] = Round(TryMatch, u, r)
  OBVIOUS
<1> HIDE DEF Step
<1>6. PICK f : IsTable(f, N, V, start, Step)
  BY <1>1, <1>2, <1>4, StepRecursion
<1>7. \A u \in 0..N : u = 0 \/ (u \in 1..N /\ u - 1 \in 0..N)
  BY <1>1
<1>8. \A t : RoundsSolve(t) <=>
         t = [u \in 0..N |-> IF u = 0 THEN start ELSE Round(TryMatch, u, t[u - 1])]
  BY DEF RoundsSolve, N, start
<1>9. RoundsSolve(f)
  <2>1. \A u \in 0..N : f[u] = IF u = 0 THEN start ELSE Round(TryMatch, u, f[u - 1])
    BY <1>5, <1>6, <1>7 DEF IsTable
  <2>2. f = [u \in 0..N |-> f[u]]
    BY <1>6 DEF IsTable
  <2> QED BY <1>8, <2>1, <2>2
<1>10. RoundsSolve(round)
  BY <1>9
<1> HIDE DEF round
<1>11. \A u \in 0..N : round[u] = IF u = 0 THEN start ELSE Round(TryMatch, u, round[u - 1])
  BY <1>8, <1>10
<1> DEFINE T == {u \in 0..N : Matched(round[u], u)}
<1>12. 0 \in T
  BY <1>1, <1>2, <1>11
<1>13. ASSUME NEW u \in 1..N, u - 1 \in T PROVE u \in T
  <2>1. u \in 0..N /\ u # 0 /\ u \in Nodes
    BY <1>1
  <2>2. Matched(Round(TryMatch, u, round[u - 1]), u)
    BY <1>13, <2>1, RoundWorks
  <2> QED BY <1>11, <2>1, <2>2
<1> HIDE DEF T
<1>14. 0..N \subseteq T
  BY <1>1, <1>12, <1>13, BoundedInduction
<1>15. Matched(round[N], N)
  BY <1>1, <1>14 DEF T
<1> QED BY <1>15, WidthIs DEF round, N

\* No antichain has more rows than a matching leaves without a place in it.
LEMMA AntichainsFit ==
    ASSUME GraphShape, NEW match \in [Nodes -> Nodes \cup {NoRow}],
           IsMatching(match, Nodes), NEW A \in Antichains
    PROVE  Cardinality(A) <= Cardinality(Nodes \ Partners(match, Nodes))
<1> DEFINE L == Partners(match, Nodes)
           F == Nodes \ L
           U == A \cup UNION {Reach[a] : a \in A}
           Rest == U \ A
           UL == U \cap L
           UF == U \cap F
           g == [l \in UL |-> CHOOSE v \in Nodes : match[v] = l]
<1>1. /\ IsFiniteSet(Nodes) /\ Nodes = 1..Len(rows)
      /\ \A n \in Nodes : Reach[n] \subseteq Nodes
      /\ \A i, j, k \in Nodes : j \in Reach[i] /\ k \in Reach[j] => k \in Reach[i]
  BY ShapeFacts, ReachFacts DEF Transitive
<1>2. A \subseteq Nodes /\ \A i, j \in A : j \notin Reach[i]
  BY DEF Antichains, Ordered
<1>3. U \subseteq Nodes
  <2>1. \A a \in A : \A x \in Reach[a] : x \in Nodes
    BY <1>1, <1>2
  <2>2. \A x \in UNION {Reach[a] : a \in A} : x \in Nodes
    BY <2>1
  <2> QED BY <1>2, <2>2
<1>4. \A x \in U : \A y \in Reach[x] : y \in Rest
  <2> SUFFICES ASSUME NEW x \in U, NEW y \in Reach[x]
               PROVE  y \in Rest
    OBVIOUS
  <2>1. PICK a \in A : y \in Reach[a]
    BY <1>1, <1>2, <1>3
  <2> QED BY <1>2, <2>1
<1> HIDE DEF U
<1>5. \A l \in UL : g[l] \in Nodes /\ match[g[l]] = l
  <2> SUFFICES ASSUME NEW l \in UL PROVE \E v \in Nodes : match[v] = l
    OBVIOUS
  <2> QED BY DEF Partners
<1>6. \A l \in UL : l # NoRow /\ l \in U
  BY DEF Partners
<1>7. \A l \in UL : g[l] \in Rest
  <2> SUFFICES ASSUME NEW l \in UL PROVE g[l] \in Rest
    OBVIOUS
  <2>1. match[g[l]] = l /\ l # NoRow /\ g[l] \in Nodes
    BY <1>5, <1>6
  <2> HIDE DEF g
  <2>2. g[l] \in Reach[l]
    BY <2>1 DEF IsMatching
  <2> QED BY <1>4, <1>6, <2>2
<1>8. g \in Injection(UL, Rest)
  <2>1. \A k, l \in UL : g[k] = g[l] => k = l
    BY <1>5
  <2>2. g \in [UL -> Rest]
    BY <1>7
  <2> QED BY <2>1, <2>2 DEF Injection, IsInjective
<1>9. /\ IsFiniteSet(A) /\ IsFiniteSet(U) /\ IsFiniteSet(Rest) /\ IsFiniteSet(UL)
      /\ IsFiniteSet(UF) /\ IsFiniteSet(F)
  <2>1. /\ A \in SUBSET Nodes /\ U \in SUBSET Nodes /\ Rest \in SUBSET Nodes
        /\ UL \in SUBSET Nodes /\ UF \in SUBSET Nodes /\ F \in SUBSET Nodes
    BY <1>2, <1>3
  <2> HIDE DEF Rest, UL, UF, F
  <2> QED BY <1>1, <2>1, FS_Subset
<1>10. U = A \cup Rest /\ U = UL \cup UF /\ UF \subseteq F
       /\ (\A x \in A : x \notin Rest) /\ \A x \in UL : x \notin UF
  BY <1>2, <1>3 DEF U
<1> HIDE DEF Rest, UL, UF, F, g
<1>11. Cardinality(UL) <= Cardinality(Rest)
  BY <1>8, <1>9, FS_Injection
<1>12. Cardinality(U) = Cardinality(A) + Cardinality(Rest)
  BY <1>9, <1>10, InEither
<1>13. Cardinality(U) = Cardinality(UL) + Cardinality(UF)
  BY <1>9, <1>10, InEither
<1>14. Cardinality(UF) <= Cardinality(F)
  BY <1>9, <1>10, FS_Subset
<1>15. /\ Cardinality(A) \in Nat /\ Cardinality(Rest) \in Nat /\ Cardinality(UL) \in Nat
       /\ Cardinality(UF) \in Nat /\ Cardinality(F) \in Nat
  BY <1>9, FS_CardinalityType
<1>16. Cardinality(A) <= Cardinality(F)
  BY <1>11, <1>12, <1>13, <1>14, <1>15
<1> QED BY <1>16 DEF F

\* Where the search has ended there is an antichain of as many rows.
LEMMA AntichainIsThere ==
    ASSUME GraphShape, NEW match \in [Nodes -> Nodes \cup {NoRow}],
           IsMatching(match, Nodes), NEW S \in SUBSET Nodes, IsClosed(S, match),
           \A u \in Nodes \ Partners(match, Nodes) : Reach[u] \subseteq S
    PROVE  \E A \in Antichains :
              Cardinality(Nodes \ Partners(match, Nodes)) <= Cardinality(A)
<1> DEFINE F == Nodes \ Partners(match, Nodes)
           M == {match[v] : v \in S}
           B == F \cup M
           A == B \ S
           h == [v \in S |-> match[v]]
<1>1. IsFiniteSet(Nodes) /\ \A v \in S : match[v] # NoRow /\ Reach[match[v]] \subseteq S
  BY ShapeFacts DEF IsClosed
<1>2. M \subseteq Nodes /\ \A x \in F : x \notin M
  <2>1. \A v \in S : match[v] \in Nodes /\ match[v] \in Partners(match, Nodes)
    BY <1>1 DEF Partners
  <2> QED BY <2>1
<1>3. \A x \in B : Reach[x] \subseteq S
  BY <1>1
<1>4. A \in Antichains
  <2>1. A \in SUBSET Nodes
    BY <1>2
  <2>2. \A i, j \in A : j \notin Reach[i]
    BY <1>3
  <2> HIDE DEF A
  <2> QED BY <2>1, <2>2 DEF Antichains, Ordered
<1>5. h \in Injection(S, M)
  <2>1. \A v, w \in S : h[v] = h[w] => v = w
    BY <1>1 DEF IsMatching
  <2>2. h \in [S -> M]
    OBVIOUS
  <2> QED BY <2>1, <2>2 DEF Injection, IsInjective
<1>6. /\ IsFiniteSet(F) /\ IsFiniteSet(M) /\ IsFiniteSet(B) /\ IsFiniteSet(A)
      /\ IsFiniteSet(S)
  <2>1. /\ F \in SUBSET Nodes /\ M \in SUBSET Nodes /\ B \in SUBSET Nodes
        /\ A \in SUBSET Nodes
    BY <1>2
  <2> HIDE DEF F, M, B, A
  <2> QED BY <1>1, <2>1, FS_Subset
<1>7. B \subseteq A \cup S /\ (\A x \in A : x \notin S) /\ IsFiniteSet(A \cup S)
  <2>1. IsFiniteSet(A \cup S)
    BY <1>6, FS_Union
  <2> QED BY <2>1
<1> HIDE DEF F, M, A, h
<1>8. Cardinality(S) <= Cardinality(M)
  BY <1>5, <1>6, FS_Injection
<1>9. Cardinality(B) = Cardinality(F) + Cardinality(M)
  BY <1>2, <1>6, InEither
<1> HIDE DEF B
<1>10. Cardinality(A \cup S) = Cardinality(A) + Cardinality(S)
  BY <1>6, <1>7, InEither
<1>11. Cardinality(B) <= Cardinality(A \cup S)
  BY <1>7, FS_Subset
<1>12. /\ Cardinality(F) \in Nat /\ Cardinality(M) \in Nat /\ Cardinality(S) \in Nat
       /\ Cardinality(A) \in Nat
  BY <1>6, FS_CardinalityType
<1>13. Cardinality(F) <= Cardinality(A)
  BY <1>8, <1>9, <1>10, <1>11, <1>12
<1> QED BY <1>4, <1>13 DEF F

SizesOfAntichains == {Cardinality(A) : A \in Antichains}

\* The width is the size of the largest antichain.
LEMMA WidthIsExact ==
    ASSUME GraphShape
    PROVE  Width = Max({Cardinality(A) : A \in Antichains})
<1>1. PICK r : Matched(r, Len(rows)) /\ Width = Len(rows) - r.size
  BY RoundsWork
<1> DEFINE L == Partners(r.match, Nodes)
           F == Nodes \ L
<1>2. /\ r.match \in [Nodes -> Nodes \cup {NoRow}] /\ IsMatching(r.match, Nodes)
      /\ L \subseteq 1..Len(rows) /\ r.size = Cardinality(L)
  BY <1>1 DEF Matched, Rounds
<1>3. IsFiniteSet(Nodes) /\ Nodes = 1..Len(rows) /\ Len(rows) \in Nat
  BY ShapeFacts
<1>4. IsFiniteSet(L) /\ IsFiniteSet(F) /\ Nodes = L \cup F /\ \A x \in L : x \notin F
  <2>1. L \in SUBSET Nodes /\ F \in SUBSET Nodes /\ Nodes = L \cup F
    BY <1>2, <1>3
  <2> HIDE DEF L
  <2> QED BY <1>3, <2>1, FS_Subset
<1>5. Width = Cardinality(F)
  <2> HIDE DEF L, F
  <2>1. Cardinality(L \cup F) = Cardinality(L) + Cardinality(F)
    BY <1>4, InEither
  <2>2. Cardinality(Nodes) = Len(rows)
    <3> DEFINE N == Len(rows)
    <3>1. N \in Nat /\ Nodes = 1..N
      BY <1>3
    <3> HIDE DEF N
    <3>2. Cardinality(1..N) = N
      BY <3>1, FS_Interval
    <3> QED BY <3>1, <3>2 DEF N
  <2>3. Cardinality(L) \in Nat /\ Cardinality(F) \in Nat
    BY <1>4, FS_CardinalityType
  <2> QED BY <1>1, <1>2, <1>4, <2>1, <2>2, <2>3
<1>6. \A A \in Antichains : IsFiniteSet(A)
  BY <1>3, FS_Subset DEF Antichains
<1>7. SizesOfAntichains \in SUBSET Int
  BY <1>6, FS_CardinalityType DEF SizesOfAntichains
<1>8. \A A \in Antichains : Cardinality(A) <= Width
  BY <1>2, <1>5, AntichainsFit
<1>9. Width \in SizesOfAntichains
  <2>1. PICK S \in SUBSET Nodes :
           /\ IsClosed(S, r.match)
           /\ \A u \in (1..Len(rows)) \ L : Reach[u] \subseteq S
    BY <1>1 DEF Matched
  <2>2. PICK A \in Antichains : Cardinality(F) <= Cardinality(A)
    BY <1>2, <1>3, <2>1, AntichainIsThere
  <2>3. Cardinality(A) \in Nat /\ Cardinality(F) \in Nat
    BY <1>4, <1>6, FS_CardinalityType
  <2>4. Cardinality(A) = Width
    BY <1>5, <1>8, <2>2, <2>3
  <2> QED BY <2>4 DEF SizesOfAntichains
<1>10. \A c \in SizesOfAntichains : c <= Width
  BY <1>8 DEF SizesOfAntichains
<1>11. Max(SizesOfAntichains) = Width
  BY <1>7, <1>9, <1>10, MaxIs
<1> QED BY <1>11 DEF SizesOfAntichains

\* The measures of the partial order are what they are called.
LEMMA MeasuresAreExact == ASSUME GraphShape PROVE AnalysisIsExact
BY ReductionIsExact, SpanIsExact, CriticalPathsAreCritical, LevelsAreAntichains,
   WidthIsExact DEF AnalysisIsExact
-----------------------------------------------------------------------------
(* The theorems.                                                            *)
GraphIInv == GraphInv /\ ScheduleInv

\* A program without rows has no schedule.
LEMMA GraphIInvInit == GraphInit => GraphIInv
BY GraphInvInit DEF GraphInit, GraphIInv, ScheduleInv

\* Every step keeps what is known of the graph and of the schedule.
LEMMA GraphIInvNext ==
    ASSUME GraphIInv, [GraphNext]_graphVars PROVE GraphIInv'
BY GraphInvNext, ScheduleInvNext DEF GraphIInv

\* What build_ses remembers of its rows is the latest of each kind, and every
\* row has edges from what was remembered when it was added.
THEOREM GraphRemembers == GraphSpec => []GraphInv
<1>1. GraphInit => GraphIInv
  BY GraphIInvInit
<1>2. GraphIInv /\ [GraphNext]_graphVars => GraphIInv'
  BY GraphIInvNext
<1>3. GraphIInv => GraphInv
  BY DEF GraphIInv
<1> QED BY <1>1, <1>2, <1>3, PTL DEF GraphSpec

\* Rows that conflict are ordered as in the source, however many rows lie
\* between them, and that is the order of analyze.
THEOREM ConflictsStayOrdered == GraphSpec => []ConflictsAreOrdered
<1>1. GraphInv => ConflictsAreOrdered
  BY GraphIsOrdered
<1> QED BY <1>1, GraphRemembers, PTL

\* The reduction, the span, the critical paths, the levels and the width that
\* analyze computes are those of the partial order, by definition.
THEOREM MeasuresStayExact == GraphSpec => []AnalysisIsExact
<1>1. GraphInv => GraphShape
  BY DEF GraphInv, GraphTypeOK, GraphShape
<1>2. GraphShape => AnalysisIsExact
  BY MeasuresAreExact
<1> QED BY <1>1, <1>2, GraphRemembers, PTL

\* Both: the graph that build_ses draws and analyze measures is what it is
\* taken for.
THEOREM GraphStaysExact == GraphSpec => []GraphIsExact
<1>1. ConflictsAreOrdered /\ AnalysisIsExact => GraphIsExact
  BY DEF GraphIsExact
<1> QED BY <1>1, ConflictsStayOrdered, MeasuresStayExact, PTL

\* In every mode and on every placement TemporalScheduler schedules all rows,
\* after what they wait for and one at a time on a target, and not faster than
\* the optimum; no start times at all are faster than that.
THEOREM SchedulesStaySound == GraphSpec => []ScheduleIsSound
<1>1. GraphInit => GraphIInv
  BY GraphIInvInit
<1>2. GraphIInv /\ [GraphNext]_graphVars => GraphIInv'
  BY GraphIInvNext
<1>3. GraphIInv => ScheduleIsSound
  BY ScheduleSound DEF GraphIInv
<1> QED BY <1>1, <1>2, <1>3, PTL DEF GraphSpec
=============================================================================
