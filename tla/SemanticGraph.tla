--------------------------- MODULE SemanticGraph ---------------------------
(***************************************************************************)
(* The semantic execution supergraph of core/reference/pacore/ses.py and   *)
(* the list scheduler of planner.py. build_ses goes through the rows of a  *)
(* program and draws an edge from every earlier row that a row depends on; *)
(* analyze measures the partial order; TemporalScheduler gives each row a  *)
(* time on the target its partition was placed on.                         *)
(*                                                                         *)
(* A row is known by its number. Reasons of edges, scopes, hashes, the     *)
(* coherence and error totals of a schedule are left out.                  *)
(***************************************************************************)
EXTENDS Integers, Sequences, FiniteSets, FiniteSetsExt, SequencesExt, Lists

CONSTANTS
    Rows,          \* the rows a program is made of
    Objects,       \* the keys that rows read and write
    Links, Lanes,  \* what the LINK and LANE cells name
    Null,          \* an empty cell
    Entanglements, \* what lang.verify may know as entangled_with
    Targets,       \* where the placer puts partitions
    Routes,        \* the pairs of targets that a classical route connects
    MessageTime,   \* expected_transfer of such a route
    Modes,         \* the scheduling modes in use
    MaxRows,       \* bound: rows of a program
    MaxScheduled   \* bound: rows of a program that is scheduled

ASSUME GraphAssumption ==
    /\ \A row \in Rows :
          /\ row.op \in {"gate", "measure", "control", "barrier", "region", "comm"}
          /\ row.reads \subseteq Objects /\ row.writes \subseteq Objects
          /\ row.out \in Objects \cup {Null} /\ row.condition \in Objects \cup {Null}
          /\ row.link \in Links \cup {Null} /\ row.lane \in Lanes \cup {Null}
          /\ row.cost \in Nat /\ row.errors \in Nat
    /\ IsFiniteSet(Objects) /\ Entanglements \subseteq [Objects -> SUBSET Objects]
    /\ Routes \subseteq Targets \X Targets
    /\ {MessageTime, MaxRows, MaxScheduled} \subseteq Nat

VARIABLES
    rows,         \* the program so far
    entangled,    \* OwnershipRecord.entangled_with
    lastWriter, lastReaders, linkLast, laneLast,
    measuredBy,   \* measurement_producer
    edges,        \* edge_acc
    schedule      \* what TemporalScheduler.schedule returned

builderVars == <<rows, entangled, lastWriter, lastReaders, linkLast, laneLast,
                 measuredBy, edges>>
graphVars == <<builderVars, schedule>>

NoRow == 0
Nodes == DOMAIN rows
NoSchedule == [mode |-> Null, place |-> <<>>, done |-> {}, start |-> <<>>]
Largest(S) == Max({0} \cup S)

GraphInit ==
    /\ rows = <<>>
    /\ entangled \in Entanglements
    /\ lastWriter = [k \in Objects |-> NoRow]
    /\ lastReaders = [k \in Objects |-> {}]
    /\ linkLast = [l \in Links |-> NoRow]
    /\ laneLast = [l \in Lanes |-> NoRow]
    /\ measuredBy = [k \in Objects |-> NoRow]
    /\ edges = {}
    /\ schedule = NoSchedule
-----------------------------------------------------------------------------
(* The earlier rows that a row depends on, by the kind of dependency.       *)
OnWriters(row) == {lastWriter[k] : k \in row.reads \cup row.writes}

\* slip: a row that only reads is not waited for
FaultOnReaders(row) == {}

OnReaders(row) == UNION {lastReaders[k] : k \in row.writes}

OnMeasurement(row) ==
    IF row.op = "control" /\ row.condition # Null
    THEN {measuredBy[row.condition]} ELSE {}

EntanglementSet(row) == UNION {entangled[k] : k \in row.reads \cup row.writes}
OnPartners(row) == {lastWriter[k] : k \in EntanglementSet(row)}

OnLink(row) == IF row.link # Null THEN {linkLast[row.link]} ELSE {}

\* BARRIER, FENCE and EPOCH
OnAll(row) == IF row.op = "barrier" THEN Nodes ELSE {}

\* REGION_BEGIN and REGION_END
OnLane(row) ==
    IF row.op = "region" /\ row.lane # Null THEN {laneLast[row.lane]} ELSE {}

(* One turn of the loop of build_ses.                                       *)
AddRow(row) ==
    LET n == Len(rows) + 1
        from == (OnWriters(row) \cup OnReaders(row) \cup OnMeasurement(row)
                 \cup OnPartners(row) \cup OnLink(row) \cup OnAll(row)
                 \cup OnLane(row)) \ {NoRow}
    IN  /\ schedule = NoSchedule /\ n <= MaxRows
        /\ rows' = Append(rows, row)
        /\ edges' = edges \cup (from \X {n})
        /\ measuredBy' = [k \in Objects |->
                            IF row.op = "measure" /\ k = row.out THEN n
                            ELSE measuredBy[k]]
        /\ linkLast' = [l \in Links |-> IF l = row.link THEN n ELSE linkLast[l]]
        /\ laneLast' = [l \in Lanes |-> IF l = row.lane THEN n ELSE laneLast[l]]
        /\ lastWriter' = [k \in Objects |->
                            IF k \in row.writes THEN n ELSE lastWriter[k]]
        /\ lastReaders' = [k \in Objects |->
                             (IF k \in row.writes THEN {} ELSE lastReaders[k])
                             \cup (IF k \in row.reads THEN {n} ELSE {})]
        /\ UNCHANGED <<entangled, schedule>>
-----------------------------------------------------------------------------
(* analyze(): Kahn's order, reachability, reduction, span, levels, width.   *)
Succ(n) == {m \in Nodes : <<n, m>> \in edges}
Pred(n) == {m \in Nodes : <<m, n>> \in edges}

Topo ==
    LET sorted[i \in 0..Len(rows)] ==
            IF i = 0 THEN <<>>
            ELSE LET done == ToSet(sorted[i - 1])
                     ready == {n \in Nodes \ done : Pred(n) \subseteq done}
                 IN  IF ready = {} THEN sorted[i - 1]
                     ELSE Append(sorted[i - 1], Min(ready))
    IN  sorted[Len(rows)]

\* which rows come after a row, by the edges of a relation
ReachableBy(relation) ==
    LET reach[n \in Nodes] ==
            LET next == {m \in Nodes : <<n, m>> \in relation}
            IN  next \cup UNION {reach[m] : m \in next}
    IN  reach

Reach == ReachableBy(edges)

Reduction ==
    {e \in edges : \A m \in Succ(e[1]) \ {e[2]} : e[2] \notin Reach[m]}

Finish ==
    LET done[n \in Nodes] == rows[n].cost + Largest({done[p] : p \in Pred(n)})
    IN  done

Span == Largest({Finish[n] : n \in Nodes})

\* back from the first row that finishes last, each time to a predecessor that
\* finishes last, until none finishes later than 0: rows that cost nothing may
\* be left out at the start; a tie is broken by the order of a set of names
CriticalPaths ==
    LET latest(S) == {n \in S : \A m \in S : Finish[m] <= Finish[n]}
        paths[n \in Nodes] ==
            IF Largest({Finish[p] : p \in Pred(n)}) = 0 THEN {<<n>>}
            ELSE {Append(path, n) : path \in UNION {paths[p] : p \in latest(Pred(n))}}
    IN  IF rows = <<>> THEN {<<>>} ELSE paths[Min(latest(Nodes))]

Levels ==
    LET level[n \in Nodes] ==
            IF Pred(n) = {} THEN 0 ELSE 1 + Max({level[p] : p \in Pred(n)})
    IN  level

(* try_k(u, seen): u is matched to the first of its candidates that is free *)
(* or whose own partner can be matched anew. A call inside a call has one    *)
(* candidate fewer left, so that no more calls than rows are nested.         *)
Matchings ==
    [seen : SUBSET Nodes, match : [Nodes -> Nodes \cup {NoRow}], found : BOOLEAN]

TryMatch ==
    LET reach == Reach
        try[depth \in 0..Len(rows)] ==
            [u \in Nodes |-> [m \in Matchings |->
                LET turn[v \in 0..Len(rows)] ==
                        IF v = 0 THEN m
                        ELSE LET before == turn[v - 1]
                                 tried == [before EXCEPT !.seen = @ \cup {v}]
                                 moved == IF before.match[v] = NoRow
                                          THEN [tried EXCEPT !.found = TRUE]
                                          ELSE try[depth - 1][before.match[v]][tried]
                             IN  IF before.found \/ v \notin reach[u] \ before.seen
                                 THEN before
                                 ELSE IF moved.found
                                 THEN [moved EXCEPT !.match[v] = u]
                                 ELSE moved
                IN  IF depth = 0 THEN m ELSE turn[Len(rows)]]]
    IN  try[Len(rows)]

(* _exact_max_antichain: by Dilworth, rows less the size of a matching.     *)
Width ==
    LET try == TryMatch
        round[u \in 0..Len(rows)] ==
            IF u = 0 THEN [size |-> 0, match |-> [n \in Nodes |-> NoRow]]
            ELSE LET before == round[u - 1]
                     m == try[u][[seen |-> {}, match |-> before.match, found |-> FALSE]]
                 IN  [size |-> before.size + (IF m.found THEN 1 ELSE 0),
                      match |-> m.match]
    IN  Len(rows) - round[Len(rows)].size
-----------------------------------------------------------------------------
(* TemporalScheduler: the priorities of its modes.                          *)
Bottom ==
    LET bottom[n \in Nodes] == rows[n].cost + Largest({bottom[m] : m \in Succ(n)})
    IN  bottom

RowPriority(mode, n) ==
    CASE mode = "ASAP" -> - Levels[n]
      [] mode = "ALAP" -> Levels[n]
      [] mode = "COMMUNICATION_AWARE" ->
            Bottom[n] + 2 * Cardinality(EntanglementSet(rows[n]))
      [] mode = "FIDELITY_AWARE" -> Bottom[n] * (1 + rows[n].errors)
      [] OTHER -> Bottom[n]

\* all rows by their keys, rows of one key as they are in the source
Sorted(key) ==
    CHOOSE order \in SetToSeqs(Nodes) :
        \A i, j \in Nodes : i < j =>
            \/ key[order[i]] < key[order[j]]
            \/ key[order[i]] = key[order[j]] /\ order[i] < order[j]

Pending(mode) == Sorted([n \in Nodes |-> - RowPriority(mode, n)])

(* comm_delay: what a message between two placed targets takes. Without a   *)
(* route the edge is reported as ROUTE_MISSING and takes no time.           *)
Delay(place, time, p, n) ==
    IF place[p] # place[n] /\ <<place[p], place[n]>> \in Routes THEN time ELSE 0

\* the target of each row's partition; there may be none that can take it
Placements == [Nodes -> Targets \cup {Null}]

\* the rows scheduled so far, and when each target is free
NothingScheduled ==
    [done |-> {}, start |-> [n \in Nodes |-> 0],
     free |-> [t \in Targets \cup {Null} |-> 0]]

\* slip: a row starts when it is ready, whether its target is free or not
FaultPut(acc, n, target, ready) ==
    [acc EXCEPT !.done = @ \cup {n}, !.start[n] = ready]

Put(acc, n, target, ready) ==
    LET begin == Max({ready, acc.free[target]})
    IN  [acc EXCEPT !.done = @ \cup {n}, !.start[n] = begin,
                    !.free[target] = begin + rows[n].cost]

\* a row is scheduled when those it waits for have been
TakeRow(acc, n, place, time) ==
    IF n \in acc.done \/ ~ Pred(n) \subseteq acc.done THEN acc
    ELSE Put(acc, n, place[n],
             Largest({acc.start[p] + rows[p].cost + Delay(place, time, p, n) :
                         p \in Pred(n)}))

\* one pass over the rows in some order
Pass(acc, order, place, time) ==
    LET turn[i \in 0..Len(rows)] ==
            IF i = 0 THEN acc ELSE TakeRow(turn[i - 1], order[i], place, time)
    IN  turn[Len(rows)]

\* passes over the pending rows; a pass takes what has become schedulable
ListSchedule(mode, place) ==
    LET pending == Pending(mode)
        pass[i \in 0..Len(rows)] ==
            IF i = 0 THEN NothingScheduled
            ELSE Pass(pass[i - 1], pending, place, MessageTime)
    IN  pass[Len(rows)]

(* _exact_makespan: the rows in every order the graph allows, with messages *)
(* that take no time.                                                       *)
Orders ==
    {order \in SetToSeqs(Nodes) :
        \A i, j \in Nodes : i > j => order[i] \notin Pred(order[j])}

Makespan(begin) == Largest({begin[n] + rows[n].cost : n \in Nodes})

ExactMakespan(place) ==
    Min({Makespan(Pass(NothingScheduled, order, place, 0).start) : order \in Orders})

Schedule(mode, place) ==
    /\ schedule = NoSchedule /\ Len(rows) \in 1..MaxScheduled
    /\ LET all == ListSchedule(mode, place)
       IN  schedule' = [mode |-> mode, place |-> place,
                        done |-> all.done, start |-> all.start]
    /\ UNCHANGED builderVars

GraphNext ==
    \/ \E row \in Rows : AddRow(row)
    \/ \E mode \in Modes, place \in Placements : Schedule(mode, place)

GraphSpec == GraphInit /\ [][GraphNext]_graphVars
-----------------------------------------------------------------------------
Ordered(i, j) == j \in Reach[i]

Support(row) == row.reads \cup row.writes

Interfere(a, b) ==
    \/ a.writes \cap Support(b) # {}
    \/ b.writes \cap Support(a) # {}

(* Rows that touch one thing, and of which one changes it, are ordered as   *)
(* in the source, however many rows lie between them; so are rows on one    *)
(* link, a condition and its measurement, and a barrier and all before it.  *)
Conflict(i, j) ==
    \/ Interfere(rows[i], rows[j])
    \/ rows[i].link # Null /\ rows[i].link = rows[j].link
    \/ rows[j].op = "barrier"
    \/ /\ rows[j].op = "control" /\ rows[j].condition # Null
       /\ rows[i].op = "measure" /\ rows[i].out = rows[j].condition
       /\ \A k \in (i + 1)..(j - 1) :
             ~ (rows[k].op = "measure" /\ rows[k].out = rows[j].condition)

ConflictsAreOrdered ==
    /\ \A i, j \in Nodes : i < j /\ Conflict(i, j) => Ordered(i, j)
    /\ \A e \in edges : e[1] < e[2]
    /\ Topo = [n \in Nodes |-> n]

(* Chains and antichains of rows, by definition.                            *)
Chains == {S \in SUBSET Nodes : \A i, j \in S : i < j => Ordered(i, j)}
Antichains == {S \in SUBSET Nodes : \A i, j \in S : ~ Ordered(i, j)}
Cost(S) == SumTo([n \in Nodes |-> IF n \in S THEN rows[n].cost ELSE 0], Len(rows))

(* The measures of the partial order are what they are called: the          *)
(* reduction orders the same rows and no edge of it is redundant, the span  *)
(* is the cost of the longest chain and a critical path is such a chain,  *)
(* a level is an antichain, the width is the size of the largest one. (The  *)
(* graph is final once there is a schedule.)                                *)
AnalysisIsExact ==
    schedule = NoSchedule =>
    /\ ReachableBy(Reduction) = Reach
    /\ \A e \in Reduction : ReachableBy(Reduction \ {e}) # Reach
    /\ Span = Max({Cost(S) : S \in Chains})
    /\ \A path \in CriticalPaths :
          ToSet(path) \in Chains /\ Cost(ToSet(path)) = Span
    /\ \A n \in Nodes : {m \in Nodes : Levels[m] = Levels[n]} \in Antichains
    /\ Width = Max({Cardinality(S) : S \in Antichains})

(* The graph is what it is taken for: an order of the rows that keeps each  *)
(* conflict as the source has it, with the measures that analyze reports.   *)
GraphIsExact == ConflictsAreOrdered /\ AnalysisIsExact

\* start times that no row, target or message contradicts
Feasible(begin, place, time) ==
    \A i, j \in Nodes :
        /\ <<i, j>> \in edges =>
              begin[i] + rows[i].cost + Delay(place, time, i, j) <= begin[j]
        /\ i # j /\ place[i] = place[j] =>
              \/ begin[i] + rows[i].cost <= begin[j]
              \/ begin[j] + rows[j].cost <= begin[i]

(* The optimum that a schedule is compared with is one: no start times at   *)
(* all beat it, on any placement.                                           *)
OptimumIsExact ==
    schedule = NoSchedule /\ Len(rows) \in 1..MaxScheduled =>
        \A place \in Placements :
            LET exact == ExactMakespan(place)
            IN  \A begin \in [Nodes -> 0..(exact - 1)] :
                    Feasible(begin, place, 0) => Makespan(begin) >= exact

(* In every mode and on every placement all rows are scheduled, after what  *)
(* they wait for and one at a time on a target, and no faster than the      *)
(* longest chain and the optimum.                                           *)
ScheduleIsSound ==
    /\ OptimumIsExact
    /\ schedule # NoSchedule =>
        LET place == schedule.place
            exact == ExactMakespan(place)
        IN  /\ schedule.done = Nodes
            /\ Feasible(schedule.start, place, MessageTime)
            /\ Makespan(schedule.start) >= exact /\ exact >= Span
=============================================================================
