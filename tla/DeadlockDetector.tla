-------------------------- MODULE DeadlockDetector --------------------------
(***************************************************************************)
(* DeadlockDetector of fabric.py and the way its graph is filled: a task   *)
(* that gets a resource adds a hold, one that must wait adds a wait; when  *)
(* a resource is passed on, the waiter clears its wait and adds a hold.    *)
(* The detector has no call for a release, so old holds stay in its graph. *)
(* A task may also wait for a future, which another task resolves. Nodes   *)
(* are numbered in the order of their names. Retry counts and waiting      *)
(* times only add to the report and are left out.                          *)
(***************************************************************************)
EXTENDS Naturals, Sequences, FiniteSets, SequencesExt, Lists

CONSTANTS
    LockTasks,
    Resources,
    Futures,
    Producer   \* future -> the task that resolves it

Names == LockTasks \cup Resources \cup Futures
NameCount == Cardinality(Names)

\* no name is that of two things
ASSUME DetectorAssumption ==
    /\ IsFiniteSet(Names) /\ Names = 1..NameCount
    /\ LockTasks \cap Resources = {}
    /\ Futures \cap (LockTasks \cup Resources) = {}
    /\ Producer \in [Futures -> LockTasks]

VARIABLES
    edges,   \* the detector's graph: name -> names, for the names it has
    futures, \* future -> resolved, for those it has
    holder,  \* the truth: resource -> task that holds it, 0 for none
    waiting  \* the truth: task -> what it waits for, 0 for nothing

detectorVars == <<edges, futures, holder, waiting>>

Successors(g, n) == IF n \in DOMAIN g THEN g[n] ELSE {}

AddNode(g, n) == [m \in DOMAIN g \cup {n} |-> Successors(g, m)]

AddEdge(g, a, b) == [AddNode(AddNode(g, a), b) EXCEPT ![a] = @ \cup {b}]

\* fault: clearing a wait takes the task out of the graph altogether
FaultClearWait(g, t) == [n \in DOMAIN g \ {t} |-> g[n] \ {t}]

ClearWait(g, t) == [n \in DOMAIN g \ {t} |-> g[n]]

(* A breadth-first search from start, as the list of the paths to the names *)
(* it discovers. Its k-th step goes from the end of the k-th path to the    *)
(* names not discovered yet, in their order.                                *)
NamesInOrder == [n \in 1..NameCount |-> n]
Reached(paths) == {Last(paths[k]) : k \in DOMAIN paths}

Extend(g, paths, k) ==
    LET path == paths[k]
        fresh == Kept(NamesInOrder, Successors(g, Last(path)) \ Reached(paths))
    IN  IF k \in DOMAIN paths
        THEN paths \o [i \in DOMAIN fresh |-> Append(path, fresh[i])]
        ELSE paths

Discovered(g, start) ==
    LET found[k \in 0..NameCount] ==
            IF k = 0 THEN <<<<start>>>> ELSE Extend(g, found[k - 1], k)
    IN  found[NameCount]

\* the search ends at the first path whose end leads back to start
CycleThrough(g, start) ==
    LET paths == Discovered(g, start)
        closing == {k \in DOMAIN paths : start \in Successors(g, Last(paths[k]))}
    IN  IF closing = {} THEN <<>>
        ELSE paths[CHOOSE k \in closing : \A j \in closing : k <= j]

\* the first of the shortest cycles, by the name they are found from
MinimalCycle(g) ==
    LET cycle == [n \in DOMAIN g |-> CycleThrough(g, n)]
        starts == {n \in DOMAIN g : cycle[n] # <<>>}
    IN  IF starts = {} THEN <<>>
        ELSE cycle[CHOOSE n \in starts : \A m \in starts :
                 \/ Len(cycle[n]) < Len(cycle[m])
                 \/ Len(cycle[n]) = Len(cycle[m]) /\ n <= m]

Free(t) == waiting[t] = 0

Acquire(t, r) ==
    /\ Free(t) /\ holder[r] = 0
    /\ holder' = [holder EXCEPT ![r] = t]
    /\ edges' = AddEdge(edges, r, t)
    /\ UNCHANGED <<futures, waiting>>

Wait(t, r) ==
    /\ Free(t) /\ holder[r] \notin {0, t}
    /\ waiting' = [waiting EXCEPT ![t] = r]
    /\ edges' = AddEdge(edges, t, r)
    /\ UNCHANGED <<futures, holder>>

\* the detector is not told
Release(r) ==
    /\ holder[r] # 0 /\ Free(holder[r])
    /\ \A t \in LockTasks : waiting[t] # r
    /\ holder' = [holder EXCEPT ![r] = 0]
    /\ UNCHANGED <<edges, futures, waiting>>

PassOn(r, t) ==
    /\ holder[r] # 0 /\ Free(holder[r]) /\ waiting[t] = r
    /\ holder' = [holder EXCEPT ![r] = t]
    /\ waiting' = [waiting EXCEPT ![t] = 0]
    /\ edges' = AddEdge(ClearWait(edges, t), r, t)
    /\ UNCHANGED futures

\* a future leads to the task that resolves it by an add_wait of its own
AwaitFuture(t, f) ==
    /\ Free(t)
    /\ f \in DOMAIN futures => ~ futures[f]
    /\ waiting' = [waiting EXCEPT ![t] = f]
    /\ futures' = [x \in DOMAIN futures \cup {f} |-> x # f /\ futures[x]]
    /\ edges' = AddEdge(AddEdge(edges, t, f), f, Producer[f])
    /\ UNCHANGED holder

ResolveFuture(f) ==
    /\ f \in DOMAIN futures /\ ~ futures[f]
    /\ Free(Producer[f])
    /\ futures' = [futures EXCEPT ![f] = TRUE]
    /\ waiting' = [t \in LockTasks |-> IF waiting[t] = f THEN 0 ELSE waiting[t]]
    /\ edges' = [n \in {m \in DOMAIN edges : m \notin LockTasks \/ waiting[m] # f}
                     |-> edges[n]]
    /\ UNCHANGED holder

DetectorInit ==
    /\ edges = <<>> /\ futures = <<>>
    /\ holder = [r \in Resources |-> 0]
    /\ waiting = [t \in LockTasks |-> 0]

DetectorNext ==
    \/ \E t \in LockTasks, r \in Resources : Acquire(t, r) \/ Wait(t, r) \/ PassOn(r, t)
    \/ \E r \in Resources : Release(r)
    \/ \E t \in LockTasks, f \in Futures : AwaitFuture(t, f)
    \/ \E f \in Futures : ResolveFuture(f)

DetectorSpec == DetectorInit /\ [][DetectorNext]_detectorVars
-----------------------------------------------------------------------------
IsCycle(g, c) ==
    \A i \in DOMAIN c :
        /\ c[i] \in DOMAIN g
        /\ c[IF i = Len(c) THEN 1 ELSE i + 1] \in g[c[i]]

Cycles(g, k) == {c \in [1..k -> DOMAIN g] : IsCycle(g, c)}

\* names each of which leads to another of them
HasCycle(g) ==
    \E S \in (SUBSET DOMAIN g) \ {{}} : \A n \in S : g[n] \cap S # {}

\* what a blocked task waits for cannot go on while these do not
Blockers(t) ==
    CASE waiting[t] \in Resources -> {holder[waiting[t]]}
      [] waiting[t] \in Futures -> {Producer[waiting[t]]}
      [] OTHER -> {}

\* a set of tasks each of which waits for another of the set
Deadlocked ==
    \E S \in (SUBSET LockTasks) \ {{}} : \A t \in S : Blockers(t) \cap S # {}

(* The detector misses no deadlock, though it is told of it piece by piece  *)
(* and forgets the waits that ended; what it reports is a cycle of its      *)
(* graph, and there is none shorter.                                        *)
MissesNoDeadlock ==
    LET cycle == MinimalCycle(edges)
    IN  /\ Deadlocked => cycle # <<>>
        /\ cycle # <<>> =>
              /\ IsCycle(edges, cycle)
              /\ \A k \in 1..Len(cycle) - 1 : Cycles(edges, k) = {}
        /\ cycle = <<>> => ~ HasCycle(edges)
=============================================================================
