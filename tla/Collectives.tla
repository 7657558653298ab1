---------------------------- MODULE Collectives ----------------------------
(***************************************************************************)
(* The collectives of fabric.py: eight operations, each by five schedules  *)
(* of transfers between n workers, the ranks 0 .. n - 1. Worker r brings   *)
(* the value <<r>>, and values are combined by concatenation, which shows  *)
(* what each result is made of, and in which order. A worker without a     *)
(* result has <<>>. Message, byte and step counts are left out.            *)
(***************************************************************************)
EXTENDS Naturals, Sequences, Lists

CONSTANTS MaxWorkers

ASSUME CollectivesAssumption == MaxWorkers \in Nat \ {0}

Operations == {"BROADCAST", "SCATTER", "GATHER", "ALLGATHER", "REDUCE",
               "ALLREDUCE", "SCAN", "ALLTOALL"}
Algorithms == {"tree", "ring", "recursive_doubling", "pairwise", "linear"}

VARIABLES
    request,  \* operation, algorithm, number of workers and root of the call
    result    \* rank -> value

collectiveVars == <<request, result>>

Ranks(n) == 0..(n - 1)
UpTo(k) == [i \in 1..k |-> i - 1]           \* 0, 1, ..., k - 1
All(n) == UpTo(n)
Own(n) == [r \in Ranks(n) |-> <<r>>]
OnlyAt(n, root, value) == [r \in Ranks(n) |-> IF r = root THEN value ELSE <<>>]

\* fault: the distance does not double
FaultDist == [k \in 0..MaxWorkers |-> 2 * k + 1]

\* dist in the rounds of a loop: 1, 2, 4, ...
Dist ==
    LET dist[k \in 0..MaxWorkers] == IF k = 0 THEN 1 ELSE 2 * dist[k - 1]
    IN  dist

\* how many rounds `while dist < n` makes
Rounds(n) ==
    CHOOSE k \in 0..n : Dist[k] >= n /\ \A j \in 0..(k - 1) : Dist[j] < n

\* r XOR a power of two: the rank at the same place of the other half of its block
Partner(r, dist) == IF r % (2 * dist) < dist THEN r + dist ELSE r - dist
-----------------------------------------------------------------------------
(* The ranks that the binomial broadcast from root reaches.                 *)
BinomialReach(root, n) ==
    LET have[k \in 0..Rounds(n)] ==
            IF k = 0 THEN {root}
            ELSE have[k - 1] \cup
                 {(v + Dist[k - 1] + root) % n :
                     v \in {u \in have[k - 1] : u + Dist[k - 1] < n}}
    IN  have[Rounds(n)]

\* round the ring from root
RingReach(root, n) == {root} \cup {(root + i + 1) % n : i \in Ranks(n - 1)}

Broadcast(n, root, alg) ==
    LET reached == CASE alg \in {"linear", "pairwise"} -> Ranks(n)
                     [] alg = "ring" -> RingReach(root, n)
                     [] OTHER -> BinomialReach(root, n)
    IN  [r \in Ranks(n) |-> IF r \in reached THEN <<root>> ELSE <<>>]

(* The recursions go over w ranks from lo on, and halve them at mid.        *)
Half(w) == w \div 2

(* Recursive halving: the ranks that get their chunk.                       *)
Halving(holder, n) ==
    LET reach[w \in 1..n] ==
            [h \in Nat |-> [lo \in Nat |->
                LET mid == lo + Half(w)
                IN  IF w = 1 THEN {lo}
                    ELSE IF h < mid
                    THEN reach[Half(w)][h][lo] \cup reach[w - Half(w)][mid][mid]
                    ELSE reach[Half(w)][lo][lo] \cup reach[w - Half(w)][h][mid]]]
    IN  reach[n][holder][0]

Scatter(n, root, alg) ==
    LET reached == CASE alg \in {"linear", "pairwise"} -> Ranks(n)
                     [] alg = "ring" -> RingReach(root, n)
                     [] OTHER -> Halving(root, n)
    IN  [r \in Ranks(n) |-> IF r \in reached THEN <<r>> ELSE <<>>]

(* What target holds when the halves have been combined, the lower one      *)
(* first: _gather_doubling and the tree reduction.                          *)
Doubling(target, n) ==
    LET held[w \in 1..n] ==
            [t \in Nat |-> [lo \in Nat |->
                LET mid == lo + Half(w)
                IN  IF w = 1 THEN <<lo>>
                    ELSE IF t < mid
                    THEN held[Half(w)][t][lo] \o held[w - Half(w)][mid][mid]
                    ELSE held[Half(w)][lo][lo] \o held[w - Half(w)][t][mid]]]
    IN  held[n][target][0]

\* round the ring to root: the values that arrive there, in order
AroundTo(n, root) == [i \in 1..(n - 1) |-> (root + i) % n]

\* sorted by rank; what comes from one rank stays in its order
ByRank(s, n) ==
    LET upTo[k \in 0..n] == IF k = 0 THEN <<>> ELSE upTo[k - 1] \o Kept(s, {k - 1})
    IN  upTo[n]

Gather(n, root, alg) ==
    LET ordered == <<root>> \o AroundTo(n, root)
    IN  OnlyAt(n, root,
            CASE alg \in {"linear", "pairwise"} -> All(n)
              [] alg = "ring" -> IF Len(ordered) = n THEN All(n) ELSE ordered
              [] OTHER -> ByRank(Doubling(root, n), n))

Reduce(n, root, alg) ==
    OnlyAt(n, root,
        CASE alg \in {"linear", "pairwise"} ->
                <<root>> \o Kept(All(n), Ranks(n) \ {root})
          [] alg = "ring" -> <<root>> \o AroundTo(n, root)
          [] OTHER -> Doubling(root, n))

(* Whose values are known in the rounds of recursive doubling.              *)
Exchanged(n) ==
    LET known[k \in 0..Rounds(n)] ==
            IF k = 0 THEN [r \in Ranks(n) |-> {r}]
            ELSE [r \in Ranks(n) |->
                    LET p == Partner(r, Dist[k - 1])
                    IN  known[k - 1][r] \cup IF p < n THEN known[k - 1][p] ELSE {}]
    IN  known[Rounds(n)]

AllGather(n, alg) ==
    LET full == Gather(n, 0, alg)[0]
        rotated(r) == {(r + n - s) % n : s \in Ranks(n)}
        \* what no exchange has brought is filled in at the end
        doubled(r) == Exchanged(n)[r] \cup (Ranks(n) \ Exchanged(n)[r])
    IN  [r \in Ranks(n) |->
            CASE alg = "ring" -> Kept(All(n), rotated(r))
              [] alg = "recursive_doubling" -> Kept(All(n), doubled(r))
              [] alg = "pairwise" -> All(n)
              [] alg = "linear" -> full
              [] OTHER -> IF r \in BinomialReach(0, n) THEN full ELSE <<>>]

(* The values combined in the rounds of recursive doubling, the smaller     *)
(* rank's first.                                                            *)
Folded(n) ==
    LET acc[k \in 0..Rounds(n)] ==
            IF k = 0 THEN Own(n)
            ELSE [r \in Ranks(n) |->
                    LET p == Partner(r, Dist[k - 1])
                    IN  IF p >= n THEN acc[k - 1][r]
                        ELSE IF r < p THEN acc[k - 1][r] \o acc[k - 1][p]
                        ELSE acc[k - 1][p] \o acc[k - 1][r]]
    IN  acc[Rounds(n)]

AllReduce(n, alg) ==
    LET powerOfTwo == Dist[Rounds(n)] = n
        reduced == Reduce(n, 0, alg)[0]
    IN  [r \in Ranks(n) |->
            CASE alg = "ring" -> [i \in 1..n |-> (r + n - (i - 1)) % n]
              [] alg = "recursive_doubling" ->
                    IF powerOfTwo THEN Folded(n)[r] ELSE All(n)
              [] OTHER -> IF Broadcast(n, 0, alg)[r] # <<>> THEN reduced ELSE <<>>]

(* The tree scan: each half is scanned, and the total of the lower one is   *)
(* put before every value of the upper one.                                 *)
TreeScan(n) ==
    LET scan[w \in 1..n] ==
            [lo \in Nat |-> [r \in Nat |->
                LET mid == lo + Half(w)
                IN  IF w = 1 THEN <<lo>>
                    ELSE IF r < mid THEN scan[Half(w)][lo][r]
                    ELSE scan[Half(w)][lo][mid - 1] \o scan[w - Half(w)][mid][r]]]
    IN  scan[n][0]

(* The scan by recursive doubling.                                          *)
Shifted(n) ==
    LET acc[k \in 0..Rounds(n)] ==
            IF k = 0 THEN Own(n)
            ELSE [r \in Ranks(n) |->
                    IF r >= Dist[k - 1]
                    THEN acc[k - 1][r - Dist[k - 1]] \o acc[k - 1][r]
                    ELSE acc[k - 1][r]]
    IN  acc[Rounds(n)]

Scan(n, alg) ==
    LET handedOn[r \in Ranks(n)] == IF r = 0 THEN <<0>> ELSE handedOn[r - 1] \o <<r>>
    IN  [r \in Ranks(n) |->
            CASE alg = "recursive_doubling" -> Shifted(n)[r]
              [] alg = "tree" -> TreeScan(n)[r]
              [] alg = "pairwise" -> All(r + 1)
              [] OTHER -> handedOn[r]]

\* rank r sends the block <<r, c>> to rank c, which keeps them by sender
AllToAll(n, alg) ==
    LET near(c) == {Partner(c, Dist[k]) : k \in 0..(Rounds(n) - 1)} \cap Ranks(n)
        rotated(c) == {(c + n - k) % n : k \in 1..(n - 1)}
        senders(c) == {c} \cup
            CASE alg \in {"pairwise", "ring"} -> rotated(c)
              [] alg = "recursive_doubling" -> near(c) \cup (Ranks(n) \ near(c))
              [] OTHER -> Ranks(n)
    IN  [c \in Ranks(n) |-> Kept(All(n), senders(c))]

Perform(q) ==
    CASE q.op = "BROADCAST" -> Broadcast(q.n, q.root, q.alg)
      [] q.op = "SCATTER" -> Scatter(q.n, q.root, q.alg)
      [] q.op = "GATHER" -> Gather(q.n, q.root, q.alg)
      [] q.op = "ALLGATHER" -> AllGather(q.n, q.alg)
      [] q.op = "REDUCE" -> Reduce(q.n, q.root, q.alg)
      [] q.op = "ALLREDUCE" -> AllReduce(q.n, q.alg)
      [] q.op = "SCAN" -> Scan(q.n, q.alg)
      [] OTHER -> AllToAll(q.n, q.alg)

CollectivesInit ==
    /\ request = [op |-> "BROADCAST", alg |-> "linear", n |-> 1, root |-> 0]
    /\ result = [r \in {0} |-> <<0>>]

CollectivesNext ==
    \E op \in Operations, alg \in Algorithms, n \in 1..MaxWorkers :
        \E root \in Ranks(n) :
            /\ request' = [op |-> op, alg |-> alg, n |-> n, root |-> root]
            /\ result' = Perform(request')

CollectivesSpec == CollectivesInit /\ [][CollectivesNext]_collectiveVars
-----------------------------------------------------------------------------
OnceEach(value, n) ==
    Len(value) = n /\ {value[i] : i \in DOMAIN value} = Ranks(n)

\* a broadcast by a binomial tree that does not start at rank 0
OffCentre(q) ==
    q.op = "BROADCAST" /\ q.alg \in {"tree", "recursive_doubling"} /\ q.root # 0

(* By every schedule, for every number of workers and every root, each      *)
(* operation gives each rank what it is owed: no contribution is missing or *)
(* counted twice, also where n is not a power of two, a scan is in the      *)
(* order of the ranks, and all ranks agree on an allreduce, but for the     *)
(* ring, where each folds from its own place.                               *)
CollectivesDeliver ==
    LET q == request
        owed(r) ==
            CASE q.op = "BROADCAST" -> result[r] = <<q.root>>
              [] q.op = "SCATTER" -> result[r] = <<r>>
              [] q.op = "GATHER" -> r = q.root => result[r] = All(q.n)
              [] q.op = "REDUCE" -> r = q.root => OnceEach(result[r], q.n)
              [] q.op = "ALLREDUCE" ->
                    /\ OnceEach(result[r], q.n)
                    /\ q.alg # "ring" => result[r] = result[0]
              [] q.op = "SCAN" -> result[r] = All(r + 1)
              [] OTHER -> result[r] = All(q.n)
    IN  \A r \in Ranks(q.n) : owed(r) \/ OffCentre(q)

(* A broadcast leaves the value of the root at every rank. fabric.py        *)
(* (_binomial_bcast) says that buf[root] is broadcast into ranks [lo, hi).  *)
BroadcastReaches ==
    request.op = "BROADCAST" =>
        \A r \in Ranks(request.n) : result[r] = <<request.root>>
=============================================================================
