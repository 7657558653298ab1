------------------------------ MODULE Replicas ------------------------------
(***************************************************************************)
(* The replicated types of crdt.py (counters, sets, last-writer-wins       *)
(* registers) and the anti-entropy engine that merges their replicas pair  *)
(* by pair. The sequence ops and the sets seen are a history: which update *)
(* has reached which replica.                                              *)
(***************************************************************************)
EXTENDS Integers, Sequences, FiniteSets, FiniteSetsExt, Lists

CONSTANTS
    N,                \* replicas, numbered in the order of their ids
    Elements, Values, \* what sets contain, what registers hold
    Amounts,          \* by how much a counter is incremented or decremented
    Tags,             \* tags a caller may pass to ORSet.add
    Stamps,           \* timestamps a caller may pass to LWWRegister.set
    StampsMayLag,     \* may such a timestamp be no later than the register's
    RoundLimits,      \* values of max_rounds
    MaxUpdates        \* bound: updates in a behaviour

ASSUME ReplicasAssumption ==
    /\ N \in Nat
    /\ Values \subseteq Nat /\ IsFiniteSet(Values)
    /\ Amounts \subseteq Nat \ {0}
    /\ Stamps \subseteq Nat
    /\ StampsMayLag \in BOOLEAN
    /\ RoundLimits \subseteq Nat \ {0}
    /\ MaxUpdates \in Nat

VARIABLES
    kind,     \* the type of the replicas of this engine
    members,  \* the replicas that were added to the engine
    rep,      \* the state of each replica
    pass,     \* the converge() under way: rounds done and rounds left
    ops, seen

vars == <<kind, members, rep, pass, ops, seen>>

Replica == 1..N
Registers == {"Lamport", "Vector"}
Kinds == {"GCounter", "PNCounter", "GSet", "ORSet"} \cup Registers
NoPass == [done |-> 0, left |-> 0]

\* json orders the text null after every quoted value
NullValue == 1 + Max({0} \cup Values)

Zero == [r \in Replica |-> 0]

Empty(k, r) ==
    CASE k = "GCounter" -> [counts |-> Zero]
      [] k = "PNCounter" -> [positive |-> Zero, negative |-> Zero]
      [] k = "GSet" -> [elements |-> {}]
      [] k = "ORSet" -> [adds |-> {}, removed |-> {}, counter |-> 0]
      [] k \in Registers ->
            [value |-> NullValue, timestamp |-> 0, writer |-> r, version |-> Zero]
-----------------------------------------------------------------------------
Larger(m, n) == IF m >= n THEN m ELSE n
MaxOf(f, g) == [r \in Replica |-> Larger(f[r], g[r])]

\* fault: writes at the same time are not told apart
FaultLater(x, y) == x.timestamp > y.timestamp

\* the order of the timestamps, then of the writers, then of the values
Later(x, y) ==
    \/ x.timestamp > y.timestamp
    \/ x.timestamp = y.timestamp /\ x.writer > y.writer
    \/ x.timestamp = y.timestamp /\ x.writer = y.writer /\ x.value > y.value

Exceeds(f, g) == f # g /\ \A r \in Replica : f[r] >= g[r]

Dominates(k, x, y) ==
    \/ k = "Vector" /\ Exceeds(x.version, y.version)
    \/ Later(x, y)

MergeRegisters(k, x, y) ==
    LET win == IF Dominates(k, x, y) THEN x ELSE y
    IN  [value |-> win.value, timestamp |-> win.timestamp, writer |-> win.writer,
         version |-> MaxOf(x.version, y.version)]

\* fault: the tag counter of one side is kept
FaultMergeORSets(x, y) ==
    [adds |-> x.adds \cup y.adds,
     removed |-> x.removed \cup y.removed,
     counter |-> y.counter]

MergeORSets(x, y) ==
    [adds |-> x.adds \cup y.adds,
     removed |-> x.removed \cup y.removed,
     counter |-> Larger(x.counter, y.counter)]

Merge(k, x, y) ==
    CASE k = "GCounter" -> [counts |-> MaxOf(x.counts, y.counts)]
      [] k = "PNCounter" -> [positive |-> MaxOf(x.positive, y.positive),
                             negative |-> MaxOf(x.negative, y.negative)]
      [] k = "GSet" -> [elements |-> x.elements \cup y.elements]
      [] k = "ORSet" -> MergeORSets(x, y)
      [] k \in Registers -> MergeRegisters(k, x, y)

\* what is hashed: the tag counter of a set is not part of it
State(k, x) ==
    IF k = "ORSet" THEN [adds |-> x.adds, removed |-> x.removed] ELSE x

SumOf(f) == SumTo(f, N)

Value(k, x) ==
    CASE k = "GCounter" -> {SumOf(x.counts)}
      [] k = "PNCounter" -> {SumOf(x.positive) - SumOf(x.negative)}
      [] k = "GSet" -> x.elements
      [] k = "ORSet" -> {a[1] : a \in {b \in x.adds : b[2] \notin x.removed}}
      [] k \in Registers -> {x.value} \ {NullValue}
-----------------------------------------------------------------------------
Init ==
    /\ kind \in Kinds
    /\ members = {}
    /\ rep = [r \in Replica |-> Empty(kind, r)]
    /\ pass = NoPass
    /\ ops = <<>>
    /\ seen = [r \in Replica |-> {}]

AddReplica(r) ==
    /\ pass = NoPass
    /\ r \notin members
    /\ members' = members \cup {r}
    /\ UNCHANGED <<kind, rep, pass, ops, seen>>

(* What the history keeps of an update, and the update: it turns r into x.  *)
Counted(r, n) == [what |-> "count", amount |-> n, by |-> r, observed |-> seen[r]]
Edited(what, r, e) == [what |-> what, element |-> e, by |-> r, observed |-> seen[r]]
Tagged(r, e, t, own) ==
    [what |-> "add", element |-> e, tag |-> t, own |-> own, by |-> r,
     observed |-> seen[r]]
Stamped(r, v, t) ==
    [what |-> "set", element |-> v, stamp |-> t, by |-> r, observed |-> seen[r]]

Updated(r, x, op) ==
    /\ pass = NoPass
    /\ r \in members
    /\ Len(ops) < MaxUpdates
    /\ rep' = [rep EXCEPT ![r] = x]
    /\ ops' = Append(ops, op)
    /\ seen' = [seen EXCEPT ![r] = @ \cup {Len(ops) + 1}]
    /\ UNCHANGED <<kind, members, pass>>

IncrementG(r, n) ==
    /\ kind = "GCounter"
    /\ Updated(r, [counts |-> [rep[r].counts EXCEPT ![r] = @ + n]], Counted(r, n))

IncrementPN(r, n) ==
    /\ kind = "PNCounter"
    /\ Updated(r, [rep[r] EXCEPT !.positive[r] = @ + n], Counted(r, n))

Decrement(r, n) ==
    /\ kind = "PNCounter"
    /\ Updated(r, [rep[r] EXCEPT !.negative[r] = @ + n], Counted(r, -n))

AddG(r, e) ==
    /\ kind = "GSet"
    /\ Updated(r, [elements |-> rep[r].elements \cup {e}], Edited("add", r, e))

(* add(element) takes the next tag of the object, add(element, tag) the     *)
(* caller's.                                                                *)
NextTag(r) == <<r, rep[r].counter + 1>>

AddOR(r, e) ==
    /\ kind = "ORSet"
    /\ Updated(r, [rep[r] EXCEPT !.adds = @ \cup {<<e, NextTag(r)>>},
                                 !.counter = @ + 1],
               Tagged(r, e, NextTag(r), TRUE))

AddTagged(r, e, t) ==
    /\ kind = "ORSet"
    /\ Updated(r, [rep[r] EXCEPT !.adds = @ \cup {<<e, t>>}], Tagged(r, e, t, FALSE))

RemoveOR(r, e) ==
    /\ kind = "ORSet"
    /\ LET tags == {a[2] : a \in {b \in rep[r].adds : b[1] = e}}
       IN  Updated(r, [rep[r] EXCEPT !.removed = @ \cup tags],
                   Edited("remove", r, e))

(* set(value) takes the next timestamp, set(value, timestamp) the caller's. *)
Times(r) ==
    {rep[r].timestamp + 1}
    \cup {t \in Stamps : StampsMayLag \/ t > rep[r].timestamp}

Set(r, v) ==
    /\ kind \in Registers
    /\ \E t \in Times(r) :
        Updated(r, [value |-> v, timestamp |-> t, writer |-> r,
                    version |-> [rep[r].version EXCEPT ![r] = Larger(@, t)]],
                Stamped(r, v, t))

Update(r) ==
    \/ \E n \in Amounts : IncrementG(r, n) \/ IncrementPN(r, n) \/ Decrement(r, n)
    \/ \E e \in Elements :
          AddG(r, e) \/ AddOR(r, e) \/ RemoveOR(r, e) \/ \E t \in Tags : AddTagged(r, e, t)
    \/ \E v \in Values : Set(r, v)
-----------------------------------------------------------------------------
(* An exchange leaves both sides with the merge, each under its own id.     *)
Exchange(acc, a, b) ==
    LET merged == Merge(kind, acc.rep[a], acc.rep[b])
        known == acc.seen[a] \cup acc.seen[b]
    IN  [rep |-> [acc.rep EXCEPT ![a] = merged, ![b] = merged],
         seen |-> [acc.seen EXCEPT ![a] = known, ![b] = known],
         changed |-> acc.changed
                     \/ State(kind, acc.rep[a]) # State(kind, merged)
                     \/ State(kind, acc.rep[b]) # State(kind, merged)]

Now == [rep |-> rep, seen |-> seen, changed |-> FALSE]

Sync(a, b) ==
    /\ pass = NoPass
    /\ {a, b} \subseteq members
    /\ rep' = Exchange(Now, a, b).rep
    /\ seen' = Exchange(Now, a, b).seen
    /\ UNCHANGED <<kind, members, pass, ops>>

\* fault: only neighbours meet
FaultMeets(a, b) == b = a + 1 /\ {a, b} \subseteq members

Meets(a, b) == a < b /\ {a, b} \subseteq members

(* Pairs are visited in lexicographic order: p counts all pairs of replicas. *)
First(p) == 1 + (p - 1) \div N
Second(p) == 1 + ((p - 1) % N)

AfterRound ==
    LET after[p \in 0..N * N] ==
            IF p = 0 THEN Now
            ELSE IF Meets(First(p), Second(p))
                 THEN Exchange(after[p - 1], First(p), Second(p))
                 ELSE after[p - 1]
    IN  after[N * N]

StartConverge(limit) ==
    /\ pass = NoPass
    /\ Cardinality(members) >= 2
    /\ pass' = [done |-> 0, left |-> limit]
    /\ UNCHANGED <<kind, members, rep, ops, seen>>

Agree(reps) == \A a, b \in members : State(kind, reps[a]) = State(kind, reps[b])

(* converge() returns after a round that changed nothing and left one       *)
(* state, or when its rounds are spent.                                     *)
Round ==
    /\ pass.left > 0
    /\ LET after == AfterRound
       IN  /\ rep' = after.rep
           /\ seen' = after.seen
           /\ pass' = IF (Agree(after.rep) /\ ~ after.changed) \/ pass.left = 1
                      THEN NoPass
                      ELSE [done |-> pass.done + 1, left |-> pass.left - 1]
    /\ UNCHANGED <<kind, members, ops>>

Next ==
    \/ \E r \in Replica : AddReplica(r) \/ Update(r)
    \/ \E a, b \in Replica : Sync(a, b)
    \/ \E limit \in RoundLimits : StartConverge(limit)
    \/ Round

Spec == Init /\ [][Next]_vars
-----------------------------------------------------------------------------
Object ==
    INSTANCE ReplicatedObject
    WITH view <- [r \in Replica |-> Value(kind, rep[r])]

(* Strong eventual consistency: whatever the exchanges, what a replica      *)
(* shows is determined by the set of updates it has seen - sums of counts,  *)
(* additions whose tags no removal has taken along, the latest write. A     *)
(* lost counter, a reused tag or a merge that prefers the wrong side would  *)
(* show here. Of registers it is true where StampsMayLag is not: one set    *)
(* to a time no later than its own shows what its own past outranks.        *)
ImplementsObject == Object!Spec

(* One round of converge() carries every update to every replica, because   *)
(* the pairs are visited in lexicographic order, and the next one changes   *)
(* nothing: the limit of sixteen rounds is never what stops it.             *)
ConvergeReachesAll ==
    [][pass # NoPass =>
          /\ Agree(rep)'
          /\ pass.done = 1 => pass' = NoPass
          /\ \A a, b \in members : seen'[a] = seen'[b]]_<<pass, rep, seen>>

Idempotent(k, x) == State(k, Merge(k, x, x)) = State(k, x)
Commutes(k, x, y) == State(k, Merge(k, x, y)) = State(k, Merge(k, y, x))
Absorbs(k, x, y) == State(k, Merge(k, Merge(k, x, y), y)) = State(k, Merge(k, x, y))
Associates(k, x, y, z) ==
    State(k, Merge(k, Merge(k, x, y), z)) = State(k, Merge(k, x, Merge(k, y, z)))

(* The laws verify_crdt_laws samples, at every reachable choice of states:  *)
(* merging is idempotent, commutes, absorbs what it has seen, associates.   *)
MergeLaws ==
    \A a \in Replica :
        /\ Idempotent(kind, rep[a])
        /\ \A b \in Replica \ {a} :
            /\ a < b => Commutes(kind, rep[a], rep[b])
            /\ Absorbs(kind, rep[a], rep[b])
            /\ \A c \in Replica \ {a, b} : Associates(kind, rep[a], rep[b], rep[c])
=============================================================================
