--------------------------- MODULE ReplicatedKey ---------------------------
(***************************************************************************)
(* ReplicatedKey of pk_components/gap05_state_replication_consistency_model *)
(* at several sites: a write carries the version vector its author had     *)
(* seen, a site keeps the writes no other one succeeds, and a write that   *)
(* finds no room among them is quarantined.  The writes travel by any      *)
(* means: each arrives at each site any number of times, in any order.     *)
(*                                                                         *)
(* A write is its vector and a number that stands for its value; a site    *)
(* that is not in a vector has the count 0.                                *)
(***************************************************************************)
EXTENDS Naturals, FiniteSets, FiniteSetsExt

CONSTANTS Sites,        \* replicas
          Resolvers,    \* in whose names conflicts are resolved, at any site
          MaxSiblings,  \* max_siblings
          MaxPut,       \* bound: how many writes there are when clients stop
          MaxWrites     \* bound: how many writes and resolutions there are

ASSUME KeyAssumption ==
    /\ Resolvers \subseteq Sites
    /\ MaxSiblings \in Nat \ {0}
    /\ MaxPut \in Nat /\ MaxWrites \in Nat

VARIABLES writes,      \* the writes that were made
          siblings,    \* the writes a site keeps
          quarantine,  \* the writes it had no room for
          taken,       \* history: the writes it did not quarantine when they came
          stamp        \* the last counter of its own a site knows of

keyVars == <<writes, siblings, quarantine, taken, stamp>>

Vectors == [Sites -> Nat]

dominates(a, b) == a # b /\ \A s \in Sites : a[s] >= b[s]

KeyInit ==
    /\ writes = {}
    /\ siblings = [s \in Sites |-> {}]
    /\ quarantine = [s \in Sites |-> {}]
    /\ taken = [s \in Sites |-> {}]
    /\ stamp = [s \in Sites |-> 0]

Survivors(s, w) == {v \in siblings[s] : ~ dominates(w.vector, v.vector)}

FaultTakes(s, w) ==  \* slip: a succeeded sibling stays
    siblings' = [siblings EXCEPT ![s] = @ \cup {w}]

Takes(s, w) == siblings' = [siblings EXCEPT ![s] = Survivors(s, w) \cup {w}]

apply(s, w) ==
    \/ /\ \/ w \in siblings[s]  \* duplicate
          \/ \E v \in siblings[s] : dominates(v.vector, w.vector)  \* superseded
       /\ taken' = [taken EXCEPT ![s] = @ \cup {w}]
       /\ UNCHANGED <<siblings, quarantine>>
    \/ /\ w \notin siblings[s]
       /\ \A v \in siblings[s] : ~ dominates(v.vector, w.vector)
       /\ IF Cardinality(Survivors(s, w)) + 1 > MaxSiblings
          THEN /\ quarantine' = [quarantine EXCEPT ![s] = @ \cup {w}]
               /\ UNCHANGED <<siblings, taken>>
          ELSE /\ Takes(s, w)
               /\ taken' = [taken EXCEPT ![s] = @ \cup {w}]
               /\ UNCHANGED quarantine

\* what somebody who read the writes of S has seen
Merged(S) == [t \in Sites |-> Max({v.vector[t] : v \in S} \cup {0})]

NewWrite(vector) == [vector |-> vector, value |-> Cardinality(writes) + 1]

\* the last counter of its own that the site knows, when it has seen n too
Raised(s, n) == Max({stamp[s], n})

\* a client of the site, who may have read before other writes arrived
PutAt(s, seen) ==
    LET merged == Merged(seen)
        n == Raised(s, merged[s]) + 1
        w == NewWrite([merged EXCEPT ![s] = n])
    IN  /\ Cardinality(writes) < MaxPut
        /\ writes' = writes \cup {w}
        /\ stamp' = [stamp EXCEPT ![s] = n]
        /\ apply(s, w)

Deliver(s, w) == apply(s, w) /\ UNCHANGED <<writes, stamp>>

\* at s, in the name of t: nobody tells t of the counter it spends
resolve(s, t) ==
    LET merged == Merged(siblings[s])
        winner == NewWrite([merged EXCEPT ![t] = @ + 1])
    IN  /\ Cardinality(writes) < MaxWrites
        /\ writes' = writes \cup {winner}
        /\ siblings' = [siblings EXCEPT ![s] = {winner}]
        /\ taken' = [taken EXCEPT ![s] = @ \cup {winner}]
        /\ stamp' = [stamp EXCEPT ![s] = Raised(s, winner.vector[s])]
        /\ UNCHANGED quarantine

KeyNext ==
    \E s \in Sites :
        \/ \E seen \in SUBSET siblings[s] : PutAt(s, seen)
        \/ \E w \in writes : Deliver(s, w)
        \/ \E t \in Resolvers : resolve(s, t)

KeySpec == KeyInit /\ [][KeyNext]_keyVars

Maximal(S) == {w \in S : \A v \in S : ~ dominates(v.vector, w.vector)}

(* A site keeps exactly the writes that nothing it took succeeds.  So two   *)
(* sites that took the same writes agree, in whatever order and however     *)
(* often these came, no conflict is settled without a resolution, and no    *)
(* write of the open conflict was evicted to make room. A write that a site *)
(* quarantined it has not taken: on it two sites may disagree.              *)
ConflictsAreKept ==
    \A s \in Sites :
        /\ siblings[s] = Maximal(taken[s])
        /\ Cardinality(siblings[s]) <= MaxSiblings
=============================================================================
