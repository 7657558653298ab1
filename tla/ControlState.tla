---------------------------- MODULE ControlState ----------------------------
(***************************************************************************)
(* ControlState of pk_components/inv05_current_control_state_system: a      *)
(* revisioned store with compare-and-swap, and the controllers that keep a *)
(* copy of it by listing it once and watching what comes after, while      *)
(* somebody compacts the history.  A value is the name of its writer.      *)
(***************************************************************************)
EXTENDS Naturals, Lists

CONSTANTS StateKeys, Controllers, NoValue,
          Compares,    \* what is compared: keys and the revisions expected
          MaxRevision  \* bound: how many changes there are

\* any keys, or none; 0 is the revision of a key that is not there
ASSUME ControlAssumption ==
    /\ \A compare \in Compares :
          /\ DOMAIN compare \subseteq StateKeys
          /\ \A k \in DOMAIN compare : compare[k] \in Nat
    /\ MaxRevision \in Nat

VARIABLES revision,
          data,         \* key -> value and mod_revision, 0 for a key that is not there
          history,
          compactedAt,
          copy,         \* the copy of data each controller has
          from          \* the revision it will watch from, 0 before its first list

controlVars == <<revision, data, history, compactedAt, copy, from>>

NoEntry == [value |-> NoValue, rev |-> 0]

ControlInit ==
    /\ revision = 0
    /\ data = [k \in StateKeys |-> NoEntry]
    /\ history = <<>>
    /\ compactedAt = 0
    /\ copy = [c \in Controllers |-> data]
    /\ from = [c \in Controllers |-> 0]

Change(n, k, v) == [rev |-> n, key |-> k, value |-> v]

Holds(compare) == \A k \in DOMAIN compare : data[k].rev = compare[k]

\* ops lists the keys of a dict; unless compare holds nothing happens
txn(c, compare, ops) ==
    LET ks == {ops[i] : i \in DOMAIN ops}
        Place(k) == CHOOSE i \in DOMAIN ops : ops[i] = k
    IN  /\ Holds(compare)
        /\ revision + Len(ops) <= MaxRevision
        /\ revision' = revision + Len(ops)
        /\ data' = [k \in StateKeys |->
                      IF k \in ks THEN [value |-> c, rev |-> revision + Place(k)]
                      ELSE data[k]]
        /\ history' = history \o [i \in DOMAIN ops |-> Change(revision + i, ops[i], c)]
        /\ UNCHANGED <<compactedAt, copy, from>>

FaultWatchable(n) == n >= compactedAt  \* slip: off by one

Watchable(n) == n > compactedAt

\* what a copy is after the changes of h
After(old, h) ==
    [k \in StateKeys |->
        LET at == {i \in DOMAIN h : h[i].key = k}
        IN  IF at = {} THEN old[k]
            ELSE LET last == h[CHOOSE i \in at : \A j \in at : j <= i]
                 IN  [value |-> last.value, rev |-> last.rev]]

Changes == {history[i] : i \in DOMAIN history}

watch(c) ==
    /\ from[c] > 0 /\ Watchable(from[c])
    /\ copy' = [copy EXCEPT ![c] =
                   After(@, Kept(history, {h \in Changes : h.rev >= from[c]}))]
    /\ from' = [from EXCEPT ![c] = revision + 1]
    /\ UNCHANGED <<revision, data, history, compactedAt>>

\* the first list, and the one that Compacted asks for
List(c) ==
    /\ from[c] = 0 \/ ~ Watchable(from[c])
    /\ copy' = [copy EXCEPT ![c] = data]
    /\ from' = [from EXCEPT ![c] = revision + 1]
    /\ UNCHANGED <<revision, data, history, compactedAt>>

\* nothing keeps a caller from naming a revision that is yet to come
compact(n) ==
    /\ history' = Kept(history, {h \in Changes : h.rev > n})
    /\ compactedAt' = IF n > compactedAt THEN n ELSE compactedAt
    /\ UNCHANGED <<revision, data, copy, from>>

ControlNext ==
    \/ \E c \in Controllers :
          \/ watch(c) \/ List(c)
          \/ \E n \in 0..MaxRevision : \E ops \in [1..n -> StateKeys] :
                /\ \A i, j \in 1..n : ops[i] = ops[j] => i = j
                /\ \E compare \in Compares : txn(c, compare, ops)
    \/ \E n \in 1..(MaxRevision + 1) : compact(n)

ControlSpec == ControlInit /\ [][ControlNext]_controlVars

(* A controller that has watched up to the current revision has an exact    *)
(* copy, whatever was compacted between its watches: it is told of a gap    *)
(* and never given one.  And the copy of any controller is old at worst: an *)
(* entry with the revision of the stored one is the stored one.             *)
WatchersCatchUp ==
    \A c \in Controllers :
        /\ from[c] = revision + 1 => copy[c] = data
        /\ \A k \in StateKeys : /\ copy[c][k].rev <= data[k].rev
                                /\ copy[c][k].rev = data[k].rev => copy[c][k] = data[k]
=============================================================================
