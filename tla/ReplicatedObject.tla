-------------------------- MODULE ReplicatedObject --------------------------
(***************************************************************************)
(* What the replicated types of the reference implementation promise: a    *)
(* replica is the set of updates that have reached it, and what it shows   *)
(* is a function of that set alone, whatever the order in which the        *)
(* updates came and however often.                                         *)
(***************************************************************************)
EXTENDS Integers, Sequences, Lists

CONSTANTS N

VARIABLES kind, members, ops, seen, view

vars == <<kind, members, ops, seen, view>>

Replica == 1..N

Total(S) ==
    SumTo([i \in DOMAIN ops |-> IF i \in S THEN ops[i].amount ELSE 0], Len(ops))

Added(S) == {i \in S : ops[i].what = "add"}

(* The additions that a known removal of their element had observed. The    *)
(* tags they carry count no longer.                                         *)
Gone(S) ==
    {i \in Added(S) :
        \E j \in S : /\ ops[j].what = "remove"
                    /\ ops[j].element = ops[i].element
                    /\ i \in ops[j].observed}

Present(S) == {i \in Added(S) : \A k \in Gone(S) : ops[k].tag # ops[i].tag}

Latest(S) ==
    CHOOSE i \in S : \A j \in S :
        \/ ops[j].stamp < ops[i].stamp
        \/ ops[j].stamp = ops[i].stamp /\ ops[j].by <= ops[i].by

(* What a replica shows once it has seen the updates S. A register nobody   *)
(* has written shows nothing.                                               *)
Shown(S) ==
    CASE kind \in {"GCounter", "PNCounter"} -> {Total(S)}
      [] kind = "GSet" -> {ops[i].element : i \in S}
      [] kind = "ORSet" -> {ops[i].element : i \in Present(S)}
      [] OTHER -> IF S = {} THEN {} ELSE {ops[Latest(S)].element}

Showing == view = [r \in Replica |-> Shown(seen[r])]

Init ==
    /\ kind \in {"GCounter", "PNCounter", "GSet", "ORSet", "Lamport", "Vector"}
    /\ members = {}
    /\ ops = <<>>
    /\ seen = [r \in Replica |-> {}]
    /\ Showing

Join ==
    /\ \E r \in Replica \ members : members' = members \cup {r}
    /\ UNCHANGED <<kind, ops, seen, view>>

(* A tag that an object takes for itself was not taken before.              *)
FreshTag(op) ==
    \A i \in DOMAIN ops : ops[i].what = "add" /\ ops[i].own => ops[i].tag # op.tag

(* An update takes effect at one replica, which has seen what it has seen.  *)
Update ==
    \E r \in members :
        /\ Len(ops') = Len(ops) + 1
        /\ SubSeq(ops', 1, Len(ops)) = ops
        /\ ops'[Len(ops')].by = r
        /\ ops'[Len(ops')].observed = seen[r]
        /\ LET op == ops'[Len(ops')]
           IN  kind = "ORSet" /\ op.what = "add" /\ op.own => FreshTag(op)
        /\ seen' = [seen EXCEPT ![r] = @ \cup {Len(ops')}]
        /\ UNCHANGED <<kind, members>>

(* Replicas learn updates from one another, and only from one another.      *)
Gossip ==
    /\ \A r \in Replica : \E from \in SUBSET members :
           seen'[r] = seen[r] \cup UNION {seen[q] : q \in from}
    /\ UNCHANGED <<kind, members, ops>>

Next == Join \/ ((Update \/ Gossip) /\ Showing')

Spec == Init /\ [][Next]_vars
=============================================================================
