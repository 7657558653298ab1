---------------------------- MODULE BoundedFifo ----------------------------
(***************************************************************************)
(* What a channel of the fabric promises its users: a bounded queue, first *)
(* in first out, that takes nothing after it was closed, gives what is     *)
(* left until it is drained, and gives nothing more once it is cancelled.  *)
(***************************************************************************)
EXTENDS Naturals, Sequences

CONSTANTS Channels, Capacity, Items

VARIABLES queue, closed, cancelled

vars == <<queue, closed, cancelled>>

Init ==
    /\ queue = [c \in Channels |-> <<>>]
    /\ closed = [c \in Channels |-> FALSE]
    /\ cancelled = [c \in Channels |-> FALSE]

Put(c, item) ==
    /\ ~ closed[c]
    /\ Len(queue[c]) < Capacity
    /\ queue' = [queue EXCEPT ![c] = Append(@, item)]
    /\ UNCHANGED <<closed, cancelled>>

Take(c) ==
    /\ ~ cancelled[c]
    /\ queue[c] # <<>>
    /\ queue' = [queue EXCEPT ![c] = Tail(@)]
    /\ UNCHANGED <<closed, cancelled>>

Close(c) ==
    /\ closed' = [closed EXCEPT ![c] = TRUE]
    /\ UNCHANGED <<queue, cancelled>>

Cancel(c) ==
    /\ closed' = [closed EXCEPT ![c] = TRUE]
    /\ cancelled' = [cancelled EXCEPT ![c] = TRUE]
    /\ UNCHANGED queue

Next ==
    \E c \in Channels :
        \/ \E item \in Items : Put(c, item)
        \/ Take(c)
        \/ Close(c)
        \/ Cancel(c)

Spec == Init /\ [][Next]_vars
=============================================================================
