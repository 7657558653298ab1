----------------------------- MODULE BSPEngine -----------------------------
(***************************************************************************)
(* BSPEngine of fabric.py: a superstep computes at the participants in the *)
(* order of their ids, each on its inbox, then delivers the messages of    *)
(* the communication plan into the inboxes, then passes the barrier. A     *)
(* superstep raises where a local function raises, where the plan names an *)
(* unknown worker or carries a quantum payload, or at an unknown barrier   *)
(* level; what was done before stays done, and the caller may go on.       *)
(***************************************************************************)
EXTENDS Naturals, Sequences, FiniteSets, SequencesExt

CONSTANTS
    N,           \* workers, by id
    MaxAttempts, \* bound: calls of superstep()
    MaxPlan      \* bound: messages of a communication plan

BSPWorkers == 1..N

ASSUME BSPAssumption == N \in Nat \ {0} /\ MaxAttempts \in Nat /\ MaxPlan \in Nat

VARIABLES
    inboxes,    \* worker -> messages delivered and not yet computed on
    supersteps, \* records of the supersteps that ended
    calls,  \* history: calls of superstep()
    sent,       \* history: worker -> messages delivered to it, in order
    computed    \* history: worker -> messages its functions returned on, each
                \* with the call in which they did

bspVars == <<inboxes, supersteps, calls, sent, computed>>

(* Where the call raises: at a participant, at a place of the plan, at the  *)
(* barrier, or nowhere.                                                     *)
Ends(participants, plan) ==
    [at : {"compute"}, i : participants]
        \cup [at : {"plan"}, i : DOMAIN plan]
        \cup [at : {"barrier", "nowhere"}, i : {0}]

Returned(participants, end) ==
    IF end.at = "compute" THEN {w \in participants : w < end.i} ELSE participants

Delivered(plan, end) ==
    CASE end.at = "compute" -> <<>>
      [] end.at = "plan" -> SubSeq(plan, 1, end.i - 1)
      [] OTHER -> plan

\* a message is known by the call that sends it to w and its number there
MessagesTo(w, delivered) ==
    [k \in 1..Cardinality({i \in DOMAIN delivered : delivered[i] = w}) |->
        [call |-> calls + 1, number |-> k]]

\* fault: an inbox is emptied before its function is called
FaultEmptied(participants, end) ==
    IF end.at = "compute" THEN {w \in participants : w <= end.i} ELSE participants

Emptied(participants, end) == Returned(participants, end)

Superstep(participants, plan, end) ==
    LET returned == Returned(participants, end)
        emptied == Emptied(participants, end)
        delivered == Delivered(plan, end)
        onTop(w) == IF w \in emptied THEN <<>> ELSE inboxes[w]
    IN  /\ calls < MaxAttempts
        /\ calls' = calls + 1
        /\ computed' = [w \in BSPWorkers |->
               IF w \in returned
               THEN computed[w] \o [k \in DOMAIN inboxes[w] |->
                        [message |-> inboxes[w][k], at |-> calls + 1]]
               ELSE computed[w]]
        /\ inboxes' = [w \in BSPWorkers |-> onTop(w) \o MessagesTo(w, delivered)]
        /\ sent' = [w \in BSPWorkers |-> sent[w] \o MessagesTo(w, delivered)]
        /\ supersteps' = supersteps + (IF end.at = "nowhere" THEN 1 ELSE 0)

BSPInit ==
    /\ inboxes = [w \in BSPWorkers |-> <<>>]
    /\ sent = [w \in BSPWorkers |-> <<>>]
    /\ computed = [w \in BSPWorkers |-> <<>>]
    /\ supersteps = 0 /\ calls = 0

BSPNext ==
    \E participants \in SUBSET BSPWorkers, plan \in BoundedSeq(BSPWorkers, MaxPlan) :
        \E end \in Ends(participants, plan) : Superstep(participants, plan, end)

BSPSpec == BSPInit /\ [][BSPNext]_bspVars
-----------------------------------------------------------------------------
(* Through supersteps that raise at any point, and workers that sit out     *)
(* some, every message delivered is handed to exactly one call of a local   *)
(* function that returns, in the order of delivery and never in the         *)
(* superstep that sent it.                                                  *)
MessagesOnce ==
    \A w \in BSPWorkers :
        /\ [k \in DOMAIN computed[w] |-> computed[w][k].message] \o inboxes[w]
               = sent[w]
        /\ \A k \in DOMAIN computed[w] : computed[w][k].message.call < computed[w][k].at
=============================================================================
