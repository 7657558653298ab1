------------------------------ MODULE Dataflow ------------------------------
(***************************************************************************)
(* DataflowRuntime of fabric.py: nodes over bounded channels. step() goes  *)
(* once over the nodes in a fixed order and fires those that satisfy the   *)
(* firing rule; run() repeats it until a round fires nothing or max_steps  *)
(* rounds have passed. Threads outside hold the other ends: they fill the  *)
(* sources, which they may close, and empty the sinks. The function of a   *)
(* node may raise. A token is a number and whether it is quantum; a firing *)
(* hands both on. A channel is an input of at most one node and an output  *)
(* of at most one, and is listed once.                                     *)
(***************************************************************************)
EXTENDS Naturals, Sequences, FiniteSets, Functions

CONSTANTS
    Order,       \* the nodes, as step() sorts them by priority, deadline, id
    Inputs,      \* node -> sequence of channels
    Outputs,     \* node -> sequence of channels
    Owner,       \* node -> worker
    Satisfiable, \* nodes whose resource claim their worker can satisfy
    Guarded,     \* nodes whose ownership guard refuses quantum tokens
    Timed,       \* nodes with a logical deadline
    Capacity,    \* channel -> capacity
    MaxSteps,    \* rounds of one run()
    MaxTokens,   \* bound: tokens a source is given
    MaxRaises    \* bound: functions that raise

Nodes == Range(Order)
Channels == DOMAIN Capacity
Sources == Channels \ UNION {Range(Outputs[n]) : n \in Nodes}
Sinks == Channels \ UNION {Range(Inputs[n]) : n \in Nodes}

ASSUME DataflowAssumption ==
    /\ Order \in Seq(Nodes)
    /\ Inputs \in [Nodes -> Seq(Channels)] /\ Outputs \in [Nodes -> Seq(Channels)]
    /\ \A n \in Nodes : Inputs[n] # <<>>
    /\ \A m, n \in Nodes : m # n =>
          /\ Range(Inputs[m]) \cap Range(Inputs[n]) = {}
          /\ Range(Outputs[m]) \cap Range(Outputs[n]) = {}
    /\ Capacity \in [Channels -> Nat \ {0}]
    /\ MaxSteps \in Nat /\ MaxTokens \in Nat /\ MaxRaises \in Nat

VARIABLES
    queue,    \* channel -> tokens in it
    closed,   \* channels closed
    fed,      \* source -> tokens it was given
    failed,   \* workers that have failed
    late,     \* nodes whose deadline has passed
    spent,    \* numbers of the quantum tokens no longer LIVE
    turn,     \* place in Order of the node looked at; 0 outside run()
    admitted, \* that node has been admitted and fires next
    fires,    \* some node has fired in this round
    rounds,   \* rounds this run() may still begin
    stopped,  \* how the last run() ended
    touched,  \* history: something happened outside since the round began
    raises,   \* history: functions that raised
    halved,   \* history: a channel refused in the middle of a firing
    mixed     \* history: a firing combined tokens of different numbers

runState == <<turn, admitted, fires, rounds, stopped, raises, halved, mixed>>
dataflowVars ==
    <<queue, closed, fed, failed, late, spent, touched, runState>>

Available(n) == \A c \in Range(Inputs[n]) : queue[c] # <<>>

Peeked(n) == {Head(queue[c]) : c \in {d \in Range(Inputs[n]) : queue[d] # <<>>}}

\* a quantum token must be LIVE, must not fan out, and must pass the guard
OwnershipHolds(n) ==
    \A t \in Peeked(n) : t.quantum =>
        /\ t.number \notin spent
        /\ Len(Outputs[n]) <= 1
        /\ n \notin Guarded

\* fault: an output that is already full passes
FaultBackpressure(n) == \A c \in Range(Outputs[n]) : Len(queue[c]) <= Capacity[c]

Backpressure(n) ==
    \A c \in Range(Outputs[n]) : Len(queue[c]) < Capacity[c] /\ c \notin closed

MayFire(n) ==
    /\ Available(n)
    /\ OwnershipHolds(n)
    /\ n \in Satisfiable
    /\ Owner[n] \notin failed
    /\ Backpressure(n)
    /\ n \notin late

Outside == touched' = TRUE /\ UNCHANGED runState

Feed(c, quantum) ==
    /\ fed[c] < MaxTokens /\ Len(queue[c]) < Capacity[c] /\ c \notin closed
    /\ fed' = [fed EXCEPT ![c] = @ + 1]
    /\ queue' = [queue EXCEPT
           ![c] = Append(@, [number |-> fed[c] + 1, quantum |-> quantum])]
    /\ Outside /\ UNCHANGED <<closed, failed, late, spent>>

Drain(c) ==
    /\ queue[c] # <<>>
    /\ queue' = [queue EXCEPT ![c] = Tail(@)]
    /\ Outside /\ UNCHANGED <<closed, fed, failed, late, spent>>

CloseSource(c) ==
    /\ c \notin closed
    /\ closed' = closed \cup {c}
    /\ Outside /\ UNCHANGED <<queue, fed, failed, late, spent>>

FailWorker(w) ==
    /\ w \notin failed
    /\ failed' = failed \cup {w}
    /\ Outside /\ UNCHANGED <<queue, closed, fed, late, spent>>

\* the logical clock, which others share, passes the deadline of a node
PassDeadline(n) ==
    /\ n \notin late
    /\ late' = late \cup {n}
    /\ Outside /\ UNCHANGED <<queue, closed, fed, failed, spent>>

Spend(t) ==
    /\ t \notin spent
    /\ spent' = spent \cup {t}
    /\ Outside /\ UNCHANGED <<queue, closed, fed, failed, late>>

flow == <<queue, closed, fed, failed, late, spent>>

Run ==
    /\ turn = 0 /\ MaxSteps > 0
    /\ turn' = 1 /\ fires' = FALSE /\ rounds' = MaxSteps - 1
    /\ stopped' = "running" /\ touched' = FALSE
    /\ UNCHANGED <<flow, admitted, raises, halved, mixed>>

Evaluate ==
    /\ turn \in DOMAIN Order /\ ~ admitted
    /\ IF MayFire(Order[turn])
       THEN admitted' = TRUE /\ UNCHANGED turn
       ELSE turn' = turn + 1 /\ UNCHANGED admitted
    /\ UNCHANGED <<flow, fires, rounds, stopped, touched, raises, halved, mixed>>

(* Receives from the inputs, calls the function and sends on the outputs,   *)
(* each without waiting: a channel that has nothing, is full or is closed   *)
(* makes step() raise with the tokens already taken.                        *)
Consumed(n) ==
    [c \in Channels |->
        IF c \in Range(Inputs[n]) /\ queue[c] # <<>> THEN Tail(queue[c]) ELSE queue[c]]

Numbers(n) == {t.number : t \in Peeked(n)}

\* every send of the firing goes through at once
Accepted(n) ==
    \A c \in Range(Outputs[n]) : Len(queue[c]) < Capacity[c] /\ c \notin closed

Leave(reason) == turn' = 0 /\ admitted' = FALSE /\ stopped' = reason

Fire ==
    LET n == Order[turn]
        result == [number |-> CHOOSE k \in Numbers(n) : TRUE,
                   quantum |-> \E t \in Peeked(n) : t.quantum]
    IN  /\ admitted
        /\ mixed' = (mixed \/ Cardinality(Numbers(n)) > 1)
        /\ IF Available(n) /\ Accepted(n)
           THEN /\ queue' = [c \in Channels |->
                        IF c \in Range(Outputs[n])
                        THEN Append(Consumed(n)[c], result)
                        ELSE Consumed(n)[c]]
                /\ admitted' = FALSE /\ turn' = turn + 1 /\ fires' = TRUE
                /\ UNCHANGED <<stopped, halved>>
           ELSE /\ queue' = Consumed(n)
                /\ Leave("raised") /\ halved' = TRUE
                /\ UNCHANGED fires
        /\ UNCHANGED <<closed, fed, failed, late, spent, rounds, touched, raises>>

FunctionRaises ==
    /\ admitted /\ raises < MaxRaises
    /\ queue' = Consumed(Order[turn])
    /\ Leave("raised") /\ raises' = raises + 1
    /\ UNCHANGED <<closed, fed, failed, late, spent, fires, rounds, touched,
                   halved, mixed>>

\* fault: the last node's decision stands for the round
FaultRoundIsQuiet == ~ fires \/ ~ MayFire(Order[Len(Order)])

RoundIsQuiet == ~ fires

EndOfRound ==
    /\ turn = Len(Order) + 1
    /\ IF RoundIsQuiet THEN Leave("quiet") /\ UNCHANGED <<rounds, fires, touched>>
       ELSE IF rounds = 0 THEN Leave("limit") /\ UNCHANGED <<rounds, fires, touched>>
       ELSE /\ turn' = 1 /\ fires' = FALSE /\ rounds' = rounds - 1
            /\ touched' = FALSE /\ UNCHANGED <<admitted, stopped>>
    /\ UNCHANGED <<flow, raises, halved, mixed>>

DataflowInit ==
    /\ queue = [c \in Channels |-> <<>>]
    /\ fed = [c \in Sources |-> 0]
    /\ closed = {} /\ failed = {} /\ late = {} /\ spent = {}
    /\ turn = 0 /\ admitted = FALSE /\ fires = FALSE /\ rounds = 0
    /\ stopped = "never" /\ touched = FALSE
    /\ raises = 0 /\ halved = FALSE /\ mixed = FALSE

DataflowNext ==
    \/ \E c \in Sources, quantum \in BOOLEAN : Feed(c, quantum)
    \/ \E c \in Sources : CloseSource(c)
    \/ \E c \in Sinks : Drain(c)
    \/ \E n \in Nodes : FailWorker(Owner[n])
    \/ \E n \in Timed : PassDeadline(n)
    \/ \E t \in 1..MaxTokens : Spend(t)
    \/ Run
    \/ Evaluate
    \/ Fire
    \/ FunctionRaises
    \/ EndOfRound

DataflowSpec == DataflowInit /\ [][DataflowNext]_dataflowVars
-----------------------------------------------------------------------------
(* Whatever the threads outside do between the decision and the firing, an  *)
(* admitted firing finds its tokens and room for its results; and as long   *)
(* as no function has raised, which loses the tokens it took, no node       *)
(* combines tokens that do not belong together.                             *)
FiringsAreWhole == ~ halved /\ (raises = 0 => ~ mixed)

(* run() gives up before max_steps only when no node could fire, unless     *)
(* something outside happened while it looked.                              *)
RunStopsOnlyWhenStuck ==
    [][stopped' = "quiet" /\ stopped # "quiet" /\ ~ touched =>
          \A n \in Nodes : ~ MayFire(n)]_dataflowVars
=============================================================================
