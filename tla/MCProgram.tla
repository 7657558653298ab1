----------------------------- MODULE MCProgram -----------------------------
(* What the core does with a program, in small instances that share no      *)
(* state: its rows are verified, analysed and scheduled, and simulated, its *)
(* replicated objects updated. A behaviour follows one of these.            *)
(*                                                                         *)
(* The rows of the graph are one of each kind that build_ses treats in its  *)
(* own way, over two qubits and a bit. Of three replicas one, two or all    *)
(* may have seen an update before the next.                                 *)
EXTENDS Ownership, Stabilizer, SemanticGraph, Replicas

CONSTANTS q1, q2, e, b, ab, cd, none

VARIABLE part  \* the one that moves

MCSlices == {<<q1>>, <<q2>>, <<e>>, <<q1, q2>>, <<q2, e>>}

MCObjects == {q1, q2, b}
MCTargets == {ab, cd}
MCRoutes == {<<ab, cd>>}

MCRow(op, reads, writes) ==
    [op |-> op, reads |-> reads, writes |-> writes, out |-> none,
     condition |-> none, link |-> none, lane |-> none, cost |-> 1,
     errors |-> 0]

MCRows ==
    {[MCRow("gate", {q1}, {q1}) EXCEPT !.cost = 2, !.errors = 1],
     MCRow("gate", {q1, q2}, {q2}),
     [MCRow("measure", {q1}, {b}) EXCEPT !.out = b],
     [MCRow("control", {b}, {}) EXCEPT !.condition = b],
     [MCRow("comm", {q2}, {}) EXCEPT !.link = ab],
     [MCRow("region", {}, {}) EXCEPT !.lane = ab, !.link = ab, !.cost = 0],
     [MCRow("barrier", {}, {}) EXCEPT !.cost = 0]}

\* q1 and q2 after REMOTE_CNOT, and after q1 was prepared again
MCEntanglements ==
    {[k \in MCObjects |-> {}],
     [k \in MCObjects |-> IF k = q1 THEN {q2} ELSE {}]}

\* a tag that replica 1 also takes for itself
MCTags == {<<1, 1>>}
-----------------------------------------------------------------------------
programVars ==
    <<part, ownershipVars, stabilizerVars, graphVars, vars>>

ProgramInit ==
    /\ part \in {"ownership", "stabilizer", "graph", "replicas"}
    /\ OwnershipInit /\ StabilizerInit /\ GraphInit /\ Init
    \* a part that does not move starts in one way
    /\ part # "replicas" => kind = "GSet"
    /\ part # "graph" => entangled = [k \in MCObjects |-> {}]

Verify ==
    /\ part = "ownership" /\ OwnershipNext
    /\ UNCHANGED <<part, stabilizerVars, graphVars, vars>>

Simulate ==
    /\ part = "stabilizer" /\ StabilizerNext
    /\ UNCHANGED <<part, ownershipVars, graphVars, vars>>

Analyse ==
    /\ part = "graph" /\ GraphNext
    /\ UNCHANGED <<part, ownershipVars, stabilizerVars, vars>>

Replicate ==
    /\ part = "replicas" /\ Next
    /\ UNCHANGED <<part, ownershipVars, stabilizerVars, graphVars>>

ProgramNext == Verify \/ Simulate \/ Analyse \/ Replicate

ProgramSpec == ProgramInit /\ [][ProgramNext]_programVars
=============================================================================
