------------------------------ MODULE MCParts ------------------------------
(* Small instances of the parts of pacore that share no state: a behaviour  *)
(* follows one of them, and the others stay at one of their initial states. *)
EXTENDS Supervision, RecoveryTransaction, CheckpointStore, Dataflow,
        BSPEngine, TimerWheel, WorkStealing, DeadlockDetector, Collectives

VARIABLE part  \* the one that moves

vars == <<part, supervisionVars, transactionVars, checkpointVars, dataflowVars,
          bspVars, wheelVars, stealingVars, detectorVars, collectiveVars>>

\* a level may have no budget at all
MCBudget == <<2, 1, 0, 1>>
MCOverrides ==
    {<<>>, [unknown |-> "yes", fromCheckpoint |-> TRUE],
     [unknown |-> "yes", idempotent |-> TRUE, duplicates |-> TRUE],
     [specific |-> TRUE, routes |-> FALSE], [unknown |-> "yes", boundary |-> TRUE],
     [detector |-> TRUE, known |-> FALSE]}

\* a list and the tuple of its elements, a longer list, and a quantum state
\* and the string of its repr()
MCText ==
    [list |-> <<"a">>, tuple |-> <<"a">>, longer |-> <<"a", "b">>,
     state |-> <<"b">>, repr |-> <<"b">>]

\* lift feeds one side of join; fan copies what join makes
MCOrder == <<"join", "lift", "fan">>
MCInputs == [lift |-> <<"s">>, join |-> <<"c", "t">>, fan |-> <<"o">>]
MCOutputs == [lift |-> <<"c">>, join |-> <<"o">>, fan |-> <<"x", "y">>]
MCOwner == [lift |-> "w1", join |-> "w1", fan |-> "w1"]
MCCapacity == [s |-> 1, t |-> 1, c |-> 1, o |-> 1, x |-> 1, y |-> 1]

\* one worker far away in another trust domain, two of one group, one of
\* another group of their domain, and the one that their group may grow by
MCGroup == <<"k", "g", "g", "h", "g">>
MCDomain == <<"e", "d", "d", "d", "d">>
MCTrust == <<"r", "l", "l", "l", "l">>

\* no property tells two tasks apart
Symmetry == Permutations(Tasks)

MCProducer == [f \in Futures |-> 1]
-----------------------------------------------------------------------------
Some(S) == CHOOSE e \in S : TRUE

Init ==
    /\ part \in {"supervision", "transaction", "checkpoints", "dataflow", "bsp",
                 "wheel", "stealing", "detector", "collectives"}
    /\ SupervisionInit /\ TransactionInit /\ CheckpointInit /\ DataflowInit
    /\ BSPInit /\ WheelInit /\ StealingInit /\ DetectorInit /\ CollectivesInit
    /\ part # "transaction" => prior = Some([Keys -> Values])
    /\ part # "checkpoints" => heap = Some([Objects -> Payloads])
    /\ part # "stealing" => movable = Tasks /\ payload = [t \in Tasks |-> Nil]

Supervise ==
    /\ part = "supervision" /\ SupervisionNext
    /\ UNCHANGED <<part, transactionVars, checkpointVars, dataflowVars, bspVars,
                   wheelVars, stealingVars, detectorVars, collectiveVars>>

Transact ==
    /\ part = "transaction" /\ TransactionNext
    /\ UNCHANGED <<part, supervisionVars, checkpointVars, dataflowVars, bspVars,
                   wheelVars, stealingVars, detectorVars, collectiveVars>>

UseCheckpoints ==
    /\ part = "checkpoints" /\ CheckpointNext
    /\ UNCHANGED <<part, supervisionVars, transactionVars, dataflowVars, bspVars,
                   wheelVars, stealingVars, detectorVars, collectiveVars>>

Flow ==
    /\ part = "dataflow" /\ DataflowNext
    /\ UNCHANGED <<part, supervisionVars, transactionVars, checkpointVars, bspVars,
                   wheelVars, stealingVars, detectorVars, collectiveVars>>

RunSuperstep ==
    /\ part = "bsp" /\ BSPNext
    /\ UNCHANGED <<part, supervisionVars, transactionVars, checkpointVars,
                   dataflowVars, wheelVars, stealingVars, detectorVars,
                   collectiveVars>>

Turn ==
    /\ part = "wheel" /\ WheelNext
    /\ UNCHANGED <<part, supervisionVars, transactionVars, checkpointVars,
                   dataflowVars, bspVars, stealingVars, detectorVars,
                   collectiveVars>>

MoveTasks ==
    /\ part = "stealing" /\ StealingNext
    /\ UNCHANGED <<part, supervisionVars, transactionVars, checkpointVars,
                   dataflowVars, bspVars, wheelVars, detectorVars, collectiveVars>>

Detect ==
    /\ part = "detector" /\ DetectorNext
    /\ UNCHANGED <<part, supervisionVars, transactionVars, checkpointVars,
                   dataflowVars, bspVars, wheelVars, stealingVars, collectiveVars>>

Collect ==
    /\ part = "collectives" /\ CollectivesNext
    /\ UNCHANGED <<part, supervisionVars, transactionVars, checkpointVars,
                   dataflowVars, bspVars, wheelVars, stealingVars, detectorVars>>

Next ==
    \/ Supervise \/ Transact \/ UseCheckpoints \/ Flow \/ RunSuperstep \/ Turn
    \/ MoveTasks \/ Detect \/ Collect

Spec == Init /\ [][Next]_vars
=============================================================================
