---------------------------- MODULE MCProtocols ----------------------------
(* Small instances of the two stores of protocols.py, which share no state: *)
(* a behaviour follows one of them.  Of the ebits, the three nodes a swap   *)
(* needs, two link ebits and the pair swapped from them, epochs 0 and 1.    *)
(* Of the messages, one that arrives at once, one that arrives on the last  *)
(* instant the timeout allows, one that is too late, and the negative       *)
(* latency only a retry lets through.                                       *)
EXTENDS EbitLedger, ClassicalFeedback, TLC

CONSTANTS n1, n2, n3, c1, none

VARIABLE part  \* the one that moves

MCNodes == {n1, n2, n3}
MCClients == {c1}
NodeSymmetry == Permutations(MCNodes)

MCLatencies == {-1, 0, 1, 2}

protocolVars == <<part, vars, feedbackVars>>

ProtocolsInit == part \in {"ebits", "messages"} /\ Init /\ FeedbackInit

MoveEbits == part = "ebits" /\ Next /\ UNCHANGED <<part, feedbackVars>>

MoveMessages == part = "messages" /\ FeedbackNext /\ UNCHANGED <<part, vars>>

ProtocolsSpec == ProtocolsInit /\ [][MoveEbits \/ MoveMessages]_protocolVars
=============================================================================
