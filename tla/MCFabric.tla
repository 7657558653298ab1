------------------------------ MODULE MCFabric ------------------------------
(* The two primitives of fabric.py that wait, in small instances that share *)
(* no state; a behaviour follows one of them. With capacity 1 a second      *)
(* sender waits and two receivers compete for one item. With three futures  *)
(* one can wait for a second while the third is run, cancelled or drained   *)
(* from inside.                                                             *)
EXTENDS Channel, AsyncEngine

CONSTANTS t1, t2, t3

VARIABLE part  \* the one that moves

MCThreads == {t1, t2, t3}
-----------------------------------------------------------------------------
fabricVars == <<part, channelVars, engineVars>>

FabricInit ==
    /\ part \in {"channel", "engine"}
    /\ ChannelInit /\ EngineInit

Communicate == part = "channel" /\ ChannelNext /\ UNCHANGED <<part, engineVars>>
RunFutures == part = "engine" /\ EngineNext /\ UNCHANGED <<part, channelVars>>

FabricNext == Communicate \/ RunFutures

\* a part that does not move has nothing under way
FabricSpec ==
    FabricInit /\ [][FabricNext]_fabricVars /\ ChannelFairness /\ EngineFairness
=============================================================================
