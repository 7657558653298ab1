---------------------------- MODULE MCPlatform ----------------------------
(* Small instances of the parts of pk and of the two control planes of      *)
(* PHOTON.  None shares state with another: a behaviour follows one of      *)
(* them.  The conformance workflow looks at the stages that differ, and at  *)
(* W8 for those that do not.  Of the electron store, an electron and the    *)
(* child forked from it, or two that are created apart; of the VEC service, *)
(* an electron, its clone, and two checkpoints between which the content    *)
(* changes.                                                                 *)
EXTENDS Conformance, ReplicatedKey, ReliableQueue, ControlState,
        ElectronStore, VECService

VARIABLE part  \* the one that moves

pkVars == <<conformanceVars, keyVars, queueVars, controlVars>>
photonVars == <<storeVars, vars>>
platformVars == <<part, pkVars, photonVars>>

MCComponents == <<"PLN-01">>
MCStages == <<0, 4, 7, 8, 9>>

\* a caller compares nothing or all
MCCompares == UNION {[ks -> 0..MaxRevision] : ks \in {{}, StateKeys}}

MaxFailures == 1  \* bound: one write of the store raises, or one command dies
-----------------------------------------------------------------------------
PlatformInit ==
    /\ part \in {"conformance", "key", "queue", "control", "store", "service"}
    /\ ConformanceInit /\ KeyInit /\ QueueInit /\ ControlInit
    /\ StoreInit /\ Init

Conform ==
    /\ part = "conformance" /\ ConformanceNext
    /\ UNCHANGED <<part, keyVars, queueVars, controlVars, photonVars>>

Replicate ==
    /\ part = "key" /\ KeyNext
    /\ UNCHANGED <<part, conformanceVars, queueVars, controlVars, photonVars>>

Queue ==
    /\ part = "queue" /\ QueueNext
    /\ UNCHANGED <<part, conformanceVars, keyVars, controlVars, photonVars>>

Control ==
    /\ part = "control" /\ ControlNext
    /\ UNCHANGED <<part, conformanceVars, keyVars, queueVars, photonVars>>

MoveStore ==
    /\ part = "store" /\ StoreNext /\ errors' + crashes' <= MaxFailures
    /\ UNCHANGED <<part, pkVars, vars>>

MoveService ==
    /\ part = "service" /\ Next
    /\ UNCHANGED <<part, pkVars, storeVars>>

PlatformNext ==
    Conform \/ Replicate \/ Queue \/ Control \/ MoveStore \/ MoveService

PlatformSpec == PlatformInit /\ [][PlatformNext]_platformVars
=============================================================================
