------------------------------ MODULE Ownership ------------------------------
(***************************************************************************)
(* The ownership rules of lang.verify (core/reference/pacore/lang.py): it  *)
(* goes through the rows of a program, keeps a record for every object key *)
(* and rejects the program when a row uses a state that has moved, was     *)
(* measured or released, or that another node owns. An action is one row;  *)
(* a row that prepares several keys is a row for each.                     *)
(*                                                                         *)
(* Left out: checks of a row by itself (catalogues, arity, parameters,     *)
(* declarations), entangled_with, last_row and owner_domain. What follows  *)
(* a rejecting row only adds diagnostics, and is left out too.             *)
(***************************************************************************)
EXTENDS Integers, Sequences

CONSTANTS
    ObjectKeys, \* object keys such as q[0]
    Slices,     \* what a cell may name: one key, or two
    HostNodes,  \* what the NODE cell names
    NoNode,     \* an empty NODE cell
    Bits,       \* classical values
    MaxLineages \* bound: lineages that a program may mint

ASSUME OwnershipAssumption ==
    /\ Slices \subseteq {<<k>> : k \in ObjectKeys}
                       \cup {s \in ObjectKeys \X ObjectKeys : s[1] # s[2]}
    /\ MaxLineages \in Nat

VARIABLES
    own,        \* the record of a key, or NoRecord
    bits,       \* classical_bits: what a measurement has produced
    lineages,   \* lineage_counter
    rejected    \* a REJECT diagnostic has been given

ownershipVars == <<own, bits, lineages, rejected>>

Cells == HostNodes \cup {NoNode}
NoRecord == [lineage |-> 0, state |-> "NONE", node |-> NoNode]
OwnershipRecords ==
    [lineage : Nat, state : {"LIVE", "MOVED", "MEASURED", "RELEASED"}, node : Cells]

OwnershipTypeOK ==
    /\ own \in [ObjectKeys -> OwnershipRecords \cup {NoRecord}]
    /\ bits \in SUBSET Bits
    /\ lineages \in Nat
    /\ rejected \in BOOLEAN

OwnershipInit ==
    /\ own = [k \in ObjectKeys |-> NoRecord]
    /\ bits = {} /\ lineages = 0 /\ rejected = FALSE

HasRecord(k) == own[k] # NoRecord

\* slip: E-OWN-002 is not given for what was measured
FaultUsable(touched, node, distributed) ==
    \A k \in touched : HasRecord(k) =>
        /\ own[k].state \in {"LIVE", "MEASURED"}
        /\ distributed \/ own[k].node \in {NoNode, node}

(* No E-OWN diagnostic for the keys a row reads or writes. Only a           *)
(* distributed primitive may use what another node owns.                    *)
Usable(touched, node, distributed) ==
    \A k \in touched : HasRecord(k) =>
        /\ own[k].state = "LIVE"
        /\ distributed \/ own[k].node \in {NoNode, node}

Reject == rejected' = TRUE /\ UNCHANGED <<own, bits, lineages>>

New(node) == [lineage |-> lineages + 1, state |-> "LIVE", node |-> node]

Mint(k, node) ==
    /\ lineages < MaxLineages
    /\ own' = [own EXCEPT ![k] = New(node)]
    /\ lineages' = lineages + 1
    /\ UNCHANGED <<bits, rejected>>
-----------------------------------------------------------------------------
\* PREP and RESET: whatever the record of the key was
PrepareRow(k, node) == ~ rejected /\ Mint(k, node)

\* a gate, a channel or another local row that changes no record
GateRow(touched, node) ==
    /\ ~ rejected
    /\ \/ ~ (\A k \in touched : HasRecord(k)) /\ Reject
       \/ ~ Usable(touched, node, FALSE) /\ Reject

\* MEASURE and its kind; REMOTE_MEASURE is a distributed primitive
MeasureRow(k, bit, node, distributed) ==
    /\ ~ rejected
    /\ IF Usable({k}, node, distributed)
       THEN /\ own' = IF HasRecord(k) THEN [own EXCEPT ![k].state = "MEASURED"] ELSE own
            /\ bits' = bits \cup {bit}
            /\ UNCHANGED <<lineages, rejected>>
       ELSE Reject

(* TELEPORT of one key: the state moves with its lineage.                   *)
Moved(records, from, to, node) ==
    [records EXCEPT ![from].state = "MOVED",
                    ![to] = [lineage |-> records[from].lineage,
                             state |-> "LIVE", node |-> node]]

(* TELEPORT of a slice of one or two keys, key by key, as far as there are  *)
(* destinations.                                                            *)
TeleportRow(from, to, node) ==
    /\ ~ rejected
    /\ LET touched == {from[i] : i \in DOMAIN from} \cup {to[i] : i \in DOMAIN to}
           first == Moved(own, from[1], to[1], node)
       IN  IF Usable(touched, node, TRUE) /\ \A i \in DOMAIN from : HasRecord(from[i])
           THEN /\ own' = IF Len(from) = 2 /\ Len(to) = 2
                          THEN Moved(first, from[2], to[2], node) ELSE first
                /\ UNCHANGED <<bits, lineages, rejected>>
           ELSE Reject

\* ENTANGLE_LINK and EPR_RESERVE, over a LINK
EntangleLink(k, node) ==
    /\ ~ rejected
    /\ IF Usable({k}, node, TRUE) THEN Mint(k, node) ELSE Reject

\* EPR_RELEASE
EprRelease(k) ==
    /\ ~ rejected
    /\ IF HasRecord(k) /\ own[k].state = "LIVE"
       THEN /\ own' = [own EXCEPT ![k].state = "RELEASED"]
            /\ UNCHANGED <<bits, lineages, rejected>>
       ELSE Reject

\* REMOTE_CNOT, PURIFY, ENTANGLEMENT_SWAP and the like change no record
RemoteUse(touched, node) ==
    ~ rejected /\ ~ Usable(touched, node, TRUE) /\ Reject

\* CLASSICAL_IF and its kind need a value that a measurement has produced
ControlRow(bit) == ~ rejected /\ bit \notin bits /\ Reject

OwnershipNext ==
    \/ \E k \in ObjectKeys, node \in Cells :
          \/ PrepareRow(k, node)
          \/ EntangleLink(k, node)
          \/ \E bit \in Bits, distributed \in BOOLEAN :
                MeasureRow(k, bit, node, distributed)
    \/ \E from, to \in Slices, node \in Cells : TeleportRow(from, to, node)
    \/ \E touched \in SUBSET ObjectKeys, node \in Cells :
          GateRow(touched, node) \/ RemoteUse(touched, node)
    \/ \E k \in ObjectKeys : EprRelease(k)
    \/ \E bit \in Bits : ControlRow(bit)

OwnershipSpec == OwnershipInit /\ [][OwnershipNext]_ownershipVars
-----------------------------------------------------------------------------
Live(k) == own[k].state = "LIVE"
LiveLineages == {own[k].lineage : k \in {l \in ObjectKeys : Live(l)}}

\* at most one key holds a state that has not moved on
Linear ==
    \A k, l \in ObjectKeys :
        HasRecord(k) /\ HasRecord(l) /\ own[k].lineage = own[l].lineage
        /\ own[k].state # "MOVED" /\ own[l].state # "MOVED" => k = l

(* In a program that is not rejected no state is ever held by two keys,     *)
(* also not by one that was measured or released, and a state that no key   *)
(* holds live is never live again: there is no way back but a new lineage.  *)
NoCloning ==
    /\ []Linear
    /\ [][LiveLineages' \subseteq LiveLineages \cup {lineages + 1}]_ownershipVars
=============================================================================
