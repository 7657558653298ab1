--------------------------- MODULE CheckpointStore ---------------------------
(***************************************************************************)
(* The CheckpointStore of resilience.py. save() keeps the payload by       *)
(* reference and a checksum of every block of its canonical text; load()   *)
(* recomputes the blocks and compares. The caller may go on changing the   *)
(* object it saved, and may save it under several names. Different         *)
(* payloads may have one text: JSON does not tell a tuple from a list, and *)
(* an object is written as the string of its repr(). Checksums of          *)
(* different blocks are different.                                         *)
(***************************************************************************)
EXTENDS Naturals, Sequences

CONSTANTS
    Objects,          \* the caller's payload objects
    CheckpointIds,
    Payloads,         \* what an object may contain
    QuantumPayloads,  \* those that carry unknown quantum state
    Blocks,           \* contents of a block
    Text              \* the blocks of the canonical text of each payload

ASSUME CheckpointAssumption == \A p \in Payloads : Text[p] \in Seq(Blocks)

VARIABLES
    heap,    \* contents of each object now
    store,   \* checkpoint id -> object, checksums, and what was saved
    loaded   \* history: the last load that succeeded

checkpointVars == <<heap, store, loaded>>

Quantum(payload) == payload \in QuantumPayloads

Checksums(payload) == [i \in DOMAIN Text[payload] |-> <<"sum", Text[payload][i]>>]

(* Quantum state is refused unless the kind is classically_known_state_prep *)
(* and the caller asserts that the state is known; that kind always needs   *)
(* the assertion.                                                           *)
Save(id, o, prep, known) ==
    /\ Quantum(heap[o]) => prep /\ known
    /\ prep => known
    /\ store' = [j \in DOMAIN store \cup {id} |->
                    IF j = id
                    THEN [object |-> o, sums |-> Checksums(heap[o]),
                          saved |-> heap[o], known |-> known]
                    ELSE store[j]]
    /\ UNCHANGED <<heap, loaded>>

\* fault: the number of blocks is not compared
FaultVerified(id) ==
    LET sums == Checksums(heap[store[id].object])
        kept == store[id].sums
    IN  \A i \in DOMAIN sums \cap DOMAIN kept : sums[i] = kept[i]

\* the first min(#recomputed, #stored) blocks, and the number of blocks
Verified(id) ==
    LET sums == Checksums(heap[store[id].object])
        kept == store[id].sums
    IN  /\ \A i \in DOMAIN sums \cap DOMAIN kept : sums[i] = kept[i]
        /\ Len(sums) = Len(kept)

Corrupt(id, i) ==
    /\ store' = [store EXCEPT ![id].sums[i] = <<"corrupt", 0>>]
    /\ UNCHANGED <<heap, loaded>>

Load(id) ==
    /\ id \in DOMAIN store /\ Verified(id)
    /\ loaded' = [payload |-> heap[store[id].object],
                  saved |-> store[id].saved, known |-> store[id].known]
    /\ UNCHANGED <<heap, store>>

Mutate(o, payload) ==
    /\ heap' = [heap EXCEPT ![o] = payload]
    /\ UNCHANGED <<store, loaded>>

CheckpointInit ==
    /\ heap \in [Objects -> Payloads]
    /\ store = <<>>
    /\ loaded = <<>>

CheckpointNext ==
    \/ \E id \in CheckpointIds, o \in Objects, prep, known \in BOOLEAN :
          Save(id, o, prep, known)
    \/ \E id \in DOMAIN store : \E i \in DOMAIN store[id].sums : Corrupt(id, i)
    \/ \E id \in CheckpointIds : Load(id)
    \/ \E o \in Objects, payload \in Payloads : Mutate(o, payload)

CheckpointSpec == CheckpointInit /\ [][CheckpointNext]_checkpointVars
-----------------------------------------------------------------------------
(* A load that succeeds returns, as far as its text tells, what was saved   *)
(* under that name last, though the store keeps only a reference and blocks *)
(* may have been corrupted; and what was saved was quantum state only if it *)
(* was declared classically known.                                          *)
LoadReturnsSaved ==
    loaded # <<>> =>
        /\ Text[loaded.payload] = Text[loaded.saved]
        /\ Quantum(loaded.saved) => loaded.known
=============================================================================
