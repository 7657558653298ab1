---------------------------- MODULE VECService -----------------------------
(***************************************************************************)
(* VECService of PHOTON/shell/VEC1/runtime: requests of the HTTP threads   *)
(* hold one lock, write the files of electrons and checkpoints, and append *)
(* to the ledger.  A request is a list of writes still to be made; every   *)
(* write is durable on its own, may raise, and the process may die before  *)
(* it.  Readers take no lock and may look between two writes.              *)
(*                                                                         *)
(* Objects, animation and observations are one content; the tick, names,   *)
(* lineage and placements are left out.  A hash stands for what it is the  *)
(* hash of.  A request that raises before it writes is no step: unknown    *)
(* ids, denied capabilities, failed preconditions, the lifecycle gate.     *)
(* Callers who choose an id do not choose that of a clone to come; clone    *)
(* asks for the file before it writes (Collides), so nothing is overwritten.*)
(***************************************************************************)
EXTENDS Naturals, Sequences, FiniteSets

CONSTANTS MaxElectrons,  \* bound: how many electrons there are
          Contents,      \* what operations edit
          NewContent,    \* the content of an electron that was just created
          MaxSnapshots,  \* bound: how many different checkpoint files
          MaxRequests,   \* bound: how many requests write anything
          MaxFaults,     \* bound: how many times a write fails or the process dies
          None           \* what is in the place of a file, key or hash there is not

VARIABLES file,       \* the state file of each electron
          snapshots,  \* the checkpoint files, in the order of their first writing
          cloneKey,   \* what the id of each clone is the hash of
          logged,     \* the state hash in the last event of each electron
          ledger,     \* what a verification of the ledger file would find
          cached,     \* AppendOnlyLedger._head is set and fits the file
          todo,       \* the writes the request that holds the lock has yet to make
          requests,   \* how many requests there were
          faults      \* how many faults there were

vars == <<file, snapshots, cloneKey, logged, ledger, cached, todo, requests, faults>>

Electrons == 1..MaxElectrons

\* records are the checkpoints a state refers to, clones its clone_counter
States == [content : Contents, status : {"ACTIVE", "SUSPENDED", "RETIRED"},
           records : SUBSET (1..MaxSnapshots), clones : Nat]

ASSUME VECAssumption ==
    /\ MaxElectrons \in Nat /\ MaxSnapshots \in Nat
    /\ MaxRequests \in Nat /\ MaxFaults \in Nat
    /\ NewContent \in Contents
    /\ None \notin States /\ None \notin Electrons \X States

Snapshots == [of : Electrons, state : States]

Writes == [write : {"snapshot", "state", "event", "note"}, of : Electrons, state : States]

NewElectron == [content |-> NewContent, status |-> "ACTIVE", records |-> {}, clones |-> 0]

Init ==
    /\ file = [e \in Electrons |-> None]
    /\ snapshots = <<>>
    /\ cloneKey = [e \in Electrons |-> None]
    /\ logged = [e \in Electrons |-> None]
    /\ ledger = "whole"
    /\ cached = FALSE
    /\ todo = <<>>
    /\ requests = 0
    /\ faults = 0
-----------------------------------------------------------------------------
(* Requests.                                                               *)

Known == {e \in Electrons : file[e] # None}

\* a new id is one whose file does not exist
IsFresh(e) == e \notin Known /\ \A f \in Electrons \ Known : e <= f

Write(kind, e, s) == [write |-> kind, of |-> e, state |-> s]

\* the end of operate() and of create(): save, then append
Commit(e, s) == <<Write("state", e, s), Write("event", e, s)>>

Begin(writes) ==
    /\ todo = <<>> /\ requests < MaxRequests
    /\ todo' = writes
    /\ requests' = requests + 1
    /\ UNCHANGED <<file, snapshots, logged, ledger, cached, faults>>

Create ==
    \E e \in Electrons :
        /\ IsFresh(e)
        /\ Begin(Commit(e, NewElectron))
        /\ cloneKey' = [cloneKey EXCEPT ![e] = None]

Operate(writes) == Begin(writes) /\ UNCHANGED cloneKey

\* object.upsert, object.delete, animation.keyframe, animation.tick,
\* ocr.observe and ocr.commit
Edit(e) ==
    /\ file[e].status = "ACTIVE"
    /\ \E c \in Contents : Operate(Commit(e, [file[e] EXCEPT !.content = c]))

\* the name of a checkpoint file is the hash of its content
SnapshotId(e, s) ==
    IF \E i \in DOMAIN snapshots : snapshots[i] = [of |-> e, state |-> s]
    THEN CHOOSE i \in DOMAIN snapshots : snapshots[i] = [of |-> e, state |-> s]
    ELSE Len(snapshots) + 1

FaultCheckpoint(e) ==  \* slip: the file is written after the state refers to it
    LET s == file[e] IN
    /\ s.status # "RETIRED" /\ SnapshotId(e, s) <= MaxSnapshots
    /\ Operate(Commit(e, [s EXCEPT !.records = @ \cup {SnapshotId(e, s)}])
                 \o <<Write("snapshot", e, s)>>)

Checkpoint(e) ==
    LET s == file[e] IN
    /\ s.status # "RETIRED" /\ SnapshotId(e, s) <= MaxSnapshots
    /\ Operate(<<Write("snapshot", e, s)>>
                 \o Commit(e, [s EXCEPT !.records = @ \cup {SnapshotId(e, s)}]))

\* what was recorded since the snapshot is kept, and ids of clones stay used up
Restored(s, saved) ==
    [saved EXCEPT !.records = @ \cup s.records,
                  !.clones = IF s.clones > @ THEN s.clones ELSE @,
                  !.status = "ACTIVE"]

Restore(e) ==
    /\ file[e].status # "SUSPENDED"
    /\ \E i \in DOMAIN snapshots :
          /\ snapshots[i].of = e
          /\ Operate(Commit(e, Restored(file[e], snapshots[i].state)))

SetStatus(e) ==
    \E from \in {"ACTIVE", "SUSPENDED"}, to \in {"ACTIVE", "SUSPENDED", "RETIRED"} :
        /\ file[e].status = from /\ from # to
        /\ Operate(Commit(e, [file[e] EXCEPT !.status = to]))

\* cross_target.verify changes no state
Verify(e) == Operate(<<Write("note", e, file[e])>>)

FaultCounted(e) == file[e]  \* slip: the counter is not advanced

Counted(e) == [file[e] EXCEPT !.clones = @ + 1]

FaultCloneWrites(e, c, s, copy) ==  \* slip: only the clone is entered in the ledger
    <<Write("state", e, s), Write("state", c, copy), Write("event", c, copy)>>

CloneWrites(e, c, s, copy) ==
    <<Write("state", e, s), Write("state", c, copy),
      Write("event", e, s), Write("event", c, copy)>>

Collides(e) == \E c \in Known : cloneKey[c] = <<e, Counted(e)>>

Clone(e) ==
    /\ file[e].status # "RETIRED" /\ ~ Collides(e)
    /\ \E c \in Electrons :
          /\ IsFresh(c)
          /\ Begin(CloneWrites(e, c, Counted(e),
                     [Counted(e) EXCEPT !.clones = 0, !.records = {}, !.status = "ACTIVE"]))
          /\ cloneKey' = [cloneKey EXCEPT ![c] = <<e, Counted(e)>>]
-----------------------------------------------------------------------------
(* Writes, and what can go wrong with them.                                *)

Doing(kind) == todo # <<>> /\ Head(todo).write = kind

WriteSnapshot ==
    /\ Doing("snapshot")
    /\ LET w == Head(todo) IN
          snapshots' = IF SnapshotId(w.of, w.state) \in DOMAIN snapshots THEN snapshots
                       ELSE Append(snapshots, [of |-> w.of, state |-> w.state])
    /\ todo' = Tail(todo)
    /\ UNCHANGED <<file, cloneKey, logged, ledger, cached, requests, faults>>

WriteState ==
    /\ Doing("state")
    /\ file' = [file EXCEPT ![Head(todo).of] = Head(todo).state]
    /\ todo' = Tail(todo)
    /\ UNCHANGED <<snapshots, cloneKey, logged, ledger, cached, requests, faults>>

Log(w) == logged' = IF w.write = "event" THEN [logged EXCEPT ![w.of] = w.state] ELSE logged

Appending == Doing("event") \/ Doing("note")

\* the head is cached, or the file passes verification; with an unended last
\* line it does
Appendable == cached \/ ledger # "broken"

\* after an unended line the new one continues it, which nobody notices before
\* the file is read again
AppendEvent ==
    /\ Appending /\ Appendable
    /\ Log(Head(todo))
    /\ ledger' = IF ledger = "whole" THEN "whole" ELSE "broken"
    /\ cached' = TRUE
    /\ todo' = Tail(todo)
    /\ UNCHANGED <<file, snapshots, cloneKey, requests, faults>>

\* LedgerIntegrityError, which the client sees as a conflict
Reject ==
    /\ Appending /\ ~ Appendable
    /\ todo' = <<>>
    /\ UNCHANGED <<file, snapshots, cloneKey, logged, ledger, cached, requests, faults>>

Fault ==
    /\ todo # <<>> /\ faults < MaxFaults
    /\ faults' = faults + 1
    /\ todo' = <<>>
    /\ UNCHANGED <<file, snapshots, cloneKey, requests>>

\* a write raises and leaves nothing
Error == Fault /\ UNCHANGED <<logged, ledger, cached>>

Crash == Fault /\ cached' = FALSE /\ UNCHANGED <<logged, ledger>>

\* an append fails, or the process dies, with all of the line in the file, all
\* but its end, or a part
TornAppend ==
    /\ Appending /\ Appendable
    /\ Fault
    /\ cached' = FALSE
    /\ \/ Log(Head(todo)) /\ ledger' = IF ledger = "whole" THEN "whole" ELSE "broken"
       \/ ledger = "whole" /\ Log(Head(todo)) /\ ledger' = "unended"
       \/ ledger' = "broken" /\ UNCHANGED logged

\* the shell is stopped and started again
Restart ==
    /\ todo = <<>> /\ cached
    /\ cached' = FALSE
    /\ UNCHANGED <<file, snapshots, cloneKey, logged, ledger, todo, requests, faults>>

Request ==
    \/ Create
    \/ \E e \in Known :
          \/ Edit(e) \/ Checkpoint(e) \/ Restore(e) \/ SetStatus(e)
          \/ Verify(e) \/ Clone(e)

Next ==
    \/ Request
    \/ WriteSnapshot \/ WriteState \/ AppendEvent \/ Reject
    \/ Error \/ Crash \/ TornAppend \/ Restart

Spec == Init /\ [][Next]_vars
-----------------------------------------------------------------------------
TypeOK ==
    /\ file \in [Electrons -> States \cup {None}]
    /\ snapshots \in Seq(Snapshots) /\ Len(snapshots) <= MaxSnapshots
    /\ cloneKey \in [Electrons -> (Electrons \X States) \cup {None}]
    /\ logged \in [Electrons -> States \cup {None}]
    /\ ledger \in {"whole", "unended", "broken"}
    /\ cached \in BOOLEAN
    /\ todo \in Seq(Writes)
    /\ requests \in 0..MaxRequests /\ faults \in 0..MaxFaults

Sound(e, s) == \A i \in s.records : i \in DOMAIN snapshots /\ snapshots[i].of = e

(* verify_checkpoints finds nothing, whenever it looks: what a state, or a  *)
(* state that can be restored, refers to is a checkpoint of that electron.  *)
CheckpointsVerify ==
    /\ \A e \in Known : Sound(e, file[e])
    /\ \A i \in DOMAIN snapshots : Sound(snapshots[i].of, snapshots[i].state)

(* Restoring an old state loses no record of a checkpoint and frees no id   *)
(* of a clone.                                                              *)
HistoryIsKept ==
    [][\A e \in Known : /\ file[e].records \subseteq file'[e].records
                        /\ file[e].clones <= file'[e].clones]_vars

(* The deterministic id of the next clone is free of other clones, whatever *)
(* was cloned, restored and lost in crashes before.                         *)
NoCloneCollision == \A e \in Known : todo = <<>> => ~ Collides(e)

Behind == {e \in Electrons : logged[e] # file[e]}

(* Between requests the ledger knows the state of every electron, but for   *)
(* the two that a fault can catch between their saving and the append.      *)
LedgerLag ==
    todo = <<>> /\ Appendable => Cardinality(Behind) <= 2 * faults

(* The ledger never speaks of a state that was not stored before.           *)
LoggedWasStored ==
    [][\A e \in Electrons : logged'[e] # logged[e] => logged'[e] = file[e]]_vars
=============================================================================
