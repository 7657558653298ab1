---------------------------- MODULE PhotonProofs ----------------------------
(***************************************************************************)
(* Theorems about the two control planes of PHOTON, for any number of      *)
(* electrons, files, commands and failures.                                *)
(*                                                                         *)
(* VECService: the properties are made inductive by Fit, which says of     *)
(* each write still to be made what must be so when its turn comes, given  *)
(* the writes in front of it.                                              *)
(*                                                                         *)
(* ElectronStore: what holds while a command runs depends on the writes it *)
(* has left.  Each invariant says of a list of writes, given as an         *)
(* argument, what it will still do; a lemma says it of the list of each    *)
(* command, one of the tail of a list, and one that nothing is left to be  *)
(* said of the empty list.  The invariants are, in the order they use one  *)
(* another: HealInv (whatever parts a ledger from its anchor is followed   *)
(* by an anchor), StrandInv (what leaves RUNNING is to come, and in the    *)
(* exception handler too), LineageInv (lineages, receipts and snapshots    *)
(* stay in the family), EvidenceInv (evidence comes before what relies on  *)
(* it), CleanInv (without a failure, what audit misses is to come) and     *)
(* MatchInv (without a failure, a receipt fits its event or its tick is    *)
(* run again).                                                             *)
(***************************************************************************)
EXTENDS VECService, ElectronStore, DataFacts, TLAPS

\* A state that may follow another of the same electron.
Extends(old, new) == old.records \subseteq new.records /\ old.clones <= new.clones

\* The parent of a clone has counted it.
Paid(c) ==
    cloneKey[c] # None =>
        /\ cloneKey[c][1] \in Known
        /\ cloneKey[c][2].clones <= file[cloneKey[c][1]].clones

Saves(j, e) == todo[j].write = "state" /\ todo[j].of = e

\* The checkpoint is there, or is the one written first.
Grounded(e, r) ==
    \/ r \in DOMAIN snapshots /\ snapshots[r].of = e
    \/ /\ 1 \in DOMAIN todo
       /\ todo[1].write = "snapshot" /\ todo[1].of = e
       /\ r = Len(snapshots) + 1 /\ r = SnapshotId(e, todo[1].state)

FitSnapshot(i) ==
    todo[i].write = "snapshot" =>
        /\ i = 1
        /\ Sound(todo[i].of, todo[i].state)
        /\ SnapshotId(todo[i].of, todo[i].state) <= MaxSnapshots

FitState(i) ==
    todo[i].write = "state" =>
        /\ \A r \in todo[i].state.records : Grounded(todo[i].of, r)
        /\ todo[i].of \in Known => Extends(file[todo[i].of], todo[i].state)
        /\ \A j \in DOMAIN todo : Saves(j, todo[i].of) => j = i

FitClone(i) ==
    todo[i].write = "state" =>
        \/ Paid(todo[i].of)
        \/ \E j \in DOMAIN todo :
              /\ j < i /\ Saves(j, cloneKey[todo[i].of][1])
              /\ cloneKey[todo[i].of][2].clones <= todo[j].state.clones

FitEvent(i) ==
    todo[i].write = "event" =>
        /\ \A j \in DOMAIN todo :
              Saves(j, todo[i].of) => j < i /\ todo[j].state = todo[i].state
        /\ (\A j \in DOMAIN todo : ~ Saves(j, todo[i].of)) =>
              file[todo[i].of] = todo[i].state

Fit == \A i \in DOMAIN todo : FitSnapshot(i) /\ FitState(i) /\ FitClone(i) /\ FitEvent(i)

IInv == TypeOK /\ CheckpointsVerify /\ (\A c \in Known : Paid(c)) /\ Fit
-----------------------------------------------------------------------------
\* A service without electrons satisfies the invariant.
LEMMA InitIInv == Init => IInv
<1> SUFFICES ASSUME Init PROVE IInv
  OBVIOUS
<1> USE VECAssumption
<1>1. Known = {} /\ DOMAIN todo = {} /\ DOMAIN snapshots = {}
  BY DEF Init, Known
<1>2. TypeOK
  <2>1. todo \in Seq(Writes) /\ snapshots \in Seq(Snapshots) /\ Len(snapshots) = 0
    BY DEF Init
  <2>2. file \in [Electrons -> States \cup {None}]
    BY DEF Init
  <2>3. cloneKey \in [Electrons -> (Electrons \X States) \cup {None}]
    BY DEF Init
  <2>4. logged \in [Electrons -> States \cup {None}]
    BY DEF Init
  <2>5. requests \in 0..MaxRequests /\ faults \in 0..MaxFaults
    BY DEF Init
  <2>6. Len(snapshots) <= MaxSnapshots
    BY <2>1
  <2>7. ledger \in {"whole", "unended", "broken"} /\ cached \in BOOLEAN
    BY DEF Init
  <2> QED BY <2>1, <2>2, <2>3, <2>4, <2>5, <2>6, <2>7 DEF TypeOK
<1>3. CheckpointsVerify /\ Fit
  BY <1>1 DEF CheckpointsVerify, Fit
<1> QED BY <1>1, <1>2, <1>3 DEF IInv

\* SnapshotId names the checkpoint that is there already, or the next one.
LEMMA SnapshotIdFacts ==
  ASSUME TypeOK, NEW e, NEW s
  PROVE  /\ SnapshotId(e, s) \in 1..(Len(snapshots) + 1)
         /\ SnapshotId(e, s) \in DOMAIN snapshots =>
               snapshots[SnapshotId(e, s)] = [of |-> e, state |-> s]
<1> DEFINE P(i) == i \in DOMAIN snapshots /\ snapshots[i] = [of |-> e, state |-> s]
<1>0. Len(snapshots) \in Nat /\ DOMAIN snapshots = 1..Len(snapshots)
  BY DEF TypeOK
<1>1. CASE \E i \in DOMAIN snapshots : snapshots[i] = [of |-> e, state |-> s]
  <2>1. SnapshotId(e, s) \in DOMAIN snapshots
        /\ snapshots[SnapshotId(e, s)] = [of |-> e, state |-> s]
    BY <1>1, Zenon DEF SnapshotId
  <2> QED BY <2>1, <1>0
<1>2. CASE ~ \E i \in DOMAIN snapshots : snapshots[i] = [of |-> e, state |-> s]
  BY <1>2, <1>0 DEF SnapshotId
<1> QED BY <1>1, <1>2

\* The list of writes without its first.
LEMMA TailFacts ==
  ASSUME todo \in Seq(Writes), todo # <<>>, todo' = Tail(todo)
  PROVE  /\ todo' \in Seq(Writes) /\ Head(todo) = todo[1] /\ 1 \in DOMAIN todo
         /\ Head(todo) \in Writes
         /\ \A i \in DOMAIN todo : i \in Nat \ {0} /\ todo[i] \in Writes
         /\ \A i \in DOMAIN todo' : i \in Nat \ {0} /\ i + 1 \in DOMAIN todo /\ todo'[i] = todo[i + 1]
         /\ \A i \in DOMAIN todo : i # 1 => i - 1 \in DOMAIN todo' /\ todo'[i - 1] = todo[i]
  OBVIOUS

\* Electrons that are known have a state.
LEMMA KnownFacts ==
  ASSUME TypeOK
  PROVE  Known \subseteq Electrons /\ \A e \in Known : file[e] \in States
  BY DEF TypeOK, Known

\* What a stop in the middle leaves fits: nothing is still to be written.
LEMMA StopPreserves ==
  ASSUME IInv, TypeOK', UNCHANGED <<file, snapshots, cloneKey>>, todo' = <<>>
  PROVE  IInv'
<1>1. Known' = Known /\ DOMAIN todo' = {}
  BY DEF Known
<1>2. CheckpointsVerify'
  BY <1>1 DEF IInv, CheckpointsVerify, Sound
<1>3. (\A c \in Known : Paid(c))'
  BY <1>1 DEF IInv, Paid
<1>4. Fit'
  BY <1>1 DEF Fit
<1> QED BY <1>2, <1>3, <1>4 DEF IInv

\* When the write in front is not that of a state, the others are as fit as
\* they were, if only the checkpoints they count on are there.
LEMMA ShiftPreserves ==
  ASSUME IInv, TypeOK', CheckpointsVerify', UNCHANGED <<file, cloneKey>>,
         todo # <<>>, ~ Doing("state"), todo' = Tail(todo),
         \A e, r : Grounded(e, r) => Grounded(e, r)'
  PROVE  IInv'
<1>0. TypeOK /\ todo \in Seq(Writes)
  BY DEF IInv, TypeOK
<1>t. /\ 1 \in DOMAIN todo /\ \A i \in DOMAIN todo : i \in Nat \ {0} /\ todo[i] \in Writes
      /\ \A i \in DOMAIN todo' : i \in Nat \ {0} /\ i + 1 \in DOMAIN todo /\ todo'[i] = todo[i + 1]
      /\ \A i \in DOMAIN todo : i # 1 => i - 1 \in DOMAIN todo' /\ todo'[i - 1] = todo[i]
      /\ Head(todo) = todo[1]
  BY <1>0, TailFacts
<1>h. todo[1].write # "state"
  BY <1>t DEF Doing
<1>1. Known' = Known
  BY DEF Known
<1>3. \A c : Paid(c)' <=> Paid(c)
  BY <1>1 DEF Paid
<1>4. Fit'
  <2> SUFFICES ASSUME NEW i \in DOMAIN todo'
               PROVE  FitSnapshot(i)' /\ FitState(i)' /\ FitClone(i)' /\ FitEvent(i)'
    BY DEF Fit
  <2>0. /\ FitSnapshot(i + 1) /\ FitState(i + 1) /\ FitClone(i + 1) /\ FitEvent(i + 1)
        /\ i \in Nat \ {0} /\ todo'[i] = todo[i + 1] /\ i + 1 \in DOMAIN todo
    BY <1>t DEF IInv, Fit
  <2>1. FitSnapshot(i)'
    BY <2>0 DEF FitSnapshot
  <2>2. FitState(i)'
    <3> SUFFICES ASSUME todo'[i].write = "state" PROVE FitState(i)'
      BY DEF FitState
    <3>2. ASSUME NEW j \in DOMAIN todo', Saves(j, todo[i].of)' PROVE j = i
      <4>1. j \in Nat /\ j + 1 \in DOMAIN todo /\ Saves(j + 1, todo[i + 1].of)
        BY <3>2, <2>0, <1>t DEF Saves
      <4>2. todo[i + 1].write = "state"
        BY <2>0
      <4>3. j + 1 = i + 1
        BY <4>1, <4>2, <2>0 DEF FitState
      <4> QED BY <4>1, <4>3, <2>0
    <3> QED BY <3>2, <2>0, <1>1 DEF FitState, Extends
  <2>3. FitClone(i)'
    <3> SUFFICES ASSUME todo'[i].write = "state", ~ Paid(todo'[i].of)
                 PROVE  \E j \in DOMAIN todo' :
                          /\ j < i /\ Saves(j, cloneKey[todo[i].of][1])'
                          /\ cloneKey[todo'[i].of][2].clones <= todo'[j].state.clones
      BY <1>3 DEF FitClone
    <3>1. PICK k \in DOMAIN todo :
             /\ k < i + 1 /\ Saves(k, cloneKey[todo'[i].of][1])
             /\ cloneKey[todo'[i].of][2].clones <= todo[k].state.clones
      BY <2>0 DEF FitClone
    <3>2. k # 1
      BY <3>1, <1>h DEF Saves
    <3>3. k - 1 \in DOMAIN todo' /\ todo'[k - 1] = todo[k] /\ k - 1 < i
      BY <3>1, <3>2, <2>0, <1>t
    <3> QED BY <3>1, <3>3 DEF Saves
  <2>4. FitEvent(i)'
    <3> SUFFICES ASSUME todo'[i].write = "event" PROVE FitEvent(i)'
      BY DEF FitEvent
    <3>1. \A j \in DOMAIN todo' : Saves(j, todo[i].of)' => Saves(j + 1, todo[i + 1].of)
      BY <2>0, <1>t DEF Saves
    <3>2. \A j \in DOMAIN todo' :
             Saves(j, todo[i].of)' => j < i /\ todo'[j].state = todo'[i].state
      BY <3>1, <2>0, <1>t DEF FitEvent
    <3>3. ASSUME NEW j \in DOMAIN todo, Saves(j, todo[i + 1].of)
          PROVE  \E k \in DOMAIN todo' : Saves(k, todo[i].of)'
      <4>1. j - 1 \in DOMAIN todo' /\ todo'[j - 1] = todo[j]
        BY <3>3, <1>t, <1>h DEF Saves
      <4> QED BY <4>1, <3>3, <2>0 DEF Saves
    <3> QED BY <3>2, <3>3, <2>0 DEF FitEvent
  <2> QED BY <2>1, <2>2, <2>3, <2>4
<1> QED BY <1>1, <1>3, <1>4 DEF IInv

\* An append to the ledger.
LEMMA AppendPreserves ==
  ASSUME IInv, TypeOK', UNCHANGED <<file, snapshots, cloneKey>>, Appending, todo' = Tail(todo)
  PROVE  IInv'
<1>0. todo \in Seq(Writes) /\ todo # <<>>
  BY DEF IInv, TypeOK, Appending, Doing
<1>1. todo[1].write # "snapshot" /\ ~ Doing("state")
  BY <1>0, TailFacts DEF Appending, Doing
<1>2. \A e, r : Grounded(e, r) => Grounded(e, r)'
  BY <1>1 DEF Grounded
<1>3. CheckpointsVerify'
  BY DEF IInv, CheckpointsVerify, Sound, Known
<1> QED BY <1>0, <1>1, <1>2, <1>3, ShiftPreserves

\* A checkpoint that is written is the one the writes after it count on.
LEMMA WriteSnapshotPreserves ==
  ASSUME IInv, WriteSnapshot
  PROVE  IInv'
<1>0. TypeOK /\ todo \in Seq(Writes) /\ todo # <<>> /\ todo' = Tail(todo)
  BY DEF IInv, TypeOK, WriteSnapshot, Doing
<1>t. /\ 1 \in DOMAIN todo /\ Head(todo) = todo[1] /\ todo[1] \in Writes /\ todo' \in Seq(Writes)
  BY <1>0, TailFacts
<1> DEFINE w == todo[1]
           id == SnapshotId(w.of, w.state)
           new == [of |-> w.of, state |-> w.state]
<1>h. /\ w.write = "snapshot" /\ new \in Snapshots
      /\ snapshots' = IF id \in DOMAIN snapshots THEN snapshots ELSE Append(snapshots, new)
  BY <1>t DEF WriteSnapshot, Doing, Writes, Snapshots
<1>u. UNCHANGED <<file, cloneKey, logged, ledger, cached, requests, faults>>
  BY DEF WriteSnapshot
<1>f. Sound(w.of, w.state) /\ id <= MaxSnapshots
  BY <1>t, <1>h DEF IInv, Fit, FitSnapshot
<1>i. id \in 1..(Len(snapshots) + 1) /\ (id \in DOMAIN snapshots => snapshots[id] = new)
  BY <1>0, SnapshotIdFacts
<1>l. /\ snapshots \in Seq(Snapshots) /\ Len(snapshots) <= MaxSnapshots
      /\ Len(snapshots) \in Nat /\ DOMAIN snapshots = 1..Len(snapshots)
  BY <1>0 DEF TypeOK
<1> HIDE DEF w, id, new
<1>1. /\ snapshots' \in Seq(Snapshots) /\ Len(snapshots') <= MaxSnapshots
      /\ \A r \in DOMAIN snapshots : r \in DOMAIN snapshots' /\ snapshots'[r] = snapshots[r]
      /\ id \in DOMAIN snapshots' /\ snapshots'[id] = new
      /\ \A r \in DOMAIN snapshots' : r \in DOMAIN snapshots \/ snapshots'[r] = new
  <2>1. CASE id \in DOMAIN snapshots
    BY <2>1, <1>h, <1>i, <1>l
  <2>2. CASE id \notin DOMAIN snapshots
    <3>1. id = Len(snapshots) + 1
      BY <2>2, <1>i, <1>l
    <3> QED BY <3>1, <2>2, <1>h, <1>l, <1>f
  <2> QED BY <2>1, <2>2
<1>2. TypeOK'
  BY <1>0, <1>1, <1>t, <1>u DEF TypeOK
<1>3. \A e, s : Sound(e, s) => Sound(e, s)'
  BY <1>1 DEF Sound
<1>4. new.of = w.of /\ new.state = w.state
  BY DEF new
<1>5. CheckpointsVerify'
  <2>1. \A e \in Known' : Sound(e, file[e])'
    BY <1>u, <1>3 DEF IInv, CheckpointsVerify, Known, Sound
  <2>2. ASSUME NEW i \in DOMAIN snapshots' PROVE Sound(snapshots[i].of, snapshots[i].state)'
    <3>1. CASE i \in DOMAIN snapshots
      <4>1. Sound(snapshots[i].of, snapshots[i].state) /\ snapshots'[i] = snapshots[i]
        BY <3>1, <1>1 DEF IInv, CheckpointsVerify
      <4> QED BY <4>1, <1>1 DEF Sound
    <3>2. CASE snapshots'[i] = new
      BY <3>2, <1>1, <1>4, <1>f DEF Sound
    <3> QED BY <3>1, <3>2, <1>1
  <2> QED BY <2>1, <2>2 DEF CheckpointsVerify
<1>6. \A e, r : Grounded(e, r) => Grounded(e, r)'
  BY <1>1, <1>4 DEF Grounded, w, id
<1>7. ~ Doing("state")
  BY <1>h, <1>t DEF Doing, w
<1> QED BY <1>0, <1>2, <1>5, <1>6, <1>7, <1>u, ShiftPreserves

\* A state that is written gives its electron the state that the rest of the
\* list expects, takes back nothing from other electrons, and pays for clones.
LEMMA WriteStatePreserves ==
  ASSUME IInv, WriteState
  PROVE  IInv' /\ \A e \in Known : e \in Known' /\ Extends(file[e], file'[e])
<1>0. TypeOK /\ todo \in Seq(Writes) /\ todo # <<>> /\ todo' = Tail(todo)
  BY DEF IInv, TypeOK, WriteState, Doing
<1>t. /\ 1 \in DOMAIN todo /\ \A i \in DOMAIN todo : i \in Nat \ {0} /\ todo[i] \in Writes
      /\ \A i \in DOMAIN todo' : i \in Nat \ {0} /\ i + 1 \in DOMAIN todo /\ todo'[i] = todo[i + 1]
      /\ \A i \in DOMAIN todo : i # 1 => i - 1 \in DOMAIN todo' /\ todo'[i - 1] = todo[i]
      /\ Head(todo) = todo[1] /\ todo[1] \in Writes /\ todo' \in Seq(Writes)
  BY <1>0, TailFacts
<1> DEFINE w == todo[1]
<1>h. /\ w.write = "state" /\ w.of \in Electrons /\ w.state \in States /\ w.state # None
      /\ file' = [file EXCEPT ![w.of] = w.state]
  BY <1>t, VECAssumption DEF WriteState, Doing, Writes
<1>u. UNCHANGED <<snapshots, cloneKey, logged, ledger, cached, requests, faults>>
  BY DEF WriteState
<1>f. FitState(1) /\ FitClone(1)
  BY <1>t DEF IInv, Fit
<1> HIDE DEF w
<1>1. TypeOK'
  <2>1. file' \in [Electrons -> States \cup {None}]
    BY <1>0, <1>h DEF TypeOK
  <2> QED BY <2>1, <1>0, <1>t, <1>u DEF TypeOK
<1>2. Known' = Known \cup {w.of}
  BY <1>0, <1>h DEF Known, TypeOK
<1>3. file'[w.of] = w.state /\ \A e \in Electrons : e # w.of => file'[e] = file[e]
  BY <1>0, <1>h DEF TypeOK
<1>4. \A e \in Known : file[e] \in States
  BY <1>0, KnownFacts
<1>5. \A e \in Known : Extends(file[e], file'[e])
  <2> SUFFICES ASSUME NEW e \in Known PROVE Extends(file[e], file'[e])
    OBVIOUS
  <2>1. CASE e = w.of
    BY <2>1, <1>3, <1>f, <1>h DEF FitState, w
  <2>2. CASE e # w.of
    BY <2>2, <1>3, <1>4 DEF Extends, Known, States
  <2> QED BY <2>1, <2>2
<1>6. CheckpointsVerify'
  <2>1. Sound(w.of, w.state)
    BY <1>f, <1>h DEF FitState, Grounded, Sound, w
  <2>2. \A e, s : Sound(e, s)' <=> Sound(e, s')
    BY <1>u DEF Sound
  <2>3. \A e \in Known' : Sound(e, file'[e])
    BY <2>1, <1>2, <1>3 DEF IInv, CheckpointsVerify, Known
  <2> QED BY <2>3, <1>u DEF IInv, CheckpointsVerify, Sound
<1>7. \A c \in Electrons : Paid(c) => Paid(c)'
  <2> SUFFICES ASSUME NEW c \in Electrons, Paid(c), cloneKey[c] # None
               PROVE  /\ cloneKey[c][1] \in Known'
                      /\ cloneKey[c][2].clones <= file'[cloneKey[c][1]].clones
    BY <1>u DEF Paid
  <2> DEFINE p == cloneKey[c][1]
             k == cloneKey[c][2]
  <2>1. p \in Known /\ k.clones <= file[p].clones
    BY DEF Paid
  <2>2. k \in States /\ file[p] \in States /\ Extends(file[p], file'[p]) /\ file'[p] \in States
    BY <2>1, <1>0, <1>1, <1>2, <1>4, <1>5, KnownFacts DEF TypeOK, Known
  <2>3. k.clones \in Nat /\ file[p].clones \in Nat /\ file'[p].clones \in Nat
    BY <2>2 DEF States
  <2> QED BY <2>1, <2>2, <2>3, <1>2 DEF Extends
<1>8. \A c \in Electrons : c = w.of => Paid(c)'
  <2>1. \A j \in DOMAIN todo : ~ j < 1
    BY <1>t
  <2>2. Paid(w.of)
    BY <2>1, <1>f, <1>h DEF FitClone, w
  <2> QED BY <2>2, <1>7, <1>h
<1>9. (\A c \in Known : Paid(c))'
  <2>1. \A c \in Known : Paid(c) /\ c \in Electrons
    BY <1>0, KnownFacts DEF IInv
  <2>2. \A c \in Known \cup {w.of} : Paid(c)'
    BY <2>1, <1>7, <1>8, <1>h
  <2> QED BY <2>2, <1>2
<1>10. Fit'
  <2> SUFFICES ASSUME NEW i \in DOMAIN todo'
               PROVE  FitSnapshot(i)' /\ FitState(i)' /\ FitClone(i)' /\ FitEvent(i)'
    BY DEF Fit
  <2>0. /\ FitSnapshot(i + 1) /\ FitState(i + 1) /\ FitClone(i + 1) /\ FitEvent(i + 1)
        /\ i \in Nat \ {0} /\ todo'[i] = todo[i + 1] /\ i + 1 \in DOMAIN todo
        /\ todo'[i] \in Writes
    BY <1>t DEF IInv, Fit
  <2>e. todo'[i].of \in Electrons
    BY <2>0 DEF Writes
  <2>1. FitSnapshot(i)'
    BY <2>0 DEF FitSnapshot
  <2>2. FitState(i)'
    <3> SUFFICES ASSUME todo'[i].write = "state" PROVE FitState(i)'
      BY DEF FitState
    <3>1. \A e, r : Grounded(e, r) => Grounded(e, r)'
      BY <1>h, <1>u DEF Grounded, w
    <3>2. ASSUME NEW j \in DOMAIN todo', Saves(j, todo[i].of)' PROVE j = i
      <4>1. j \in Nat /\ j + 1 \in DOMAIN todo /\ Saves(j + 1, todo[i + 1].of)
        BY <3>2, <2>0, <1>t DEF Saves
      <4>2. todo[i + 1].write = "state"
        BY <2>0
      <4>3. j + 1 = i + 1
        BY <4>1, <4>2, <2>0 DEF FitState
      <4> QED BY <4>1, <4>3, <2>0
    <3>3. todo'[i].of # w.of
      BY <2>0, <1>h, <1>t DEF FitState, Saves, w
    <3>4. todo'[i].of \in Known' => todo'[i].of \in Known /\ file'[todo'[i].of] = file[todo'[i].of]
      BY <3>3, <1>2, <1>3, <2>e
    <3> QED BY <3>1, <3>2, <3>4, <2>0 DEF FitState, Extends
  <2>3. FitClone(i)'
    <3> SUFFICES ASSUME todo'[i].write = "state", ~ Paid(todo[i].of)'
                 PROVE  \E j \in DOMAIN todo' :
                          /\ j < i /\ Saves(j, cloneKey[todo[i].of][1])'
                          /\ cloneKey[todo'[i].of][2].clones <= todo'[j].state.clones
      BY <1>u DEF FitClone
    <3>0. ~ Paid(todo[i + 1].of)
      BY <1>7, <2>0, <2>e
    <3>1. PICK k \in DOMAIN todo :
             /\ k < i + 1 /\ Saves(k, cloneKey[todo'[i].of][1])
             /\ cloneKey[todo'[i].of][2].clones <= todo[k].state.clones
      BY <2>0, <3>0 DEF FitClone
    <3>2. k # 1
      <4> SUFFICES ASSUME k = 1 PROVE FALSE
        OBVIOUS
      <4>1. cloneKey[todo'[i].of][1] = w.of
            /\ cloneKey[todo'[i].of][2].clones <= file'[w.of].clones
        BY <3>1, <1>3 DEF Saves, w
      <4> QED BY <4>1, <1>2, <1>u DEF Paid
    <3>3. k - 1 \in DOMAIN todo' /\ todo'[k - 1] = todo[k] /\ k - 1 < i
      BY <3>1, <3>2, <2>0, <1>t
    <3> QED BY <3>1, <3>3, <1>u DEF Saves
  <2>4. FitEvent(i)'
    <3> SUFFICES ASSUME todo'[i].write = "event" PROVE FitEvent(i)'
      BY DEF FitEvent
    <3>1. \A j \in DOMAIN todo' : Saves(j, todo[i].of)' => Saves(j + 1, todo[i + 1].of)
      BY <2>0, <1>t DEF Saves
    <3>2. \A j \in DOMAIN todo' :
             Saves(j, todo[i].of)' => j < i /\ todo'[j].state = todo'[i].state
      BY <3>1, <2>0, <1>t DEF FitEvent
    <3>3. ASSUME \A j \in DOMAIN todo' : ~ Saves(j, todo[i].of)'
          PROVE  file'[todo'[i].of] = todo'[i].state
      <4>1. CASE w.of = todo'[i].of
        <5>1. Saves(1, todo[i + 1].of)
          BY <4>1, <2>0, <1>h DEF Saves, w
        <5> QED BY <5>1, <4>1, <2>0, <1>3, <1>t DEF FitEvent, w
      <4>2. CASE w.of # todo'[i].of
        <5>1. \A j \in DOMAIN todo : ~ Saves(j, todo[i + 1].of)
          BY <3>3, <4>2, <2>0, <1>t DEF Saves, w
        <5> QED BY <5>1, <4>2, <2>0, <2>e, <1>3 DEF FitEvent
      <4> QED BY <4>1, <4>2
    <3> QED BY <3>2, <3>3 DEF FitEvent
  <2> QED BY <2>1, <2>2, <2>3, <2>4
<1> QED BY <1>1, <1>2, <1>5, <1>6, <1>9, <1>10 DEF IInv
-----------------------------------------------------------------------------
\* The fields of states, and of states the operations make from them.
LEMMA StateFacts ==
  ASSUME NEW s \in States
  PROVE  /\ s.records \subseteq 1..MaxSnapshots /\ s.clones \in Nat
         /\ Extends(s, s) /\ s # None
  BY VECAssumption DEF States, Extends

\* A request that begins changes no file, and no key of a known electron.
LEMMA BeginFacts ==
  ASSUME IInv, NEW writes \in Seq(Writes), Begin(writes),
         cloneKey' \in [Electrons -> (Electrons \X States) \cup {None}],
         \A c \in Known : cloneKey'[c] = cloneKey[c]
  PROVE  /\ UNCHANGED <<file, snapshots>> /\ Known' = Known /\ todo' = writes
         /\ TypeOK' /\ CheckpointsVerify' /\ (\A c \in Known : Paid(c))'
<1>1. UNCHANGED <<file, snapshots, logged, ledger, cached, faults>> /\ todo' = writes
      /\ requests < MaxRequests /\ requests' = requests + 1
  BY DEF Begin
<1>2. Known' = Known
  BY <1>1 DEF Known
<1>3. TypeOK'
  <2>1. requests' \in 0..MaxRequests
    BY <1>1, VECAssumption DEF IInv, TypeOK
  <2> QED BY <2>1, <1>1 DEF IInv, TypeOK
<1>4. CheckpointsVerify'
  BY <1>1, <1>2 DEF IInv, CheckpointsVerify, Sound
<1>5. (\A c \in Known : Paid(c))'
  BY <1>1, <1>2 DEF IInv, Paid
<1> QED BY <1>1, <1>2, <1>3, <1>4, <1>5

\* Save and append fit: the new state follows the old one.
LEMMA CommitFits ==
  ASSUME NEW e \in Electrons, NEW s \in States, todo' = Commit(e, s),
         UNCHANGED <<file, snapshots>>, Sound(e, s), Paid(e)',
         e \in Known => Extends(file[e], s)
  PROVE  Fit'
<1>1. /\ DOMAIN todo' = {1, 2}
      /\ todo'[1] = Write("state", e, s) /\ todo'[2] = Write("event", e, s)
  BY DEF Commit
<1>2. /\ todo'[1].write = "state" /\ todo'[1].of = e /\ todo'[1].state = s
      /\ todo'[2].write = "event" /\ todo'[2].of = e /\ todo'[2].state = s
  BY <1>1 DEF Write
<1>3. Known' = Known
  BY DEF Known
<1>4. FitState(1)'
  BY <1>1, <1>2, <1>3 DEF FitState, Grounded, Sound, Saves
<1>5. FitClone(1)'
  BY <1>2 DEF FitClone, Paid
<1>6. FitEvent(2)'
  BY <1>1, <1>2 DEF FitEvent, Saves
<1>7. FitSnapshot(1)' /\ FitEvent(1)' /\ FitSnapshot(2)' /\ FitState(2)' /\ FitClone(2)'
  BY <1>2 DEF FitSnapshot, FitEvent, FitState, FitClone
<1> QED BY <1>1, <1>4, <1>5, <1>6, <1>7 DEF Fit

\* Commits are lists of writes.
LEMMA CommitType ==
  ASSUME NEW e \in Electrons, NEW s \in States
  PROVE  Commit(e, s) \in Seq(Writes)
<1>1. Write("state", e, s) \in Writes /\ Write("event", e, s) \in Writes
  BY DEF Write, Writes
<1> QED BY <1>1 DEF Commit

\* The requests that only commit, on an electron that is known.
LEMMA OperatePreserves ==
  ASSUME IInv, NEW e \in Known, NEW s \in States, Operate(Commit(e, s)),
         Sound(e, s), Extends(file[e], s)
  PROVE  IInv'
<1>1. TypeOK /\ e \in Electrons /\ Begin(Commit(e, s)) /\ cloneKey' = cloneKey
  BY DEF IInv, Operate, Known
<1>2. /\ UNCHANGED <<file, snapshots>> /\ Known' = Known /\ todo' = Commit(e, s)
      /\ TypeOK' /\ CheckpointsVerify' /\ (\A c \in Known : Paid(c))'
  BY <1>1, CommitType, BeginFacts DEF TypeOK
<1>3. Paid(e)'
  BY <1>2
<1>4. Fit'
  BY <1>1, <1>2, <1>3, CommitFits
<1> QED BY <1>2, <1>4 DEF IInv

\* Each request keeps the invariant: create, ...
LEMMA CreatePreserves ==
  ASSUME IInv, Create
  PROVE  IInv'
<1>1. PICK e \in Electrons :
         /\ IsFresh(e) /\ Begin(Commit(e, NewElectron))
         /\ cloneKey' = [cloneKey EXCEPT ![e] = None]
  BY DEF Create
<1>2. e \notin Known /\ TypeOK /\ Known \subseteq Electrons
  BY <1>1, KnownFacts DEF IsFresh, IInv
<1>3. NewElectron \in States /\ Sound(e, NewElectron)
  BY VECAssumption DEF NewElectron, States, Sound
<1>4. /\ cloneKey' \in [Electrons -> (Electrons \X States) \cup {None}]
      /\ \A c \in Known : cloneKey'[c] = cloneKey[c]
      /\ cloneKey'[e] = None
  BY <1>1, <1>2 DEF TypeOK
<1>5. /\ UNCHANGED <<file, snapshots>> /\ Known' = Known /\ todo' = Commit(e, NewElectron)
      /\ TypeOK' /\ CheckpointsVerify' /\ (\A c \in Known : Paid(c))'
  BY <1>1, <1>3, <1>4, CommitType, BeginFacts
<1>6. Paid(e)'
  BY <1>4 DEF Paid
<1>7. Fit'
  BY <1>2, <1>3, <1>5, <1>6, CommitFits
<1> QED BY <1>5, <1>7 DEF IInv

\* ... an edit, ...
LEMMA EditPreserves ==
  ASSUME IInv, NEW e \in Known, Edit(e)
  PROVE  IInv'
<1>1. PICK c \in Contents : Operate(Commit(e, [file[e] EXCEPT !.content = c]))
  BY DEF Edit
<1>2. file[e] \in States /\ Sound(e, file[e])
  BY KnownFacts DEF IInv, CheckpointsVerify
<1> DEFINE s == [file[e] EXCEPT !.content = c]
<1>3. s \in States /\ s.records = file[e].records /\ s.clones = file[e].clones
  BY <1>2 DEF States
<1>4. Sound(e, s) /\ Extends(file[e], s)
  BY <1>2, <1>3, StateFacts DEF Sound, Extends
<1> QED BY <1>1, <1>3, <1>4, OperatePreserves

\* ... a change of status, ...
LEMMA SetStatusPreserves ==
  ASSUME IInv, NEW e \in Known, SetStatus(e)
  PROVE  IInv'
<1>1. PICK st \in {"ACTIVE", "SUSPENDED", "RETIRED"} :
         Operate(Commit(e, [file[e] EXCEPT !.status = st]))
  BY DEF SetStatus
<1>2. file[e] \in States /\ Sound(e, file[e])
  BY KnownFacts DEF IInv, CheckpointsVerify
<1> DEFINE s == [file[e] EXCEPT !.status = st]
<1>3. s \in States /\ s.records = file[e].records /\ s.clones = file[e].clones
  BY <1>2 DEF States
<1>4. Sound(e, s) /\ Extends(file[e], s)
  BY <1>2, <1>3, StateFacts DEF Sound, Extends
<1> QED BY <1>1, <1>3, <1>4, OperatePreserves

\* ... a restore, ...
LEMMA RestorePreserves ==
  ASSUME IInv, NEW e \in Known, Restore(e)
  PROVE  IInv'
<1>1. PICK i \in DOMAIN snapshots :
         snapshots[i].of = e /\ Operate(Commit(e, Restored(file[e], snapshots[i].state)))
  BY DEF Restore
<1> DEFINE saved == snapshots[i].state
           s == Restored(file[e], saved)
<1>2. file[e] \in States /\ Sound(e, file[e]) /\ saved \in States /\ Sound(e, saved)
  <2>1. snapshots[i] \in Snapshots
    BY DEF IInv, TypeOK
  <2> QED BY <2>1, <1>1, KnownFacts DEF IInv, CheckpointsVerify, Snapshots
<1> HIDE DEF saved
<1>3. /\ s.records = saved.records \cup file[e].records
      /\ s.clones = IF file[e].clones > saved.clones THEN file[e].clones ELSE saved.clones
      /\ s \in States
  <2>1. saved.clones \in Nat /\ file[e].clones \in Nat
    BY <1>2, StateFacts
  <2> QED BY <2>1, <1>2 DEF Restored, States
<1>4. Sound(e, s)
  BY <1>2, <1>3 DEF Sound
<1>5. Extends(file[e], s)
  BY <1>2, <1>3, StateFacts DEF Extends
<1> QED BY <1>1, <1>3, <1>4, <1>5, OperatePreserves DEF saved

\* ... a verification.
LEMMA VerifyPreserves ==
  ASSUME IInv, NEW e \in Known, Verify(e)
  PROVE  IInv'
<1> DEFINE w == Write("note", e, file[e])
<1>1. Begin(<<w>>) /\ cloneKey' = cloneKey
  BY DEF Verify, Operate
<1>2. w \in Writes /\ w.write = "note"
  BY KnownFacts DEF Write, Writes, IInv
<1> HIDE DEF w
<1>3. /\ UNCHANGED <<file, snapshots>> /\ Known' = Known /\ todo' = <<w>>
      /\ TypeOK' /\ CheckpointsVerify' /\ (\A c \in Known : Paid(c))'
  <2>1. <<w>> \in Seq(Writes)
    BY <1>2
  <2> QED BY <2>1, <1>1, BeginFacts DEF IInv, TypeOK
<1>4. Fit'
  <2>1. DOMAIN todo' = {1} /\ todo'[1].write = "note"
    BY <1>2, <1>3
  <2>2. FitSnapshot(1)' /\ FitState(1)' /\ FitClone(1)' /\ FitEvent(1)'
    BY <2>1 DEF FitSnapshot, FitState, FitClone, FitEvent
  <2> QED BY <2>1, <2>2 DEF Fit
<1> QED BY <1>3, <1>4 DEF IInv

\* A checkpoint is written before the state that refers to it.
LEMMA CheckpointPreserves ==
  ASSUME IInv, NEW e \in Known, Checkpoint(e)
  PROVE  IInv'
<1> DEFINE old == file[e]
           id == SnapshotId(e, old)
           s == [old EXCEPT !.records = @ \cup {id}]
           writes == <<Write("snapshot", e, old)>> \o Commit(e, s)
<1>1. id <= MaxSnapshots /\ Begin(writes) /\ cloneKey' = cloneKey
  BY DEF Checkpoint, Operate
<1>2. TypeOK /\ e \in Electrons /\ old \in States /\ Sound(e, old)
  BY KnownFacts DEF IInv, CheckpointsVerify
<1>3. /\ id \in 1..(Len(snapshots) + 1)
      /\ id \in DOMAIN snapshots => snapshots[id] = [of |-> e, state |-> old]
      /\ Len(snapshots) \in Nat /\ DOMAIN snapshots = 1..Len(snapshots)
  <2>1. Len(snapshots) \in Nat /\ DOMAIN snapshots = 1..Len(snapshots)
    BY <1>2 DEF TypeOK
  <2> QED BY <2>1, <1>2, SnapshotIdFacts
<1>i. \A x, y : SnapshotId(x, y)' = SnapshotId(x, y)
  BY <1>1 DEF Begin, SnapshotId
<1> HIDE DEF old, id
<1>4. s \in States /\ s.records = old.records \cup {id} /\ s.clones = old.clones
  <2>1. id \in 1..MaxSnapshots
    BY <1>1, <1>3, VECAssumption
  <2> QED BY <2>1, <1>2 DEF States
<1> HIDE DEF s
<1>5. /\ writes = <<Write("snapshot", e, old), Write("state", e, s), Write("event", e, s)>>
      /\ writes \in Seq(Writes)
  <2>1. /\ Write("snapshot", e, old) \in Writes /\ Write("state", e, s) \in Writes
        /\ Write("event", e, s) \in Writes
    BY <1>2, <1>4 DEF Write, Writes
  <2> QED BY <2>1, OneBeforeTwo DEF Commit
<1> HIDE DEF writes
<1>6. /\ UNCHANGED <<file, snapshots>> /\ Known' = Known /\ todo' = writes
      /\ TypeOK' /\ CheckpointsVerify' /\ (\A c \in Known : Paid(c))'
  BY <1>1, <1>2, <1>5, BeginFacts DEF TypeOK
<1>7. /\ DOMAIN todo' = {1, 2, 3}
      /\ todo'[1].write = "snapshot" /\ todo'[1].of = e /\ todo'[1].state = old
      /\ todo'[2].write = "state" /\ todo'[2].of = e /\ todo'[2].state = s
      /\ todo'[3].write = "event" /\ todo'[3].of = e /\ todo'[3].state = s
  BY <1>5, <1>6 DEF Write
<1>8. FitSnapshot(1)'
  BY <1>1, <1>2, <1>6, <1>7, <1>i DEF FitSnapshot, Sound, id
<1>9. FitState(2)'
  <2>1. \A r \in s.records : Grounded(e, r)'
    <3> SUFFICES ASSUME NEW r \in s.records PROVE Grounded(e, r)'
      OBVIOUS
    <3>1. CASE r \in old.records
      BY <3>1, <1>2, <1>6 DEF Grounded, Sound
    <3>2. CASE r = id /\ id \in DOMAIN snapshots
      BY <3>2, <1>3, <1>6 DEF Grounded
    <3>3. CASE r = id /\ id \notin DOMAIN snapshots
      <4>1. id = Len(snapshots) + 1
        BY <3>3, <1>3
      <4> QED BY <3>3, <4>1, <1>i, <1>6, <1>7 DEF Grounded, id
    <3> QED BY <3>1, <3>2, <3>3, <1>4
  <2>2. Extends(old, s) /\ file'[e] = old
    BY <1>2, <1>4, <1>6, StateFacts DEF Extends, old
  <2> QED BY <2>1, <2>2, <1>7 DEF FitState, Saves
<1>10. FitClone(2)'
  BY <1>6, <1>7 DEF FitClone, Paid
<1>11. FitEvent(3)'
  BY <1>7 DEF FitEvent, Saves
<1>12. /\ FitState(1)' /\ FitClone(1)' /\ FitEvent(1)'
       /\ FitSnapshot(2)' /\ FitEvent(2)'
       /\ FitSnapshot(3)' /\ FitState(3)' /\ FitClone(3)'
  BY <1>7 DEF FitState, FitClone, FitEvent, FitSnapshot
<1>13. Fit'
  BY <1>7, <1>8, <1>9, <1>10, <1>11, <1>12 DEF Fit
<1> QED BY <1>6, <1>13 DEF IInv

\* A clone is written after the parent that has counted it.
LEMMA ClonePreserves ==
  ASSUME IInv, NEW e \in Known, Clone(e)
  PROVE  IInv'
<1> DEFINE s == Counted(e)
           copy == [s EXCEPT !.clones = 0, !.records = {}, !.status = "ACTIVE"]
<1>1. PICK c \in Electrons :
         /\ IsFresh(c) /\ Begin(CloneWrites(e, c, s, copy))
         /\ cloneKey' = [cloneKey EXCEPT ![c] = <<e, s>>]
  BY DEF Clone
<1>2. /\ TypeOK /\ e \in Electrons /\ file[e] \in States /\ Sound(e, file[e])
      /\ c \notin Known /\ c # e /\ Known \subseteq Electrons
  BY <1>1, KnownFacts DEF IInv, CheckpointsVerify, IsFresh
<1>3. /\ s \in States /\ s.records = file[e].records /\ s.clones = file[e].clones + 1
      /\ Extends(file[e], s)
  <2>1. file[e].clones \in Nat
    BY <1>2, StateFacts
  <2>2. s \in States /\ s.records = file[e].records /\ s.clones = file[e].clones + 1
    BY <2>1, <1>2 DEF Counted, States
  <2> QED BY <2>1, <2>2 DEF Extends
<1> HIDE DEF s
<1>4. copy \in States /\ copy.records = {}
  BY <1>3 DEF States
<1> HIDE DEF copy
<1>5. CloneWrites(e, c, s, copy) \in Seq(Writes)
  <2>1. /\ Write("state", e, s) \in Writes /\ Write("state", c, copy) \in Writes
        /\ Write("event", e, s) \in Writes /\ Write("event", c, copy) \in Writes
    BY <1>2, <1>3, <1>4 DEF Write, Writes
  <2> QED BY <2>1 DEF CloneWrites
<1>6. /\ cloneKey' \in [Electrons -> (Electrons \X States) \cup {None}]
      /\ \A x \in Known : cloneKey'[x] = cloneKey[x]
      /\ cloneKey'[c] = <<e, s>>
  BY <1>1, <1>2, <1>3 DEF TypeOK
<1>7. /\ UNCHANGED <<file, snapshots>> /\ Known' = Known /\ todo' = CloneWrites(e, c, s, copy)
      /\ TypeOK' /\ CheckpointsVerify' /\ (\A x \in Known : Paid(x))'
  BY <1>1, <1>5, <1>6, BeginFacts
<1>8. /\ DOMAIN todo' = {1, 2, 3, 4}
      /\ todo'[1].write = "state" /\ todo'[1].of = e /\ todo'[1].state = s
      /\ todo'[2].write = "state" /\ todo'[2].of = c /\ todo'[2].state = copy
      /\ todo'[3].write = "event" /\ todo'[3].of = e /\ todo'[3].state = s
      /\ todo'[4].write = "event" /\ todo'[4].of = c /\ todo'[4].state = copy
  BY <1>7 DEF CloneWrites, Write
<1>9. FitState(1)'
  BY <1>2, <1>3, <1>7, <1>8 DEF FitState, Grounded, Sound, Saves
<1>10. FitClone(1)'
  BY <1>7, <1>8 DEF FitClone, Paid
<1>11. FitState(2)'
  BY <1>2, <1>4, <1>7, <1>8 DEF FitState, Saves
<1>12. FitClone(2)'
  <2>1. s.clones \in Nat
    BY <1>3, StateFacts
  <2>2. 1 < 2 /\ Saves(1, cloneKey[c][1])' /\ cloneKey'[c][2].clones <= todo'[1].state.clones
    BY <2>1, <1>6, <1>8 DEF Saves
  <2> QED BY <2>2, <1>8 DEF FitClone, Saves
<1>13. FitEvent(3)' /\ FitEvent(4)'
  BY <1>2, <1>8 DEF FitEvent, Saves
<1>14. /\ FitSnapshot(1)' /\ FitEvent(1)' /\ FitSnapshot(2)' /\ FitEvent(2)'
       /\ FitSnapshot(3)' /\ FitState(3)' /\ FitClone(3)'
       /\ FitSnapshot(4)' /\ FitState(4)' /\ FitClone(4)'
  BY <1>8 DEF FitState, FitClone, FitEvent, FitSnapshot
<1>15. Fit'
  BY <1>8, <1>9, <1>10, <1>11, <1>12, <1>13, <1>14 DEF Fit
<1> QED BY <1>7, <1>15 DEF IInv
-----------------------------------------------------------------------------
\* Every other step leaves the files alone and goes on with the list, cuts it
\* off, or appends.
LEMMA LedgerTypes ==
  ASSUME IInv, [Next]_vars
  PROVE  \/ WriteSnapshot \/ WriteState \/ Request
         \/ /\ UNCHANGED <<file, snapshots, cloneKey>> /\ TypeOK'
            /\ todo' = todo \/ todo' = <<>> \/ (Appending /\ todo' = Tail(todo))
<1>0. TypeOK
  BY DEF IInv
<1>1. ASSUME todo # <<>>
      PROVE  /\ Head(todo) \in Writes /\ Tail(todo) \in Seq(Writes)
             /\ Log(Head(todo)) => logged' \in [Electrons -> States \cup {None}]
  <2>1. Head(todo) \in Writes /\ Tail(todo) \in Seq(Writes)
    BY <1>0, <1>1 DEF TypeOK
  <2> QED BY <2>1, <1>0 DEF Log, Writes, TypeOK
<1>2. ASSUME Appending PROVE todo # <<>>
  BY <1>2 DEF Appending, Doing
<1>3. CASE AppendEvent
  BY <1>0, <1>1, <1>2, <1>3 DEF AppendEvent, TypeOK
<1>4. CASE Reject
  BY <1>0, <1>4 DEF Reject, TypeOK
<1>5. ASSUME Fault PROVE faults' \in 0..MaxFaults
  BY <1>0, <1>5, VECAssumption DEF Fault, TypeOK
<1>6. CASE Error
  BY <1>0, <1>5, <1>6 DEF Error, Fault, TypeOK
<1>b. TRUE \in BOOLEAN /\ FALSE \in BOOLEAN
  OBVIOUS
<1>7. CASE Crash
  <2>1. /\ faults' \in 0..MaxFaults /\ todo' = <<>> /\ cached' \in BOOLEAN
        /\ UNCHANGED <<file, snapshots, cloneKey, requests, logged, ledger>>
    BY <1>5, <1>7, <1>b DEF Crash, Fault
  <2>2. todo' \in Seq(Writes)
    BY <2>1
  <2> QED BY <1>0, <2>1, <2>2 DEF TypeOK
<1>8. CASE TornAppend
  <2>1. /\ faults' \in 0..MaxFaults /\ todo' = <<>> /\ cached' \in BOOLEAN
        /\ UNCHANGED <<file, snapshots, cloneKey, requests>>
    BY <1>5, <1>8, <1>b DEF TornAppend, Fault
  <2>2. todo' \in Seq(Writes)
    BY <2>1
  <2>3. logged' \in [Electrons -> States \cup {None}]
    BY <1>0, <1>1, <1>2, <1>8 DEF TornAppend, TypeOK
  <2>4. ledger' \in {"whole", "unended", "broken"}
    BY <1>8 DEF TornAppend
  <2> QED BY <1>0, <2>1, <2>2, <2>3, <2>4 DEF TypeOK
<1>9. CASE Restart
  BY <1>0, <1>9 DEF Restart, TypeOK
<1>10. CASE UNCHANGED vars
  BY <1>0, <1>10 DEF vars, TypeOK
<1> QED BY <1>3, <1>4, <1>6, <1>7, <1>8, <1>9, <1>10 DEF Next

\* Every step preserves the invariant.
LEMMA NextIInv == IInv /\ [Next]_vars => IInv'
<1> SUFFICES ASSUME IInv, [Next]_vars PROVE IInv'
  OBVIOUS
<1>1. CASE Request
  BY <1>1, CreatePreserves, EditPreserves, CheckpointPreserves, RestorePreserves,
     SetStatusPreserves, VerifyPreserves, ClonePreserves DEF Request
<1>2. CASE WriteSnapshot
  BY <1>2, WriteSnapshotPreserves
<1>3. CASE WriteState
  BY <1>3, WriteStatePreserves
<1>4. CASE UNCHANGED <<file, snapshots, cloneKey>> /\ TypeOK' /\ todo' = <<>>
  BY <1>4, StopPreserves
<1>5. CASE UNCHANGED <<file, snapshots, cloneKey>> /\ TypeOK' /\ Appending /\ todo' = Tail(todo)
  BY <1>5, AppendPreserves
<1>6. CASE UNCHANGED <<file, snapshots, cloneKey>> /\ TypeOK' /\ todo' = todo
  <2>1. Known' = Known /\ CheckpointsVerify' /\ (\A c \in Known : Paid(c))'
    BY <1>6 DEF IInv, Known, CheckpointsVerify, Sound, Paid
  <2>2. \A e, r : Grounded(e, r) => Grounded(e, r)'
    BY <1>6 DEF Grounded, SnapshotId
  <2>3. \A i \in DOMAIN todo : (FitSnapshot(i) => FitSnapshot(i)') /\ (FitClone(i) => FitClone(i)')
                               /\ (FitEvent(i) => FitEvent(i)')
    BY <1>6 DEF FitSnapshot, FitClone, FitEvent, Saves, Paid, Known, Sound, SnapshotId
  <2>4. \A i \in DOMAIN todo : FitState(i) => FitState(i)'
    BY <1>6, <2>1, <2>2 DEF FitState, Saves
  <2> QED BY <1>6, <2>1, <2>3, <2>4 DEF IInv, Fit
<1> QED BY <1>1, <1>2, <1>3, <1>4, <1>5, <1>6, LedgerTypes

\* The invariant holds always.
LEMMA Invariance == Spec => []IInv
BY InitIInv, NextIInv, PTL DEF Spec
-----------------------------------------------------------------------------
(* The variables keep their types, whatever is written, raised or cut off.  *)
THEOREM Types == Spec => []TypeOK
<1>1. IInv => TypeOK
  BY DEF IInv
<1> QED BY <1>1, Invariance, PTL

(* verify_checkpoints finds nothing at any moment: the checkpoints a stored *)
(* state or a restorable one refers to are there, and of that electron.     *)
THEOREM CheckpointsAreSound == Spec => []CheckpointsVerify
<1>1. IInv => CheckpointsVerify
  BY DEF IInv
<1> QED BY <1>1, Invariance, PTL

(* clone never finds its deterministic id taken: a parent has counted every *)
(* clone that is stored, also after faults and restores.                    *)
THEOREM CloneIdsAreFree == Spec => []NoCloneCollision
<1>1. IInv => NoCloneCollision
  <2> SUFFICES ASSUME IInv, NEW e \in Known, Collides(e) PROVE FALSE
    BY DEF NoCloneCollision
  <2>1. PICK c \in Known : cloneKey[c] = <<e, Counted(e)>>
    BY DEF Collides
  <2>2. file[e] \in States /\ e \in Electrons /\ c \in Electrons
    BY KnownFacts DEF IInv
  <2>3. Counted(e) \in States /\ Counted(e).clones = file[e].clones + 1 /\ file[e].clones \in Nat
    BY <2>2, StateFacts DEF Counted, States
  <2>4. cloneKey[c] # None
    BY <2>1, <2>2, <2>3, VECAssumption
  <2>5. cloneKey[c][2].clones <= file[cloneKey[c][1]].clones
    BY <2>4 DEF IInv, Paid
  <2> QED BY <2>1, <2>3, <2>5
<1> QED BY <1>1, Invariance, PTL

(* No write of a state takes back a record of a checkpoint or lowers the    *)
(* counter of clones: operate and clone extend the state they loaded, and   *)
(* restore merges both.                                                     *)
THEOREM HistoryGrows == Spec => HistoryIsKept
<1>1. IInv /\ [Next]_vars =>
        [\A e \in Known : /\ file[e].records \subseteq file'[e].records
                          /\ file[e].clones <= file'[e].clones]_vars
  <2> SUFFICES ASSUME IInv, [Next]_vars, NEW e \in Known
               PROVE  Extends(file[e], file'[e])
    BY DEF Extends
  <2>1. CASE WriteState
    BY <2>1, WriteStatePreserves
  <2>2. CASE UNCHANGED file
    BY <2>2, KnownFacts, StateFacts DEF IInv
  <2>3. CASE WriteSnapshot
    BY <2>2, <2>3 DEF WriteSnapshot
  <2>4. CASE Request
    BY <2>2, <2>4 DEF Request, Create, Edit, Checkpoint, Restore, SetStatus, Verify,
       Clone, Operate, Begin
  <2> QED BY <2>1, <2>2, <2>3, <2>4, LedgerTypes
<1> QED BY <1>1, Invariance, PTL DEF Spec, HistoryIsKept

(* An event carries the hash of a state that is stored when it is appended: *)
(* operate and clone save before they append.                               *)
THEOREM SavedBeforeLogged == Spec => LoggedWasStored
<1>1. IInv /\ [Next]_vars =>
        [\A e \in Electrons : logged'[e] # logged[e] => logged'[e] = file[e]]_vars
  <2> SUFFICES ASSUME IInv, [Next]_vars, NEW e \in Electrons, logged'[e] # logged[e]
               PROVE  logged'[e] = file[e]
    OBVIOUS
  <2>1. Appending /\ Log(Head(todo))
    BY DEF Next, Request, Create, Edit, Checkpoint, Restore, SetStatus, Verify, Clone,
       Operate, Begin, WriteSnapshot, WriteState, AppendEvent, Reject, Fault, Error,
       Crash, TornAppend, Restart, vars
  <2>2. todo \in Seq(Writes) /\ todo # <<>> /\ logged \in [Electrons -> States \cup {None}]
    BY <2>1 DEF IInv, TypeOK, Appending, Doing
  <2>3. 1 \in DOMAIN todo /\ Head(todo) = todo[1] /\ \A j \in DOMAIN todo : j \in Nat \ {0}
    BY <2>2
  <2>4. todo[1].write = "event" /\ e = todo[1].of /\ logged'[e] = todo[1].state
    BY <2>1, <2>2, <2>3 DEF Log
  <2>5. \A j \in DOMAIN todo : ~ Saves(j, todo[1].of)
    BY <2>3, <2>4 DEF IInv, Fit, FitEvent
  <2> QED BY <2>3, <2>4, <2>5 DEF IInv, Fit, FitEvent
<1> QED BY <1>1, Invariance, PTL DEF Spec, LoggedWasStored
-----------------------------------------------------------------------------
(* How far the ledger lags behind.  The list q owes e an event; it owes one *)
(* to whom it still saves a state, and to two electrons at most.            *)

Owes(q, e) == \E i \in DOMAIN q : q[i].write = "event" /\ q[i].of = e

Owed(q) == {e \in Electrons : Owes(q, e)}

Repaid(q) ==
    /\ \A i \in DOMAIN q : q[i].write = "state" =>
          \E j \in DOMAIN q : j > i /\ q[j].write = "event" /\ q[j].of = q[i].of
    /\ Cardinality(Owed(q)) <= 2

Lagging == {e \in Behind : ~ Owes(todo, e)}

LagInv == Repaid(todo) /\ (Appendable => Cardinality(Lagging) <= 2 * faults)

\* Behind and Lagging are small sets.
LEMMA BehindIsFinite ==
    /\ IsFiniteSet(Behind) /\ IsFiniteSet(Lagging)
    /\ Behind \subseteq Electrons /\ Lagging \subseteq Behind
    /\ Cardinality(Behind) \in Nat /\ Cardinality(Lagging) \in Nat
<1>1. IsFiniteSet(Electrons)
  BY FS_Interval, VECAssumption DEF Electrons
<1>2. Behind \subseteq Electrons /\ Lagging \subseteq Behind
  BY DEF Behind, Lagging
<1> QED BY <1>1, <1>2, FS_Subset, FS_CardinalityType

\* No more electrons lag than did, when no more are behind and owed nothing.
LEMMA LagsNoMore ==
    ASSUME Lagging' \subseteq Lagging
    PROVE  Cardinality(Lagging') <= Cardinality(Lagging)
BY BehindIsFinite, FS_Subset

\* Owed is a small set too.
LEMMA OwedIsFinite ==
    /\ \A q : IsFiniteSet(Owed(q)) /\ Owed(q) \subseteq Electrons
    /\ \A q, a, b : Owed(q) \subseteq {a, b} => Cardinality(Owed(q)) <= 2
<1>1. IsFiniteSet(Electrons)
  BY FS_Interval, VECAssumption DEF Electrons
<1>2. \A q : IsFiniteSet(Owed(q)) /\ Owed(q) \subseteq Electrons
  BY <1>1, FS_Subset DEF Owed
<1>3. ASSUME NEW q, NEW a, NEW b, Owed(q) \subseteq {a, b}
      PROVE  Cardinality(Owed(q)) <= 2
  <2>1. /\ IsFiniteSet({a, b}) /\ Cardinality({a, b}) \in Nat
        /\ Cardinality({a, b}) <= 2
    <3>1. IsFiniteSet({a}) /\ Cardinality({a}) = 1
      BY FS_Singleton
    <3>2. {a, b} = {a} \cup {b}
      OBVIOUS
    <3>3. /\ IsFiniteSet({a, b})
          /\ Cardinality({a, b}) = Cardinality({a}) \/ Cardinality({a, b}) = Cardinality({a}) + 1
      BY <3>1, <3>2, FS_AddElement
    <3> QED BY <3>1, <3>3
  <2>2. Cardinality(Owed(q)) <= Cardinality({a, b}) /\ Cardinality(Owed(q)) \in Nat
    BY <1>2, <1>3, <2>1, FS_Subset, FS_CardinalityType
  <2> QED BY <2>1, <2>2
<1> QED BY <1>2, <1>3

\* What the rest of a list owes.
LEMMA TailRepaid ==
    ASSUME todo \in Seq(Writes), todo # <<>>, Repaid(todo),
           NEW u, u = Tail(todo), NEW w, w = Head(todo)
    PROVE  /\ Repaid(u)
           /\ \A e : Owes(todo, e) =>
                 Owes(u, e) \/ (w.write = "event" /\ w.of = e)
           /\ w.write = "state" => Owes(u, w.of)
<1>1. /\ w = todo[1] /\ 1 \in DOMAIN todo /\ DOMAIN todo \subseteq Nat \ {0}
      /\ \A i \in DOMAIN u : i \in Nat \ {0} /\ i + 1 \in DOMAIN todo /\ u[i] = todo[i + 1]
      /\ \A i \in DOMAIN todo : i > 1 => i - 1 \in DOMAIN u /\ u[i - 1] = todo[i]
  OBVIOUS
<1>2. \A e : Owes(u, e) => Owes(todo, e)
  BY <1>1 DEF Owes
<1>3. ASSUME NEW i \in DOMAIN todo, todo[i].write = "state"
      PROVE  \E j \in DOMAIN u : j + 1 > i /\ u[j].write = "event" /\ u[j].of = todo[i].of
  <2>1. PICK j \in DOMAIN todo : j > i /\ todo[j].write = "event" /\ todo[j].of = todo[i].of
    BY <1>3 DEF Repaid
  <2>2. j > 1
    BY <1>1, <2>1
  <2>3. j - 1 \in DOMAIN u /\ u[j - 1] = todo[j] /\ (j - 1) + 1 > i
    BY <1>1, <2>1, <2>2
  <2> QED BY <2>1, <2>3
<1>4. ASSUME NEW i \in DOMAIN u, u[i].write = "state"
      PROVE  \E j \in DOMAIN u : j > i /\ u[j].write = "event" /\ u[j].of = u[i].of
  <2>1. i + 1 \in DOMAIN todo /\ todo[i + 1] = u[i]
    BY <1>1
  <2>2. PICK j \in DOMAIN u : j + 1 > i + 1 /\ u[j].write = "event" /\ u[j].of = u[i].of
    BY <1>3, <1>4, <2>1
  <2> QED BY <1>1, <2>2
<1>5. Repaid(u)
  <2>1. Owed(u) \subseteq Owed(todo)
    BY <1>2 DEF Owed
  <2>2. /\ Cardinality(Owed(u)) <= Cardinality(Owed(todo))
        /\ Cardinality(Owed(u)) \in Nat /\ Cardinality(Owed(todo)) \in Nat
    BY <2>1, OwedIsFinite, FS_Subset, FS_CardinalityType
  <2>3. Cardinality(Owed(todo)) <= 2
    BY DEF Repaid
  <2>4. Cardinality(Owed(u)) <= 2
    BY <2>2, <2>3
  <2> QED BY <1>4, <2>4 DEF Repaid
<1>6. ASSUME NEW e, Owes(todo, e), ~ (w.write = "event" /\ w.of = e) PROVE Owes(u, e)
  <2>1. PICK i \in DOMAIN todo : todo[i].write = "event" /\ todo[i].of = e
    BY <1>6 DEF Owes
  <2>2. i > 1
    BY <1>1, <1>6, <2>1
  <2> QED BY <1>1, <2>1, <2>2 DEF Owes
<1>7. w.write = "state" => Owes(u, w.of)
  BY <1>1, <1>3 DEF Owes
<1> QED BY <1>5, <1>6, <1>7

\* A commit owes one event, ...
LEMMA CommitRepaid ==
    ASSUME NEW e \in Electrons, NEW s PROVE Repaid(Commit(e, s))
<1> DEFINE q == Commit(e, s)
<1>1. /\ DOMAIN q = {1, 2}
      /\ q[1].write = "state" /\ q[1].of = e
      /\ q[2].write = "event" /\ q[2].of = e
  BY DEF Commit, Write
<1> HIDE DEF q
<1>2. Owed(q) \subseteq {e, e}
  BY <1>1 DEF Owed, Owes
<1>3. Cardinality(Owed(q)) <= 2
  BY <1>2, OwedIsFinite
<1> QED BY <1>1, <1>3 DEF Repaid, q

\* ... a clone two.
LEMMA CloneRepaid ==
    ASSUME NEW e \in Electrons, NEW c \in Electrons, NEW s, NEW copy
    PROVE  Repaid(CloneWrites(e, c, s, copy))
<1> DEFINE q == CloneWrites(e, c, s, copy)
<1>1. /\ DOMAIN q = {1, 2, 3, 4}
      /\ q[1].write = "state" /\ q[1].of = e /\ q[2].write = "state" /\ q[2].of = c
      /\ q[3].write = "event" /\ q[3].of = e /\ q[4].write = "event" /\ q[4].of = c
  BY DEF CloneWrites, Write
<1> HIDE DEF q
<1>2. Owed(q) \subseteq {e, c}
  BY <1>1 DEF Owed, Owes
<1>3. Cardinality(Owed(q)) <= 2
  BY <1>2, OwedIsFinite
<1> QED BY <1>1, <1>3 DEF Repaid, q

\* ... and a note none.
LEMMA NoteRepaid ==
    /\ \A e, s : Repaid(<<Write("note", e, s)>>)
    /\ Repaid(<<>>) /\ \A e : ~ Owes(<<>>, e)
<1>1. ASSUME NEW e, NEW s PROVE Repaid(<<Write("note", e, s)>>)
  <2> DEFINE q == <<Write("note", e, s)>>
  <2>1. DOMAIN q = {1} /\ q[1].write = "note"
    BY DEF Write
  <2> HIDE DEF q
  <2>2. Owed(q) \subseteq {e, e}
    BY <2>1 DEF Owed, Owes
  <2>3. Cardinality(Owed(q)) <= 2
    BY <2>2, OwedIsFinite
  <2> QED BY <2>1, <2>3 DEF Repaid, q
<1>2. DOMAIN <<>> = {}
  OBVIOUS
<1>3. Owed(<<>>) \subseteq {1, 1}
  BY <1>2 DEF Owed, Owes
<1>4. Cardinality(Owed(<<>>)) <= 2
  BY <1>3, OwedIsFinite
<1> QED BY <1>1, <1>2, <1>4 DEF Repaid, Owes

\* A checkpoint owes what the commit in it does.
LEMMA CheckpointRepaid ==
    ASSUME NEW e \in Electrons, NEW old, NEW s
    PROVE  Repaid(<<Write("snapshot", e, old)>> \o Commit(e, s))
<1> DEFINE q == <<Write("snapshot", e, old), Write("state", e, s), Write("event", e, s)>>
<1>1. <<Write("snapshot", e, old)>> \o Commit(e, s) = q
  BY OneBeforeTwo DEF Commit
<1>2. /\ DOMAIN q = {1, 2, 3} /\ q[1].write = "snapshot"
      /\ q[2].write = "state" /\ q[2].of = e
      /\ q[3].write = "event" /\ q[3].of = e
  BY DEF Write
<1> HIDE DEF q
<1>3. Owed(q) \subseteq {e, e}
  BY <1>2 DEF Owed, Owes
<1>4. Cardinality(Owed(q)) <= 2
  BY <1>3, OwedIsFinite
<1>5. Repaid(q)
  BY <1>2, <1>4 DEF Repaid
<1> QED BY <1>1, <1>5

\* A request that begins leaves no electron lagging that did not.
LEMMA BeginKeepsLag ==
    ASSUME IInv, LagInv, NEW writes, Begin(writes), Repaid(writes) PROVE LagInv'
<1>1. /\ todo = <<>> /\ todo' = writes /\ Behind' = Behind
      /\ Appendable' = Appendable /\ faults' = faults /\ faults \in Nat
  BY VECAssumption DEF Begin, Behind, Appendable, IInv, TypeOK
<1>2. Lagging' \subseteq Lagging
  BY <1>1, NoteRepaid DEF Lagging
<1>3. Cardinality(Lagging') <= Cardinality(Lagging)
  BY <1>2, LagsNoMore
<1>4. Cardinality(Lagging') \in Nat /\ Cardinality(Lagging) \in Nat
  BY <1>2, BehindIsFinite, FS_Subset, FS_CardinalityType
<1> QED BY <1>1, <1>3, <1>4 DEF LagInv

\* All requests repay what they owe.
LEMMA RequestKeepsLag == ASSUME IInv, LagInv, Request PROVE LagInv'
<1>1. Known \subseteq Electrons
  BY DEF Known
<1>2. CASE Create
  BY <1>2, CommitRepaid, BeginKeepsLag DEF Create
<1>3. ASSUME NEW e \in Known, Edit(e) PROVE LagInv'
  BY <1>1, <1>3, CommitRepaid, BeginKeepsLag DEF Edit, Operate
<1>4. ASSUME NEW e \in Known, Checkpoint(e) PROVE LagInv'
  BY <1>1, <1>4, CheckpointRepaid, BeginKeepsLag DEF Checkpoint, Operate
<1>5. ASSUME NEW e \in Known, Restore(e) PROVE LagInv'
  BY <1>1, <1>5, CommitRepaid, BeginKeepsLag DEF Restore, Operate
<1>6. ASSUME NEW e \in Known, SetStatus(e) PROVE LagInv'
  BY <1>1, <1>6, CommitRepaid, BeginKeepsLag DEF SetStatus, Operate
<1>7. ASSUME NEW e \in Known, Verify(e) PROVE LagInv'
  BY <1>7, NoteRepaid, BeginKeepsLag DEF Verify, Operate
<1>8. ASSUME NEW e \in Known, Clone(e) PROVE LagInv'
  BY <1>1, <1>8, CloneRepaid, BeginKeepsLag DEF Clone
<1> QED BY <1>2, <1>3, <1>4, <1>5, <1>6, <1>7, <1>8 DEF Request

\* A write that is done leaves no electron lagging that did not.
LEMMA DoneKeepsLag ==
    ASSUME IInv, LagInv, Lagging' \subseteq Lagging, todo # <<>>, todo' = Tail(todo),
           Appendable' => Appendable, faults' = faults
    PROVE  LagInv'
<1>1. Repaid(todo')
  BY TailRepaid DEF LagInv, IInv, TypeOK
<1>2. Cardinality(Lagging') <= Cardinality(Lagging)
  BY LagsNoMore
<1>3. /\ Cardinality(Lagging') \in Nat /\ Cardinality(Lagging) \in Nat
      /\ faults \in Nat
  BY BehindIsFinite, FS_Subset, FS_CardinalityType, VECAssumption DEF IInv, TypeOK
<1> QED BY <1>1, <1>2, <1>3 DEF LagInv

\* A fault leaves those lagging too whom the request owed an event.
LEMMA FaultKeepsLag ==
    ASSUME IInv, LagInv, Fault, Appendable' => Appendable,
           \A e \in Electrons : ~ Owes(todo, e) => logged'[e] = logged[e]
    PROVE  LagInv'
<1>1. todo' = <<>> /\ faults' = faults + 1 /\ file' = file /\ faults \in Nat
  BY VECAssumption DEF Fault, IInv, TypeOK
<1>2. Lagging' \subseteq Lagging \cup Owed(todo)
  BY <1>1 DEF Lagging, Behind, Owed
<1> DEFINE n == Cardinality(Lagging)
           m == Cardinality(Owed(todo))
           k == Cardinality(Lagging \cup Owed(todo))
<1>3. n \in Nat /\ m \in Nat /\ k \in Nat /\ k <= n + m
  <2>1. IsFiniteSet(Lagging) /\ IsFiniteSet(Owed(todo))
    BY BehindIsFinite, OwedIsFinite
  <2>2. /\ IsFiniteSet(Lagging \cup Owed(todo))
        /\ k = n + m - Cardinality(Lagging \cap Owed(todo))
    BY <2>1, FS_Union
  <2>3. IsFiniteSet(Lagging \cap Owed(todo))
    BY <2>1, FS_Subset
  <2>4. n \in Nat /\ m \in Nat /\ k \in Nat /\ Cardinality(Lagging \cap Owed(todo)) \in Nat
    BY <2>1, <2>2, <2>3, FS_CardinalityType
  <2> QED BY <2>2, <2>4
<1>4. Cardinality(Lagging') <= k /\ Cardinality(Lagging') \in Nat
  <2>1. IsFiniteSet(Lagging \cup Owed(todo))
    BY BehindIsFinite, OwedIsFinite, FS_Union
  <2> QED BY <1>2, <2>1, FS_Subset, FS_CardinalityType
<1>5. m <= 2
  BY DEF LagInv, Repaid
<1>6. Appendable' => n <= 2 * faults
  BY DEF LagInv
<1> HIDE DEF n, m, k
<1>7. Appendable' => Cardinality(Lagging') <= 2 * faults'
  BY <1>1, <1>3, <1>4, <1>5, <1>6
<1> QED BY <1>1, <1>7, NoteRepaid DEF LagInv

\* An append of an event catches up with the state that is stored.
LEMMA AppendCatchesUp ==
    ASSUME IInv, LagInv, AppendEvent
    PROVE  Lagging' \subseteq Lagging
<1> DEFINE w == Head(todo)
<1>1. todo \in Seq(Writes) /\ todo # <<>> /\ todo' = Tail(todo) /\ file' = file /\ Log(w)
  BY DEF AppendEvent, Appending, Doing, IInv, TypeOK
<1>2. w = todo[1] /\ 1 \in DOMAIN todo /\ \A j \in DOMAIN todo : ~ j < 1
  BY <1>1
<1>3. \A e : Owes(todo, e) => Owes(todo', e) \/ (w.write = "event" /\ w.of = e)
  BY <1>1, TailRepaid DEF LagInv
<1> HIDE DEF w
<1> SUFFICES ASSUME NEW e \in Electrons, logged'[e] # file[e], ~ Owes(todo', e)
             PROVE  logged[e] # file[e] /\ ~ Owes(todo, e)
  BY <1>1 DEF Lagging, Behind
<1>4. CASE w.write = "event" /\ w.of = e
  <2>1. file[e] = w.state
    BY <1>2, <1>4 DEF IInv, Fit, FitEvent, Saves
  <2>2. logged'[e] = w.state
    BY <1>1, <1>4 DEF Log, IInv, TypeOK
  <2> QED BY <2>1, <2>2
<1>5. CASE ~ (w.write = "event" /\ w.of = e)
  <2>1. logged'[e] = logged[e]
    BY <1>1, <1>5 DEF Log, IInv, TypeOK
  <2> QED BY <1>3, <1>5, <2>1
<1> QED BY <1>4, <1>5

\* Every step keeps LagInv.
LEMMA NextLagInv == ASSUME IInv, LagInv, [Next]_vars PROVE LagInv'
<1>0. todo \in Seq(Writes) /\ logged \in [Electrons -> States \cup {None}]
  BY DEF IInv, TypeOK
<1>1. CASE Request
  BY <1>1, RequestKeepsLag
<1>2. CASE WriteSnapshot
  <2>1. /\ todo # <<>> /\ todo' = Tail(todo) /\ Head(todo).write = "snapshot"
        /\ Behind' = Behind /\ faults' = faults /\ Appendable' = Appendable
    BY <1>2 DEF WriteSnapshot, Doing, Behind, Appendable
  <2>2. Lagging' \subseteq Lagging
    BY <1>0, <2>1, TailRepaid DEF Lagging, LagInv
  <2> QED BY <2>1, <2>2, DoneKeepsLag
<1>3. CASE WriteState
  <2> DEFINE w == Head(todo)
  <2>1. /\ todo # <<>> /\ todo' = Tail(todo) /\ w.write = "state" /\ w \in Writes
        /\ file' = [file EXCEPT ![w.of] = w.state]
        /\ logged' = logged /\ faults' = faults /\ Appendable' = Appendable
    BY <1>0, <1>3 DEF WriteState, Doing, Appendable
  <2>2. /\ Owes(todo', w.of)
        /\ \A e : Owes(todo, e) => Owes(todo', e)
    BY <1>0, <2>1, TailRepaid DEF LagInv
  <2> HIDE DEF w
  <2>3. Lagging' \subseteq Lagging
    BY <2>1, <2>2 DEF Lagging, Behind, IInv, TypeOK
  <2> QED BY <2>1, <2>3, DoneKeepsLag
<1>4. CASE AppendEvent
  <2>1. /\ todo # <<>> /\ todo' = Tail(todo) /\ faults' = faults /\ Appendable
    BY <1>4 DEF AppendEvent, Appending, Doing
  <2> QED BY <1>4, <2>1, AppendCatchesUp, DoneKeepsLag
<1>5. CASE Reject
  <2>1. ~ Appendable' /\ todo' = <<>>
    BY <1>5 DEF Reject, Appendable
  <2> QED BY <2>1, NoteRepaid DEF LagInv
<1>6. CASE Error \/ Crash
  <2>1. Fault /\ logged' = logged /\ (Appendable' => Appendable)
    BY <1>6 DEF Error, Crash, Appendable
  <2> QED BY <2>1, FaultKeepsLag
<1>7. CASE TornAppend
  <2>1. Fault /\ Appendable /\ todo # <<>>
    BY <1>7 DEF TornAppend, Fault
  <2>2. 1 \in DOMAIN todo /\ Head(todo) = todo[1]
    BY <1>0, <2>1
  <2>3. ASSUME NEW e \in Electrons, ~ Owes(todo, e) PROVE logged'[e] = logged[e]
    <3>1. ~ (Head(todo).write = "event" /\ Head(todo).of = e)
      BY <2>2, <2>3 DEF Owes
    <3> QED BY <1>0, <1>7, <3>1 DEF TornAppend, Log
  <2> QED BY <2>1, <2>3, FaultKeepsLag
<1>8. CASE Restart
  <2>1. /\ todo' = todo /\ Lagging' = Lagging /\ faults' = faults
        /\ Appendable' => Appendable
    BY <1>8 DEF Restart, Lagging, Behind, Appendable
  <2> QED BY <2>1 DEF LagInv
<1>9. CASE UNCHANGED vars
  <2>1. /\ todo' = todo /\ Lagging' = Lagging /\ faults' = faults
        /\ Appendable' = Appendable
    BY <1>9 DEF vars, Lagging, Behind, Appendable
  <2> QED BY <2>1 DEF LagInv
<1> QED BY <1>1, <1>2, <1>3, <1>4, <1>5, <1>6, <1>7, <1>8, <1>9 DEF Next

(* LedgerLag: between requests the ledger is behind by the two electrons of *)
(* each fault at most: operate and clone append for each state they saved,  *)
(* and clone saves two.                                                     *)
THEOREM LedgersKeepUp == Spec => []LedgerLag
<1>1. Init => LagInv
  <2> SUFFICES ASSUME Init PROVE LagInv
    OBVIOUS
  <2>1. Lagging = {} /\ todo = <<>> /\ faults = 0
    BY DEF Init, Lagging, Behind
  <2>2. Cardinality({}) = 0
    BY FS_EmptySet
  <2> QED BY <2>1, <2>2, NoteRepaid DEF LagInv
<1>2. IInv /\ LagInv /\ [Next]_vars => LagInv'
  BY NextLagInv
<1>3. LagInv => LedgerLag
  <2> SUFFICES ASSUME LagInv, todo = <<>>, Appendable
               PROVE  Cardinality(Behind) <= 2 * faults
    BY DEF LedgerLag
  <2>1. Lagging = Behind
    BY NoteRepaid DEF Lagging, Behind
  <2> QED BY <2>1 DEF LagInv
<1> QED BY <1>1, <1>2, <1>3, Invariance, PTL DEF Spec
-----------------------------------------------------------------------------
(* The electron store: ledger and anchor.                                   *)

Fields == {"status", "suspended", "retired", "tick", "base", "receipt",
           "anchor", "lineage"}

\* Every electron has a whole state, and the writes left are two lists.
Shaped ==
    /\ DOMAIN state = ElectronIds
    /\ \A e \in ElectronIds : DOMAIN state[e] = Fields
    /\ IsList(pending) /\ IsList(onError)

\* The write makes ledger and anchor of e differ.
Parts(w, e) ==
    /\ w.on = e
    /\ \/ w.write = "append"
       \/ w.write = "state" /\ "anchor" \in DOMAIN w.what

Seals(w, e) == w.on = e /\ w.write = "anchor"

\* Whatever the list parts it seals again.
Settled(q) ==
    \A i \in DOMAIN q : \A e \in ElectronIds :
        Parts(q[i], e) => \E j \in DOMAIN q : j > i /\ Seals(q[j], e)

WillSeal(q, e) == \E j \in DOMAIN q : Seals(q[j], e)

InStep(e) ==
    e \in interrupted \/ LedgerAnchor(e) \/ WillSeal(pending, e)

HealInv ==
    /\ Shaped
    /\ Settled(pending) /\ Settled(onError)
    /\ \A e \in ElectronIds : InStep(e)

\* What the first write does not settle the others do.
LEMMA TailSettles ==
    ASSUME NEW q, IsList(q), q # <<>>, Settled(q)
    PROVE  /\ Settled(Tail(q))
           /\ \A e \in ElectronIds : Parts(Head(q), e) => WillSeal(Tail(q), e)
           /\ \A e \in ElectronIds :
                WillSeal(q, e) => Seals(Head(q), e) \/ WillSeal(Tail(q), e)
<1> DEFINE t == Tail(q)
<1>1. /\ 1 \in DOMAIN q /\ Head(q) = q[1]
      /\ \A i \in DOMAIN t : i + 1 \in DOMAIN q /\ t[i] = q[i + 1]
      /\ \A i \in DOMAIN q : i > 1 => i - 1 \in DOMAIN t /\ t[i - 1] = q[i]
  BY TailOfList
<1>2. DOMAIN q \subseteq Nat \ {0} /\ DOMAIN t \subseteq Nat \ {0}
  <2>1. IsList(t)
    BY TailOfList
  <2> QED BY <2>1, ListShape
<1>3. Settled(t)
  <2> HIDE DEF t
  <2> SUFFICES ASSUME NEW i \in DOMAIN t, NEW e \in ElectronIds, Parts(t[i], e)
               PROVE  \E j \in DOMAIN t : j > i /\ Seals(t[j], e)
    BY DEF Settled
  <2>1. Parts(q[i + 1], e) /\ i + 1 \in DOMAIN q
    BY <1>1
  <2>2. PICK j \in DOMAIN q : j > i + 1 /\ Seals(q[j], e)
    BY <2>1 DEF Settled
  <2>3. j - 1 \in DOMAIN t /\ t[j - 1] = q[j] /\ j - 1 > i
    BY <1>1, <1>2, <2>2
  <2> QED BY <2>2, <2>3
<1>4. ASSUME NEW e \in ElectronIds, Parts(Head(q), e)
      PROVE  WillSeal(t, e)
  <2> HIDE DEF t
  <2>1. PICK j \in DOMAIN q : j > 1 /\ Seals(q[j], e)
    BY <1>1, <1>4 DEF Settled
  <2>2. j - 1 \in DOMAIN t /\ t[j - 1] = q[j]
    BY <1>1, <2>1
  <2> QED BY <2>1, <2>2 DEF WillSeal
<1>5. ASSUME NEW e \in ElectronIds, WillSeal(q, e)
      PROVE  Seals(Head(q), e) \/ WillSeal(t, e)
  <2> HIDE DEF t
  <2>1. PICK j \in DOMAIN q : Seals(q[j], e)
    BY <1>5 DEF WillSeal
  <2>2. CASE j = 1
    BY <2>1, <2>2, <1>1
  <2>3. CASE j > 1
    <3>1. j - 1 \in DOMAIN t /\ t[j - 1] = q[j]
      BY <1>1, <2>3
    <3> QED BY <3>1, <2>1 DEF WillSeal
  <2> QED BY <1>2, <2>2, <2>3
<1> QED BY <1>3, <1>4, <1>5

\* A change leaves the fields of a state, and those it does not name alone.
LEMMA ChangedFields ==
    ASSUME NEW s, NEW change
    PROVE  /\ DOMAIN Changed(s, change) = DOMAIN s
           /\ \A f \in DOMAIN s :
                Changed(s, change)[f] = IF f \in DOMAIN change THEN change[f] ELSE s[f]
BY DEF Changed

\* A command that leaves as it must what it parts.
LEMMA StartHeals ==
    ASSUME HealInv, NEW e, NEW change, NEW rest, NEW handler,
           IsList(rest), Settled(rest), IsList(handler), Settled(handler),
           "anchor" \in DOMAIN change => WillSeal(rest, e),
           Start(e, change, rest, handler)
    PROVE  HealInv'
<1>1. /\ pending = <<>> /\ pending' = rest /\ onError' = handler
      /\ events' = events /\ interrupted' = interrupted
      /\ state' = [state EXCEPT ![e] = Changed(@, change)]
  BY DEF Start
<1>2. Shaped'
  <2>1. DOMAIN state' = ElectronIds
    BY <1>1 DEF HealInv, Shaped
  <2>2. ASSUME NEW d \in ElectronIds PROVE DOMAIN state'[d] = Fields
    <3>1. state'[d] = IF d = e THEN Changed(state[d], change) ELSE state[d]
      BY <1>1 DEF HealInv, Shaped
    <3> QED BY <3>1, ChangedFields DEF HealInv, Shaped
  <2> QED BY <1>1, <2>1, <2>2 DEF Shaped
<1>3. Settled(pending)' /\ Settled(onError)'
  BY <1>1 DEF Settled, Parts, Seals
<1>4. ASSUME NEW d \in ElectronIds PROVE InStep(d)'
  <2>1. CASE d = e /\ "anchor" \in DOMAIN change
    BY <1>1, <2>1 DEF InStep, WillSeal, Seals
  <2>2. CASE d # e \/ "anchor" \notin DOMAIN change
    <3>1. state'[d].anchor = state[d].anchor
      <4>1. state'[d] = IF d = e THEN Changed(state[d], change) ELSE state[d]
        BY <1>1 DEF HealInv, Shaped
      <4>2. "anchor" \in DOMAIN state[d]
        BY DEF HealInv, Shaped, Fields
      <4> QED BY <4>1, <4>2, <2>2, ChangedFields
    <3>2. d \in interrupted \/ LedgerAnchor(d)
      BY <1>1, NoWrites DEF HealInv, InStep, WillSeal
    <3> QED BY <3>1, <3>2, <1>1 DEF InStep, LedgerAnchor
  <2> QED BY <2>1, <2>2
<1> QED BY <1>2, <1>3, <1>4 DEF HealInv

Neutral(w) == \A e \in ElectronIds : ~ Parts(w, e)

\* Which writes part, and which seal.
LEMMA AnchorSeals == ASSUME NEW e PROVE Seals(Anchor(e), e) /\ Neutral(Anchor(e))
BY DEF Seals, Neutral, Parts, Anchor

\* A snapshot and a receipt neither part nor seal.
LEMMA SealedIsNeutral ==
    ASSUME NEW e, NEW n, NEW content PROVE Neutral(Sealed(e, n, content))
BY DEF Neutral, Parts, Sealed

\* (the receipt)
LEMMA ReceiptIsNeutral == ASSUME NEW p, NEW content PROVE Neutral(Receipt(p, content))
BY DEF Neutral, Parts, Receipt

\* An event parts the ledger of its electron only, ...
LEMMA EventParts ==
    ASSUME NEW e, NEW kind, NEW ref, NEW d, Parts(Event(e, kind, ref), d)
    PROVE  d = e
BY DEF Parts, Event

\* ... and a state without an anchor parts none.
LEMMA SetParts ==
    ASSUME NEW e, NEW change, NEW d, Parts(Set(e, change), d)
    PROVE  d = e /\ "anchor" \in DOMAIN change
BY DEF Parts, Set

\* Each command's list of writes settles what it parts: one event, ...
LEMMA LoggedSettles ==
    ASSUME NEW e, NEW kind, NEW ref
    PROVE  /\ IsList(Logged(e, kind, ref)) /\ Settled(Logged(e, kind, ref))
           /\ WillSeal(Logged(e, kind, ref), e)
<1> DEFINE q == Logged(e, kind, ref)
<1>1. q[1] = Event(e, kind, ref) /\ q[2] = Anchor(e)
  BY DEF Logged
<1>2. IsList(q) /\ DOMAIN q = 1 .. 2
  BY TwoWrites DEF Logged
<1> HIDE DEF q
<1>3. Settled(q)
  BY <1>1, <1>2, AnchorSeals, SealedIsNeutral, ReceiptIsNeutral, EventParts, SetParts DEF Settled, Neutral
<1>4. WillSeal(q, e)
  BY <1>1, <1>2, AnchorSeals, SealedIsNeutral, ReceiptIsNeutral, EventParts, SetParts DEF WillSeal
<1> QED BY <1>2, <1>3, <1>4 DEF q

\* ... a fault, ...
LEMMA FaultSettles ==
    ASSUME NEW e, NEW kind
    PROVE  IsList(FaultWrites(e, kind)) /\ Settled(FaultWrites(e, kind))
<1> DEFINE q == FaultWrites(e, kind)
           change == [status |-> "FAULTED"]
<1>1. q[1] = Set(e, change) /\ q[2] = Event(e, kind, NoSnapshot) /\ q[3] = Anchor(e)
  BY DEF FaultWrites
<1>2. IsList(q) /\ DOMAIN q = 1 .. 3
  BY ThreeWrites DEF FaultWrites
<1>3. "anchor" \notin DOMAIN change
  OBVIOUS
<1> HIDE DEF q, change
<1>4. Settled(q)
  BY <1>1, <1>2, <1>3, AnchorSeals, SealedIsNeutral, ReceiptIsNeutral, EventParts, SetParts DEF Settled, Neutral
<1> QED BY <1>2, <1>4 DEF q

\* ... an accepted execution, ...
LEMMA VerifiedSettles ==
    ASSUME NEW e, NEW path, NEW content
    PROVE  /\ IsList(VerifiedWrites(e, path, content))
           /\ Settled(VerifiedWrites(e, path, content))
<1> DEFINE q == VerifiedWrites(e, path, content)
           change == [status |-> "VERIFIED", receipt |-> {path}]
           ref == [path |-> path, content |-> content]
<1>1. /\ q[1] = Receipt(path, content) /\ q[2] = Set(e, change)
      /\ q[3] = Event(e, "EXECUTION_VERIFIED", ref) /\ q[4] = Anchor(e)
  BY DEF VerifiedWrites
<1>2. IsList(q) /\ DOMAIN q = 1 .. 4
  BY FourWrites DEF VerifiedWrites
<1>3. "anchor" \notin DOMAIN change
  OBVIOUS
<1> HIDE DEF q, change, ref
<1>4. Settled(q)
  BY <1>1, <1>2, <1>3, AnchorSeals, SealedIsNeutral, ReceiptIsNeutral, EventParts, SetParts DEF Settled, Neutral
<1> QED BY <1>2, <1>4 DEF q

\* ... a snapshot, ...
LEMMA SnapshotSettles ==
    ASSUME NEW e, NEW n
    PROVE  IsList(SnapshotWrites(e, n)) /\ Settled(SnapshotWrites(e, n))
<1> DEFINE q == SnapshotWrites(e, n)
           copy == FrozenCopy(e)
           change == [base |-> n, status |-> Thaw(state[e].status)]
<1>1. /\ q[1] = Sealed(e, n, copy) /\ q[2] = Event(e, "SNAPSHOT", n)
      /\ q[3] = Anchor(e) /\ q[4] = Set(e, change)
  BY DEF SnapshotWrites, Thawed
<1>2. IsList(q) /\ DOMAIN q = 1 .. 4
  BY FourWrites DEF SnapshotWrites
<1>3. "anchor" \notin DOMAIN change
  OBVIOUS
<1> HIDE DEF q, change, copy
<1>4. Settled(q)
  BY <1>1, <1>2, <1>3, AnchorSeals, SealedIsNeutral, ReceiptIsNeutral, EventParts, SetParts DEF Settled, Neutral
<1> QED BY <1>2, <1>4 DEF q

\* ... and a fork.
LEMMA ForkSettles ==
    ASSUME NEW e, NEW child, NEW n
    PROVE  IsList(ForkWrites(e, child, n)) /\ Settled(ForkWrites(e, child, n))
<1> DEFINE q == ForkWrites(e, child, n)
           copy == FrozenCopy(e)
           change == [base |-> n, status |-> Thaw(state[e].status)]
           born == [state[e] EXCEPT !.status = "READY", !.base = n,
                                    !.lineage = @ \cup {child}]
<1>1. /\ q[1] = Sealed(e, n, copy) /\ q[2] = Event(e, "SNAPSHOT", n)
      /\ q[3] = Anchor(e) /\ q[4] = Set(e, change)
      /\ q[5] = Set(child, born) /\ q[6] = Event(child, "CLONE_GENESIS", n)
      /\ q[7] = Anchor(child) /\ q[8] = Event(e, "FORK", n) /\ q[9] = Anchor(e)
  BY DEF ForkWrites, Thawed
<1>2. IsList(q) /\ DOMAIN q = 1 .. 9
  BY NineWrites DEF ForkWrites
<1>3. "anchor" \notin DOMAIN change
  OBVIOUS
<1> HIDE DEF q, change, copy, born
<1>4. Settled(q)
  <2> SUFFICES ASSUME NEW i \in 1 .. 9, NEW d \in ElectronIds, Parts(q[i], d)
               PROVE  \E j \in 1 .. 9 : j > i /\ Seals(q[j], d)
    BY <1>2 DEF Settled
  <2>1. Neutral(q[1]) /\ Neutral(q[3]) /\ Neutral(q[7]) /\ Neutral(q[9])
    BY <1>1, AnchorSeals, SealedIsNeutral
  <2>2. Seals(q[3], e) /\ Seals(q[7], child) /\ Seals(q[9], e)
    BY <1>1, AnchorSeals, EventParts, SetParts
  <2>3. CASE i = 2
    <3>1. d = e
      BY <1>1, <2>3, AnchorSeals, SealedIsNeutral, ReceiptIsNeutral, EventParts, SetParts
    <3> QED BY <3>1, <2>2, <2>3
  <2>4. CASE i = 5 \/ i = 6
    <3>1. d = child
      BY <1>1, <2>4, AnchorSeals, SealedIsNeutral, ReceiptIsNeutral, EventParts, SetParts
    <3> QED BY <3>1, <2>2, <2>4
  <2>5. CASE i = 8
    <3>1. d = e
      BY <1>1, <2>5, AnchorSeals, SealedIsNeutral, ReceiptIsNeutral, EventParts, SetParts
    <3> QED BY <3>1, <2>2, <2>5
  <2>6. CASE i \in {1, 3, 7, 9}
    BY <2>1, <2>6 DEF Neutral
  <2>7. CASE i = 4
    BY <1>1, <1>3, <2>7, SetParts
  <2> QED BY <2>3, <2>4, <2>5, <2>6, <2>7
<1> QED BY <1>2, <1>4 DEF q

\* The empty list has nothing to settle.
LEMMA NothingSettles == IsList(<<>>) /\ Settled(<<>>)
BY NoWrites DEF Settled

-----------------------------------------------------------------------------
\* The commands keep HealInv.
LEMMA CommandHeals ==
    ASSUME HealInv, NEW e \in ElectronIds, Command(e)
    PROVE  HealInv'
<1>1. CASE CreateElectron(e)
  BY <1>1, StartHeals, LoggedSettles, NothingSettles DEF CreateElectron
<1>2. CASE Snapshot(e)
  <2>1. PICK n \in SnapshotIds : Start(e, [status |-> "FROZEN"], SnapshotWrites(e, n), <<>>)
    BY <1>2 DEF Snapshot
  <2> QED BY <2>1, StartHeals, SnapshotSettles, NothingSettles
<1>3. ASSUME NEW child \in ElectronIds, Fork(e, child) PROVE HealInv'
  <2>1. PICK n \in SnapshotIds : Start(e, [status |-> "FROZEN"], ForkWrites(e, child, n), <<>>)
    BY <1>3 DEF Fork
  <2> QED BY <2>1, StartHeals, ForkSettles, NothingSettles
<1>4. ASSUME NEW n \in SnapshotIds, RestoreElectron(e, n) PROVE HealInv'
  <2>1. Start(e, RolledBack(e, n), Logged(e, "RESTORE", n), <<>>)
    BY <1>4 DEF RestoreElectron
  <2> QED BY <2>1, StartHeals, LoggedSettles, NothingSettles
<1>5. CASE Suspend(e)
  BY <1>5, StartHeals, LoggedSettles, NothingSettles DEF Suspend
<1>6. CASE Resume(e)
  BY <1>6, StartHeals, LoggedSettles, NothingSettles DEF Resume
<1>7. CASE Retire(e)
  BY <1>7, StartHeals, LoggedSettles, NothingSettles DEF Retire
<1>8. CASE AcceptExecution(e)
  <2> DEFINE path == [of |-> e, tick |-> state[e].tick + 1]
  <2>1. Start(e, [tick |-> state[e].tick + 1, status |-> "RUNNING"],
              VerifiedWrites(e, path, commands + 1), FaultWrites(e, "EXECUTION_ERROR"))
    BY <1>8 DEF AcceptExecution, Execute
  <2> QED BY <2>1, StartHeals, VerifiedSettles, FaultSettles
<1>9. CASE RejectExecution(e)
  <2>1. Start(e, [tick |-> state[e].tick + 1, status |-> "RUNNING"],
              FaultWrites(e, "EXECUTION_REJECTED"), FaultWrites(e, "EXECUTION_ERROR"))
    BY <1>9 DEF RejectExecution, Execute
  <2> QED BY <2>1, StartHeals, FaultSettles
<1> QED BY <1>1, <1>2, <1>3, <1>4, <1>5, <1>6, <1>7, <1>8, <1>9 DEF Command
-----------------------------------------------------------------------------
\* A write that is done, or raised, leaves two settled lists.
LEMMA DoneShapes ==
    ASSUME Shaped, Settled(pending), Settled(onError), pending # <<>>, Done
    PROVE  /\ IsList(pending') /\ IsList(onError')
           /\ Settled(pending)' /\ Settled(onError)'
           /\ pending' = Tail(pending)
<1>1. pending' = Tail(pending) /\ onError' \in {<<>>, onError}
  BY DEF Done
<1>2. IsList(Tail(pending)) /\ Settled(Tail(pending))
  BY TailOfList, TailSettles DEF Shaped
<1>3. Settled(pending)' <=> Settled(pending')
  BY DEF Settled, Parts, Seals
<1>4. Settled(onError)' <=> Settled(onError')
  BY DEF Settled, Parts, Seals
<1> QED BY <1>1, <1>2, <1>3, <1>4, NothingSettles DEF Shaped

\* A write that raises leaves two settled lists too.
LEMMA RaiseShapes ==
    ASSUME Shaped, Settled(pending), Settled(onError), Raise \/ Die
    PROVE  /\ IsList(pending') /\ IsList(onError')
           /\ Settled(pending)' /\ Settled(onError)'
           /\ interrupted' = interrupted \cup Touched
<1>1. /\ pending' \in {<<>>, onError} /\ onError' = <<>>
      /\ interrupted' = interrupted \cup Touched
  BY DEF Raise, Die
<1>2. Settled(pending)' <=> Settled(pending')
  BY DEF Settled, Parts, Seals
<1>3. Settled(onError)' <=> Settled(onError')
  BY DEF Settled, Parts, Seals
<1> QED BY <1>1, <1>2, <1>3, NothingSettles DEF Shaped

\* An electron in step before the first write is after it, if the write kept
\* its anchor and its ledger or will be followed by a seal.
LEMMA WriteKeepsStep ==
    ASSUME HealInv, pending # <<>>, pending' = Tail(pending),
           interrupted' = interrupted, NEW d \in ElectronIds,
           ~ Seals(Head(pending), d),
           ~ Parts(Head(pending), d) =>
               (LedgerAnchor(d) => LedgerAnchor(d)')
    PROVE  InStep(d)'
<1>1. IsList(pending) /\ Settled(pending) /\ InStep(d)
  BY DEF HealInv, Shaped
<1>2. WillSeal(pending, d)' <=> WillSeal(Tail(pending), d)
  BY DEF WillSeal, Seals
<1>3. CASE Parts(Head(pending), d) \/ WillSeal(pending, d)
  <2>1. WillSeal(Tail(pending), d)
    BY <1>1, <1>3, TailSettles
  <2> QED BY <2>1, <1>2 DEF InStep
<1>4. CASE ~ Parts(Head(pending), d) /\ ~ WillSeal(pending, d)
  BY <1>1, <1>4 DEF InStep
<1> QED BY <1>3, <1>4

\* A command that stops short leaves the electrons it still had to write to
\* among the interrupted ones, and keeps the step of the others.
LEMMA StopKeepsStep ==
    ASSUME HealInv, interrupted' = interrupted \cup Touched,
           state' = state, events' = events, NEW d \in ElectronIds
    PROVE  InStep(d)'
<1>1. InStep(d)
  BY DEF HealInv
<1>2. CASE WillSeal(pending, d)
  BY <1>2 DEF WillSeal, Seals, Touched, InStep
<1>3. CASE ~ WillSeal(pending, d)
  BY <1>1, <1>3 DEF InStep, LedgerAnchor
<1> QED BY <1>2, <1>3

\* Every write, and every way to stop, keeps HealInv.
LEMMA WriteHeals ==
    ASSUME HealInv, MakeWrite \/ WriteFails \/ AppendFails \/ CommandDies \/ TearAppend
    PROVE  HealInv'
<1> USE DEF HealInv
<1>1. CASE ReplaceState
  <2> DEFINE w == Head(pending)
  <2>1. /\ pending # <<>> /\ w.write = "state" /\ Done
        /\ state' = [state EXCEPT ![w.on] = Changed(@, w.what)]
        /\ events' = events /\ interrupted' = interrupted
    BY <1>1 DEF ReplaceState, NextIs
  <2> HIDE DEF w
  <2>2. /\ IsList(pending') /\ IsList(onError')
        /\ Settled(pending)' /\ Settled(onError)' /\ pending' = Tail(pending)
    BY <2>1, DoneShapes
  <2>3. \A d \in ElectronIds :
          state'[d] = IF d = w.on THEN Changed(state[d], w.what) ELSE state[d]
    BY <2>1 DEF Shaped
  <2>4. Shaped'
    <3>1. \A d \in ElectronIds : DOMAIN state'[d] = Fields
      BY <2>3, ChangedFields DEF Shaped
    <3> QED BY <2>1, <2>2, <3>1 DEF Shaped
  <2>5. ASSUME NEW d \in ElectronIds PROVE InStep(d)'
    <3>1. ~ Seals(w, d)
      BY <2>1 DEF Seals
    <3>2. ASSUME ~ Parts(w, d) PROVE state'[d].anchor = state[d].anchor
      <4>1. d # w.on \/ "anchor" \notin DOMAIN w.what
        BY <2>1, <3>2 DEF Parts
      <4>2. "anchor" \in DOMAIN state[d]
        BY DEF Shaped, Fields
      <4> QED BY <2>3, <4>1, <4>2, ChangedFields
    <3> QED BY <2>1, <2>2, <3>1, <3>2, WriteKeepsStep DEF LedgerAnchor, w
  <2> QED BY <2>2, <2>4, <2>5
<1>2. CASE AppendToLedger
  <2> DEFINE w == Head(pending)
  <2>1. /\ pending # <<>> /\ w.write = "append" /\ Done
        /\ events' = [events EXCEPT ![w.on] = Append(@, w.what)]
        /\ state' = state /\ interrupted' = interrupted
    BY <1>2 DEF AppendToLedger, NextIs
  <2> HIDE DEF w
  <2>2. /\ IsList(pending') /\ IsList(onError')
        /\ Settled(pending)' /\ Settled(onError)' /\ pending' = Tail(pending)
    BY <2>1, DoneShapes
  <2>3. Shaped'
    BY <2>1, <2>2 DEF Shaped
  <2>4. ASSUME NEW d \in ElectronIds PROVE InStep(d)'
    <3>1. ~ Seals(w, d)
      BY <2>1 DEF Seals
    <3>2. ASSUME ~ Parts(w, d) PROVE events'[d] = events[d]
      <4>1. d # w.on
        BY <2>1, <3>2 DEF Parts
      <4> QED BY <2>1, <4>1
    <3> QED BY <2>1, <2>2, <3>1, <3>2, WriteKeepsStep DEF LedgerAnchor, w
  <2> QED BY <2>2, <2>3, <2>4
<1>3. CASE WriteAnchor
  <2> DEFINE w == Head(pending)
  <2>1. /\ pending # <<>> /\ w.write = "anchor" /\ Done
        /\ state' = [state EXCEPT ![w.on].anchor = Len(events[w.on])]
        /\ events' = events /\ interrupted' = interrupted \ {w.on}
    BY <1>3 DEF WriteAnchor, NextIs
  <2> HIDE DEF w
  <2>2. /\ IsList(pending') /\ IsList(onError')
        /\ Settled(pending)' /\ Settled(onError)' /\ pending' = Tail(pending)
    BY <2>1, DoneShapes
  <2>3. \A d \in ElectronIds :
          /\ d # w.on => state'[d] = state[d]
          /\ DOMAIN state'[d] = DOMAIN state[d]
    BY <2>1 DEF Shaped
  <2>4. Shaped'
    BY <2>1, <2>2, <2>3 DEF Shaped
  <2>5. ASSUME NEW d \in ElectronIds PROVE InStep(d)'
    <3>1. CASE d = w.on
      <4>1. state'[d].anchor = Len(events[d])
        BY <2>1, <3>1 DEF Shaped, Fields
      <4> QED BY <2>1, <4>1 DEF InStep, LedgerAnchor
    <3>2. CASE d # w.on
      <4>1. ~ Seals(w, d) /\ ~ Parts(w, d)
        BY <3>2 DEF Seals, Parts
      <4>2. WillSeal(pending, d)' <=> WillSeal(Tail(pending), d)
        BY <2>2 DEF WillSeal, Seals
      <4>3. WillSeal(pending, d) => WillSeal(Tail(pending), d)
        BY <2>1, <4>1, TailSettles DEF Shaped, w
      <4> QED BY <2>1, <2>3, <3>2, <4>2, <4>3 DEF InStep, LedgerAnchor
    <3> QED BY <3>1, <3>2
  <2> QED BY <2>2, <2>4, <2>5
<1>4. CASE SealSnapshot \/ WriteReceipt
  <2> DEFINE w == Head(pending)
  <2>1. /\ pending # <<>> /\ w.write \in {"snapshot", "receipt"} /\ Done
        /\ state' = state /\ events' = events /\ interrupted' = interrupted
    BY <1>4 DEF SealSnapshot, WriteReceipt, NextIs
  <2> HIDE DEF w
  <2>2. /\ IsList(pending') /\ IsList(onError')
        /\ Settled(pending)' /\ Settled(onError)' /\ pending' = Tail(pending)
    BY <2>1, DoneShapes
  <2>3. Shaped'
    BY <2>1, <2>2 DEF Shaped
  <2>4. ASSUME NEW d \in ElectronIds PROVE InStep(d)'
    <3>1. ~ Seals(w, d)
      BY <2>1 DEF Seals
    <3> QED BY <2>1, <2>2, <3>1, WriteKeepsStep DEF LedgerAnchor, w
  <2> QED BY <2>2, <2>3, <2>4
<1>5. CASE Refuse \/ WriteFails \/ AppendFails \/ CommandDies \/ TearAppend
  <2>1. /\ Raise \/ Die
        /\ state' = state /\ events' = events
    BY <1>5 DEF Refuse, WriteFails, AppendFails, CommandDies, TearAppend, TearLine, files
  <2>2. /\ IsList(pending') /\ IsList(onError')
        /\ Settled(pending)' /\ Settled(onError)'
        /\ interrupted' = interrupted \cup Touched
    BY <2>1, RaiseShapes
  <2>3. Shaped'
    BY <2>1, <2>2 DEF Shaped
  <2>4. \A d \in ElectronIds : InStep(d)'
    BY <2>1, <2>2, StopKeepsStep
  <2> QED BY <2>2, <2>3, <2>4
<1> QED BY <1>1, <1>2, <1>3, <1>4, <1>5 DEF MakeWrite

\* HealInv holds always.
LEMMA StoreHeals == StoreSpec => []HealInv
<1>1. StoreInit => HealInv
  <2> SUFFICES ASSUME StoreInit PROVE HealInv
    OBVIOUS
  <2>1. Shaped
    BY NoWrites DEF StoreInit, Shaped, Absent, Fields
  <2>2. Settled(pending) /\ Settled(onError)
    BY NothingSettles DEF StoreInit
  <2>3. \A e \in ElectronIds : InStep(e)
    BY DEF StoreInit, InStep, LedgerAnchor, Absent
  <2> QED BY <2>1, <2>2, <2>3 DEF HealInv
<1>2. HealInv /\ [StoreNext]_storeVars => HealInv'
  <2> SUFFICES ASSUME HealInv, [StoreNext]_storeVars PROVE HealInv'
    OBVIOUS
  <2>1. CASE StoreNext
    BY <2>1, CommandHeals, WriteHeals DEF StoreNext
  <2>2. CASE UNCHANGED storeVars
    BY <2>2 DEF storeVars, files, HealInv, Shaped, Settled, InStep, LedgerAnchor,
                WillSeal, Seals, Parts
  <2> QED BY <2>1, <2>2
<1> QED BY <1>1, <1>2, PTL DEF StoreSpec

\* AnchorsHeal: what a failed command left apart, the next anchor of the
\* electron brings together (append_event and _anchor under the file lock).
THEOREM AnchorsAreHealed == StoreSpec => []AnchorsHeal
<1>1. HealInv => AnchorsHeal
  BY NoWrites DEF HealInv, InStep, WillSeal, AnchorsHeal, Quiet
<1> QED BY <1>1, StoreHeals, PTL
-----------------------------------------------------------------------------
\* The write gives e a status.
SetsStatus(w, e) == w.write = "state" /\ w.on = e /\ "status" \in DOMAIN w.what

\* The write is to an electron of the store, and leaves none RUNNING.
Halts(w) ==
    /\ w.on \in ElectronIds
    /\ w.write = "state" /\ "status" \in DOMAIN w.what => w.what.status # "RUNNING"

Halting(q) == \A i \in DOMAIN q : Halts(q[i])

\* Before the list appends anything it gives e a status.
EndsRun(q, e) ==
    \E i \in DOMAIN q :
        /\ SetsStatus(q[i], e)
        /\ \A j \in DOMAIN q : j < i => q[j].write # "append"

\* A RUNNING electron is about to leave that status, and will if a write fails.
RunEnds(e) ==
    state[e].status = "RUNNING" /\ crashes = 0 /\ errors <= 1 =>
        /\ EndsRun(pending, e)
        /\ errors = 0 => EndsRun(onError, e)

StrandInv ==
    /\ errors \in Nat /\ crashes \in Nat
    /\ errors = 0 /\ crashes = 0 => \A e \in ElectronIds : ~ torn[e]
    /\ Halting(pending) /\ Halting(onError)
    /\ \A e \in ElectronIds : RunEnds(e)

\* A write that gives no RUNNING halts; so do an event, ...
LEMMA SetHalts ==
    ASSUME NEW e \in ElectronIds, NEW change,
           "status" \in DOMAIN change => change.status # "RUNNING"
    PROVE  Halts(Set(e, change))
BY DEF Halts, Set

\* ... its effect being on the ledger, ...
LEMMA EventHalts ==
    ASSUME NEW e \in ElectronIds, NEW kind, NEW ref PROVE Halts(Event(e, kind, ref))
BY DEF Halts, Event

\* ... an anchor, ...
LEMMA AnchorHalts == ASSUME NEW e \in ElectronIds PROVE Halts(Anchor(e))
BY DEF Halts, Anchor

\* ... a snapshot, ...
LEMMA SealedHalts ==
    ASSUME NEW e \in ElectronIds, NEW n, NEW content PROVE Halts(Sealed(e, n, content))
BY DEF Halts, Sealed

\* ... and a receipt.
LEMMA ReceiptHalts ==
    ASSUME NEW p, p.of \in ElectronIds, NEW content PROVE Halts(Receipt(p, content))
BY DEF Halts, Receipt

\* Each command's list of writes halts: one event, ...
LEMMA LoggedHalts ==
    ASSUME NEW e \in ElectronIds, NEW kind, NEW ref
    PROVE  Halting(Logged(e, kind, ref))
<1> DEFINE q == Logged(e, kind, ref)
<1>1. q[1] = Event(e, kind, ref) /\ q[2] = Anchor(e) /\ DOMAIN q = 1 .. 2
  BY TwoWrites DEF Logged
<1> HIDE DEF q
<1>2. Halting(q)
  BY <1>1, EventHalts, AnchorHalts DEF Halting
<1> QED BY <1>2 DEF q

\* ... a fault, which ends the run, ...
LEMMA FaultHalts ==
    ASSUME NEW e \in ElectronIds, NEW kind
    PROVE  Halting(FaultWrites(e, kind)) /\ EndsRun(FaultWrites(e, kind), e)
<1> DEFINE q == FaultWrites(e, kind)
           change == [status |-> "FAULTED"]
<1>1. /\ q[1] = Set(e, change) /\ q[2] = Event(e, kind, NoSnapshot)
      /\ q[3] = Anchor(e) /\ DOMAIN q = 1 .. 3
  BY ThreeWrites DEF FaultWrites
<1>2. "status" \in DOMAIN change /\ change.status # "RUNNING"
  OBVIOUS
<1>3. SetsStatus(Set(e, change), e)
  BY DEF SetsStatus, Set
<1> HIDE DEF q, change
<1>4. Halting(q)
  BY <1>1, <1>2, SetHalts, EventHalts, AnchorHalts DEF Halting
<1>5. EndsRun(q, e)
  <2>1. SetsStatus(q[1], e) /\ \A j \in 1 .. 3 : ~ (j < 1)
    BY <1>1, <1>3
  <2> QED BY <1>1, <2>1 DEF EndsRun
<1> QED BY <1>4, <1>5 DEF q

\* ... an accepted execution, which ends it too, ...
LEMMA VerifiedHalts ==
    ASSUME NEW e \in ElectronIds, NEW path, path.of \in ElectronIds, NEW content
    PROVE  /\ Halting(VerifiedWrites(e, path, content))
           /\ EndsRun(VerifiedWrites(e, path, content), e)
<1> DEFINE q == VerifiedWrites(e, path, content)
           change == [status |-> "VERIFIED", receipt |-> {path}]
           ref == [path |-> path, content |-> content]
<1>1. /\ q[1] = Receipt(path, content) /\ q[2] = Set(e, change)
      /\ q[3] = Event(e, "EXECUTION_VERIFIED", ref) /\ q[4] = Anchor(e)
      /\ DOMAIN q = 1 .. 4
  BY FourWrites DEF VerifiedWrites
<1>2. "status" \in DOMAIN change /\ change.status # "RUNNING"
  OBVIOUS
<1>3. SetsStatus(Set(e, change), e)
  BY DEF SetsStatus, Set
<1> HIDE DEF q, change, ref
<1>4. Halting(q)
  BY <1>1, <1>2, SetHalts, EventHalts, AnchorHalts, ReceiptHalts DEF Halting
<1>5. EndsRun(q, e)
  <2>1. q[1].write # "append"
    BY <1>1 DEF Receipt
  <2>2. SetsStatus(q[2], e) /\ \A j \in 1 .. 4 : j < 2 => j = 1
    BY <1>1, <1>3
  <2> QED BY <1>1, <2>1, <2>2 DEF EndsRun
<1> QED BY <1>4, <1>5 DEF q

\* ... a snapshot, ...
LEMMA SnapshotHalts ==
    ASSUME NEW e \in ElectronIds, NEW n
    PROVE  Halting(SnapshotWrites(e, n))
<1> DEFINE q == SnapshotWrites(e, n)
           copy == FrozenCopy(e)
           change == [base |-> n, status |-> Thaw(state[e].status)]
<1>1. /\ q[1] = Sealed(e, n, copy) /\ q[2] = Event(e, "SNAPSHOT", n)
      /\ q[3] = Anchor(e) /\ q[4] = Set(e, change) /\ DOMAIN q = 1 .. 4
  BY FourWrites DEF SnapshotWrites, Thawed
<1>2. change.status # "RUNNING"
  BY DEF Thaw
<1> HIDE DEF q, change, copy
<1>3. Halting(q)
  BY <1>1, <1>2, SetHalts, EventHalts, AnchorHalts, SealedHalts DEF Halting
<1> QED BY <1>3 DEF q

\* ... and a fork.
LEMMA ForkHalts ==
    ASSUME NEW e \in ElectronIds, NEW child \in ElectronIds, NEW n
    PROVE  Halting(ForkWrites(e, child, n))
<1> DEFINE q == ForkWrites(e, child, n)
           copy == FrozenCopy(e)
           change == [base |-> n, status |-> Thaw(state[e].status)]
           born == [state[e] EXCEPT !.status = "READY", !.base = n,
                                    !.lineage = @ \cup {child}]
<1>1. /\ q[1] = Sealed(e, n, copy) /\ q[2] = Event(e, "SNAPSHOT", n)
      /\ q[3] = Anchor(e) /\ q[4] = Set(e, change)
      /\ q[5] = Set(child, born) /\ q[6] = Event(child, "CLONE_GENESIS", n)
      /\ q[7] = Anchor(child) /\ q[8] = Event(e, "FORK", n) /\ q[9] = Anchor(e)
      /\ DOMAIN q = 1 .. 9
  BY NineWrites DEF ForkWrites, Thawed
<1>2. change.status # "RUNNING"
  BY DEF Thaw
<1>3. "status" \in DOMAIN born => born.status # "RUNNING"
  OBVIOUS
<1> HIDE DEF q, change, copy, born
<1>4. Halts(q[1]) /\ Halts(q[2]) /\ Halts(q[3]) /\ Halts(q[6])
  BY <1>1, EventHalts, AnchorHalts, SealedHalts
<1>5. Halts(q[7]) /\ Halts(q[8]) /\ Halts(q[9])
  BY <1>1, EventHalts, AnchorHalts
<1>6. Halts(q[4]) /\ Halts(q[5])
  BY <1>1, <1>2, <1>3, SetHalts
<1>7. Halting(q)
  BY <1>1, <1>4, <1>5, <1>6 DEF Halting
<1> QED BY <1>7 DEF q

\* The empty list halts and ends no run.
LEMMA NothingHalts == Halting(<<>>) /\ \A e : ~ EndsRun(<<>>, e)
BY NoWrites DEF Halting, EndsRun

\* A list that begins with an append ends no run.
LEMMA AppendEndsNone ==
    ASSUME NEW q, IsList(q), q # <<>>, Head(q).write = "append", NEW e
    PROVE  ~ EndsRun(q, e)
<1>1. 1 \in DOMAIN q /\ Head(q) = q[1] /\ DOMAIN q \subseteq Nat \ {0}
  BY TailOfList, ListShape
<1> SUFFICES ASSUME NEW i \in DOMAIN q, SetsStatus(q[i], e),
                    \A j \in DOMAIN q : j < i => q[j].write # "append"
             PROVE  FALSE
  BY DEF EndsRun
<1>2. i = 1 \/ 1 < i
  BY <1>1
<1> QED BY <1>1, <1>2 DEF SetsStatus

\* What the first write does not end the others do.
LEMMA TailHalts ==
    ASSUME NEW q, IsList(q), q # <<>>, Halting(q)
    PROVE  /\ Halts(Head(q)) /\ Halting(Tail(q))
           /\ \A e : EndsRun(q, e) => SetsStatus(Head(q), e) \/ EndsRun(Tail(q), e)
<1> DEFINE t == Tail(q)
<1>1. /\ 1 \in DOMAIN q /\ Head(q) = q[1]
      /\ \A i \in DOMAIN t : i + 1 \in DOMAIN q /\ t[i] = q[i + 1]
      /\ \A i \in DOMAIN q : i > 1 => i - 1 \in DOMAIN t /\ t[i - 1] = q[i]
  BY TailOfList
<1>2. DOMAIN q \subseteq Nat \ {0}
  BY ListShape
<1>5. DOMAIN t \subseteq Nat \ {0}
  BY TailOfList, ListShape
<1> HIDE DEF t
<1>3. Halts(Head(q)) /\ Halting(t)
  BY <1>1 DEF Halting
<1>4. ASSUME NEW e, EndsRun(q, e) PROVE SetsStatus(Head(q), e) \/ EndsRun(t, e)
  <2>1. PICK j \in DOMAIN q :
          SetsStatus(q[j], e) /\ \A i \in DOMAIN q : i < j => q[i].write # "append"
    BY <1>4 DEF EndsRun
  <2>2. CASE j = 1
    BY <1>1, <2>1, <2>2
  <2>3. CASE j > 1
    <3>1. j - 1 \in DOMAIN t /\ t[j - 1] = q[j]
      BY <1>1, <2>3
    <3>2. ASSUME NEW i \in DOMAIN t, i < j - 1 PROVE t[i].write # "append"
      <4>1. i + 1 \in DOMAIN q /\ i + 1 < j /\ t[i] = q[i + 1]
        BY <1>1, <1>2, <1>5, <3>2
      <4> QED BY <2>1, <4>1
    <3> QED BY <2>1, <3>1, <3>2 DEF EndsRun
  <2> QED BY <1>2, <2>2, <2>3
<1> QED BY <1>3, <1>4 DEF t

\* A command that will end the run it starts.
LEMMA StartHalts ==
    ASSUME Shaped, StrandInv, NEW e \in ElectronIds, NEW change, NEW rest, NEW handler,
           Halting(rest), Halting(handler),
           "status" \in DOMAIN change /\ change.status = "RUNNING" =>
               EndsRun(rest, e) /\ EndsRun(handler, e),
           Start(e, change, rest, handler)
    PROVE  StrandInv'
<1>1. /\ pending = <<>> /\ pending' = rest /\ onError' = handler
      /\ torn' = torn /\ errors' = errors /\ crashes' = crashes
      /\ state' = [state EXCEPT ![e] = Changed(@, change)]
  BY DEF Start, counters
<1>2. Halting(pending)' /\ Halting(onError)'
  BY <1>1 DEF Halting, Halts
<1>3. ASSUME NEW d \in ElectronIds PROVE RunEnds(d)'
  <2>1. state'[d] = IF d = e THEN Changed(state[d], change) ELSE state[d]
    BY <1>1 DEF Shaped
  <2>2. "status" \in DOMAIN state[d]
    BY DEF Shaped, Fields
  <2>3. CASE d = e /\ "status" \in DOMAIN change
    <3>1. state'[d].status = change.status
      BY <2>1, <2>2, <2>3, ChangedFields
    <3> QED BY <1>1, <2>3, <3>1 DEF RunEnds, EndsRun, SetsStatus
  <2>4. CASE d # e \/ "status" \notin DOMAIN change
    <3>1. state'[d].status = state[d].status
      BY <2>1, <2>2, <2>4, ChangedFields
    <3>2. ~ (state[d].status = "RUNNING" /\ crashes = 0 /\ errors <= 1)
      BY <1>1, NothingHalts DEF StrandInv, RunEnds
    <3> QED BY <1>1, <3>1, <3>2 DEF RunEnds
  <2> QED BY <2>3, <2>4
<1> QED BY <1>1, <1>2, <1>3 DEF StrandInv

\* The commands keep StrandInv.
LEMMA CommandHalts ==
    ASSUME Shaped, StrandInv, NEW e \in ElectronIds, Command(e)
    PROVE  StrandInv'
<1>1. CASE CreateElectron(e)
  BY <1>1, StartHalts, LoggedHalts, NothingHalts DEF CreateElectron
<1>2. CASE Snapshot(e)
  <2>1. PICK n \in SnapshotIds : Start(e, [status |-> "FROZEN"], SnapshotWrites(e, n), <<>>)
    BY <1>2 DEF Snapshot
  <2> QED BY <2>1, StartHalts, SnapshotHalts, NothingHalts
<1>3. ASSUME NEW child \in ElectronIds, Fork(e, child) PROVE StrandInv'
  <2>1. PICK n \in SnapshotIds : Start(e, [status |-> "FROZEN"], ForkWrites(e, child, n), <<>>)
    BY <1>3 DEF Fork
  <2> QED BY <2>1, StartHalts, ForkHalts, NothingHalts
<1>4. ASSUME NEW n \in SnapshotIds, RestoreElectron(e, n) PROVE StrandInv'
  <2>1. Start(e, RolledBack(e, n), Logged(e, "RESTORE", n), <<>>)
    BY <1>4 DEF RestoreElectron
  <2>2. "status" \in DOMAIN RolledBack(e, n) => RolledBack(e, n).status # "RUNNING"
    BY DEF RolledBack
  <2> QED BY <2>1, <2>2, StartHalts, LoggedHalts, NothingHalts
<1>5. CASE Suspend(e)
  BY <1>5, StartHalts, LoggedHalts, NothingHalts DEF Suspend
<1>6. CASE Resume(e)
  BY <1>6, StartHalts, LoggedHalts, NothingHalts DEF Resume
<1>7. CASE Retire(e)
  BY <1>7, StartHalts, LoggedHalts, NothingHalts DEF Retire
<1>8. CASE AcceptExecution(e)
  <2> DEFINE path == [of |-> e, tick |-> state[e].tick + 1]
  <2>1. Start(e, [tick |-> state[e].tick + 1, status |-> "RUNNING"],
              VerifiedWrites(e, path, commands + 1), FaultWrites(e, "EXECUTION_ERROR"))
    BY <1>8 DEF AcceptExecution, Execute
  <2>2. path.of \in ElectronIds
    OBVIOUS
  <2> QED BY <2>1, <2>2, StartHalts, VerifiedHalts, FaultHalts
<1>9. CASE RejectExecution(e)
  <2>1. Start(e, [tick |-> state[e].tick + 1, status |-> "RUNNING"],
              FaultWrites(e, "EXECUTION_REJECTED"), FaultWrites(e, "EXECUTION_ERROR"))
    BY <1>9 DEF RejectExecution, Execute
  <2> QED BY <2>1, StartHalts, FaultHalts
<1> QED BY <1>1, <1>2, <1>3, <1>4, <1>5, <1>6, <1>7, <1>8, <1>9 DEF Command

\* A write that is done leaves the run to the others, or ends it.
LEMMA DoneHalts ==
    ASSUME Shaped, StrandInv, pending # <<>>, Done, torn' = torn,
           NEW w, w = Head(pending),
           \A d \in ElectronIds :
               state'[d].status = IF SetsStatus(w, d) THEN w.what.status
                                                      ELSE state[d].status
    PROVE  StrandInv'
<1>1. /\ pending' = Tail(pending) /\ errors' = errors /\ crashes' = crashes
      /\ onError' = IF Tail(pending) = <<>> THEN <<>> ELSE onError
  BY DEF Done, counters
<1>2. /\ Halts(w) /\ Halting(Tail(pending))
      /\ \A d : EndsRun(pending, d) => SetsStatus(w, d) \/ EndsRun(Tail(pending), d)
  BY TailHalts DEF Shaped, StrandInv
<1>3. Halting(pending)' /\ Halting(onError)'
  <2>1. Halting(pending') /\ Halting(onError')
    BY <1>1, <1>2, NothingHalts DEF StrandInv
  <2> QED BY <2>1 DEF Halting, Halts
<1>4. ASSUME NEW d \in ElectronIds PROVE RunEnds(d)'
  <2>1. CASE SetsStatus(w, d)
    BY <1>2, <2>1 DEF Halts, SetsStatus, RunEnds
  <2>2. CASE ~ SetsStatus(w, d)
    <3>1. RunEnds(d) /\ state'[d].status = state[d].status
      BY <2>2 DEF StrandInv
    <3>2. EndsRun(Tail(pending), d) => Tail(pending) # <<>>
      BY NothingHalts
    <3>3. /\ EndsRun(pending, d)' <=> EndsRun(Tail(pending), d)
          /\ Tail(pending) # <<>> => (EndsRun(onError, d)' <=> EndsRun(onError, d))
      BY <1>1 DEF EndsRun, SetsStatus
    <3> QED BY <1>1, <1>2, <2>2, <3>1, <3>2, <3>3 DEF RunEnds
  <2> QED BY <2>1, <2>2
<1> QED BY <1>1, <1>3, <1>4 DEF StrandInv

\* Every write, and every way to stop, keeps StrandInv.
LEMMA WriteHalts ==
    ASSUME Shaped, StrandInv, MakeWrite \/ WriteFails \/ AppendFails \/ CommandDies \/ TearAppend
    PROVE  StrandInv'
<1>1. CASE ReplaceState
  <2> DEFINE w == Head(pending)
  <2>1. /\ pending # <<>> /\ w.write = "state" /\ Done /\ torn' = torn
        /\ state' = [state EXCEPT ![w.on] = Changed(@, w.what)]
    BY <1>1 DEF ReplaceState, NextIs
  <2> HIDE DEF w
  <2>2. ASSUME NEW d \in ElectronIds
        PROVE  state'[d].status = IF SetsStatus(w, d) THEN w.what.status
                                                      ELSE state[d].status
    <3>1. state'[d] = IF d = w.on THEN Changed(state[d], w.what) ELSE state[d]
      BY <2>1 DEF Shaped
    <3>2. "status" \in DOMAIN state[d]
      BY DEF Shaped, Fields
    <3> QED BY <2>1, <3>1, <3>2, ChangedFields DEF SetsStatus
  <2> QED BY <2>1, <2>2, DoneHalts DEF w
<1>2. CASE AppendToLedger \/ WriteAnchor \/ SealSnapshot \/ WriteReceipt
  <2> DEFINE w == Head(pending)
  <2>1. /\ pending # <<>> /\ w.write # "state" /\ Done /\ torn' = torn
        /\ \/ state' = state
           \/ state' = [state EXCEPT ![w.on].anchor = Len(events[w.on])]
    BY <1>2 DEF AppendToLedger, WriteAnchor, SealSnapshot, WriteReceipt, NextIs
  <2> HIDE DEF w
  <2>2. ASSUME NEW d \in ElectronIds
        PROVE  state'[d].status = IF SetsStatus(w, d) THEN w.what.status
                                                      ELSE state[d].status
    <3>1. state'[d].status = state[d].status
      BY <2>1 DEF Shaped, Fields
    <3> QED BY <2>1, <3>1 DEF SetsStatus
  <2> QED BY <2>1, <2>2, DoneHalts DEF w
<1>3. CASE Refuse
  <2>1. /\ pending # <<>> /\ Head(pending).write = "append"
        /\ crashes' = crashes /\ errors' = errors /\ state' = state /\ torn' = torn
        /\ pending' = onError /\ onError' = <<>>
    BY <1>3 DEF Refuse, Raise, NextIs, files, counters
  <2>2. Halting(pending') /\ Halting(onError')
    BY <2>1, NothingHalts DEF StrandInv
  <2>3. Halting(pending)' /\ Halting(onError)'
    BY <2>2 DEF Halting, Halts
  <2>4. \A d \in ElectronIds : RunEnds(d) /\ ~ EndsRun(pending, d)
    BY <2>1, AppendEndsNone DEF StrandInv, Shaped
  <2>5. \A d \in ElectronIds : RunEnds(d)'
    BY <2>1, <2>4 DEF RunEnds
  <2> QED BY <2>1, <2>3, <2>5 DEF StrandInv
<1>4. CASE WriteFails \/ AppendFails
  <2>1. /\ errors' = errors + 1 /\ crashes' = crashes /\ state' = state
        /\ pending' = onError /\ onError' = <<>>
    BY <1>4 DEF WriteFails, AppendFails, TearLine, Raise, files
  <2>2. Halting(pending') /\ Halting(onError')
    BY <2>1, NothingHalts DEF StrandInv
  <2>3. Halting(pending)' /\ Halting(onError)'
    BY <2>2 DEF Halting, Halts
  <2>4. ASSUME NEW d \in ElectronIds PROVE RunEnds(d)'
    <3>1. RunEnds(d) /\ errors \in Nat
      BY DEF StrandInv
    <3>2. errors' # 0 /\ (errors' <= 1 => errors = 0 /\ errors <= 1)
      BY <2>1, <3>1
    <3>3. EndsRun(pending, d)' <=> EndsRun(onError, d)
      BY <2>1 DEF EndsRun, SetsStatus
    <3> QED BY <2>1, <3>1, <3>2, <3>3 DEF RunEnds
  <2>5. errors' \in Nat /\ errors' # 0
    BY <2>1 DEF StrandInv
  <2> QED BY <2>1, <2>3, <2>4, <2>5 DEF StrandInv
<1>5. CASE CommandDies \/ TearAppend
  <2>1. /\ errors' = errors /\ crashes' = crashes + 1
        /\ pending' = <<>> /\ onError' = <<>>
    BY <1>5 DEF CommandDies, TearAppend, Die
  <2>2. Halting(pending)' /\ Halting(onError)'
    BY <2>1, NothingHalts DEF Halting, Halts
  <2>3. crashes' \in Nat /\ crashes' # 0
    BY <2>1 DEF StrandInv
  <2> QED BY <2>1, <2>2, <2>3 DEF StrandInv, RunEnds
<1> QED BY <1>1, <1>2, <1>3, <1>4, <1>5 DEF MakeWrite

\* StrandInv holds always.
LEMMA StrandKept == StoreSpec => []StrandInv
<1>1. StoreInit => StrandInv
  <2> SUFFICES ASSUME StoreInit PROVE StrandInv
    OBVIOUS
  <2>1. Halting(pending) /\ Halting(onError)
    BY NothingHalts DEF StoreInit
  <2>2. \A e \in ElectronIds : RunEnds(e)
    BY DEF StoreInit, RunEnds, Absent
  <2> QED BY <2>1, <2>2 DEF StoreInit, StrandInv
<1>2. HealInv /\ StrandInv /\ [StoreNext]_storeVars => StrandInv'
  <2> SUFFICES ASSUME Shaped, StrandInv, [StoreNext]_storeVars PROVE StrandInv'
    BY DEF HealInv
  <2>1. CASE StoreNext
    BY <2>1, CommandHalts, WriteHalts DEF StoreNext
  <2>2. CASE UNCHANGED storeVars
    BY <2>2 DEF storeVars, files, counters, StrandInv, Halting, Halts, RunEnds,
                EndsRun, SetsStatus
  <2> QED BY <2>1, <2>2
<1> QED BY <1>1, <1>2, StoreHeals, PTL DEF StoreSpec

\* NeverStranded: one write that raises leaves no electron RUNNING
\* (record_execution and its except clause).
THEOREM NoneIsStranded == StoreSpec => []NeverStranded
<1>1. StrandInv => NeverStranded
  BY NothingHalts DEF StrandInv, RunEnds, NeverStranded, Quiet
<1> QED BY <1>1, StrandKept, PTL
-----------------------------------------------------------------------------
\* The writes of each command, one by one.
Born(e, child, n) == [state[e] EXCEPT !.status = "READY", !.base = n,
                                      !.lineage = @ \cup {child}]

\* (one event)
LEMMA LoggedList ==
    ASSUME NEW e, NEW kind, NEW ref
    PROVE  /\ DOMAIN Logged(e, kind, ref) = 1 .. 2
           /\ Logged(e, kind, ref)[1] = Event(e, kind, ref)
           /\ Logged(e, kind, ref)[2] = Anchor(e)
BY TwoWrites DEF Logged

\* (a fault)
LEMMA FaultList ==
    ASSUME NEW e, NEW kind
    PROVE  /\ DOMAIN FaultWrites(e, kind) = 1 .. 3
           /\ FaultWrites(e, kind)[1] = Set(e, [status |-> "FAULTED"])
           /\ FaultWrites(e, kind)[2] = Event(e, kind, NoSnapshot)
           /\ FaultWrites(e, kind)[3] = Anchor(e)
BY ThreeWrites DEF FaultWrites

\* (an accepted execution)
LEMMA VerifiedList ==
    ASSUME NEW e, NEW p, NEW content
    PROVE  /\ DOMAIN VerifiedWrites(e, p, content) = 1 .. 4
           /\ VerifiedWrites(e, p, content)[1] = Receipt(p, content)
           /\ VerifiedWrites(e, p, content)[2] =
                  Set(e, [status |-> "VERIFIED", receipt |-> {p}])
           /\ VerifiedWrites(e, p, content)[3] =
                  Event(e, "EXECUTION_VERIFIED", [path |-> p, content |-> content])
           /\ VerifiedWrites(e, p, content)[4] = Anchor(e)
BY FourWrites DEF VerifiedWrites

\* (a snapshot)
LEMMA SnapshotList ==
    ASSUME NEW e, NEW n
    PROVE  /\ DOMAIN SnapshotWrites(e, n) = 1 .. 4
           /\ SnapshotWrites(e, n)[1] = Sealed(e, n, FrozenCopy(e))
           /\ SnapshotWrites(e, n)[2] = Event(e, "SNAPSHOT", n)
           /\ SnapshotWrites(e, n)[3] = Anchor(e)
           /\ SnapshotWrites(e, n)[4] = Thawed(e, n)
BY FourWrites DEF SnapshotWrites

\* (a fork)
LEMMA ForkList ==
    ASSUME NEW e, NEW child, NEW n
    PROVE  /\ DOMAIN ForkWrites(e, child, n) = 1 .. 9
           /\ ForkWrites(e, child, n)[1] = Sealed(e, n, FrozenCopy(e))
           /\ ForkWrites(e, child, n)[2] = Event(e, "SNAPSHOT", n)
           /\ ForkWrites(e, child, n)[3] = Anchor(e)
           /\ ForkWrites(e, child, n)[4] = Thawed(e, n)
           /\ ForkWrites(e, child, n)[5] = Set(child, Born(e, child, n))
           /\ ForkWrites(e, child, n)[6] = Event(child, "CLONE_GENESIS", n)
           /\ ForkWrites(e, child, n)[7] = Anchor(child)
           /\ ForkWrites(e, child, n)[8] = Event(e, "FORK", n)
           /\ ForkWrites(e, child, n)[9] = Anchor(e)
BY NineWrites DEF ForkWrites, Born

-----------------------------------------------------------------------------
(* Lineages: s stands for the states of all electrons, t for the number of  *)
(* commands started.                                                        *)

Lives(s, e) == s[e].status # "ABSENT"

\* e belongs to l, and so do all ancestors of the others in l.
Family(l, e, s) ==
    /\ e \in l
    /\ \A x \in l \ {e} : x \in ElectronIds /\ Lives(s, x) /\ s[x].lineage \subseteq l

OwnReceipts(r) == \A p \in r.receipt : p.of \in r.lineage

\* What the state r of e owes to the other states.
GoodState(r, e, s, t) ==
    /\ r.tick \in 0 .. t
    /\ OwnReceipts(r)
    /\ r.status # "ABSENT" => Family(r.lineage, e, s)
    /\ r.status = "ABSENT" => r.lineage = {} /\ r.receipt = {} /\ r.base = NoSnapshot

\* A snapshot has the lineage its owner has for good.
GoodCopy(c, s, t) ==
    /\ c.owner \in ElectronIds /\ Lives(s, c.owner)
    /\ DOMAIN c.state = Fields
    /\ c.state.tick \in 0 .. t
    /\ c.state.lineage = s[c.owner].lineage
    /\ OwnReceipts(c.state)

\* A state write changes an electron that lives and keeps its lineage, ...
Amends(w, s) ==
    /\ Lives(s, w.on)
    /\ "lineage" \notin DOMAIN w.what /\ "tick" \notin DOMAIN w.what
    /\ "status" \in DOMAIN w.what => w.what.status # "ABSENT"
    /\ "receipt" \in DOMAIN w.what =>
          \A p \in w.what.receipt : p.of \in s[w.on].lineage

\* ... or is the first state of a fork.
Bears(w, s, t) ==
    /\ ~ Lives(s, w.on)
    /\ DOMAIN w.what = Fields /\ w.what.status # "ABSENT"
    /\ GoodState(w.what, w.on, s, t)

FitWrite(w, s, t) ==
    /\ w.on \in ElectronIds
    /\ w.write = "state" => Amends(w, s) \/ Bears(w, s, t)
    /\ w.write = "snapshot" => GoodCopy(w.what, s, t)

Fits(q, s, t) == \A i \in DOMAIN q : FitWrite(q[i], s, t)

\* No electron's state is written twice.
Once(q) ==
    \A i, j \in DOMAIN q :
        q[i].write = "state" /\ q[j].write = "state" /\ q[i].on = q[j].on => i = j

\* The list brings no electron to life.
Amending(q, s) == \A i \in DOMAIN q : q[i].write = "state" => Lives(s, q[i].on)

LineageInv ==
    /\ commands \in Nat
    /\ \A e \in ElectronIds : GoodState(state[e], e, state, commands)
    /\ IsList(sealed)
    /\ \A n \in DOMAIN sealed : GoodCopy(sealed[n], state, commands)
    /\ Fits(pending, state, commands) /\ Fits(onError, state, commands)
    /\ Once(pending) /\ Once(onError) /\ Amending(onError, state)

\* Electrons are not removed and keep their lineage.
Grows(s, s2) ==
    \A x \in ElectronIds : Lives(s, x) => Lives(s2, x) /\ s2[x].lineage = s[x].lineage

\* What is said of lineages stays true as electrons are added: families, ...
LEMMA FamilyGrows ==
    ASSUME NEW s, NEW s2, Grows(s, s2), NEW l, NEW e, Family(l, e, s)
    PROVE  Family(l, e, s2)
BY DEF Family, Grows

\* ... states, ...
LEMMA StateGrows ==
    ASSUME NEW s, NEW s2, Grows(s, s2), NEW t \in Nat, NEW t2 \in Nat, t <= t2,
           NEW r, NEW e, GoodState(r, e, s, t)
    PROVE  GoodState(r, e, s2, t2)
BY FamilyGrows DEF GoodState

\* ... snapshots, ...
LEMMA CopyGrows ==
    ASSUME NEW s, NEW s2, Grows(s, s2), NEW t \in Nat, NEW t2 \in Nat, t <= t2,
           NEW c, GoodCopy(c, s, t)
    PROVE  GoodCopy(c, s2, t2)
BY DEF GoodCopy, Grows

\* ... and writes.
LEMMA WriteGrows ==
    ASSUME NEW s, NEW s2, Grows(s, s2), NEW t \in Nat, NEW t2 \in Nat, t <= t2,
           NEW w, FitWrite(w, s, t),
           w.write = "state" /\ ~ Lives(s, w.on) => ~ Lives(s2, w.on)
    PROVE  FitWrite(w, s2, t2)
<1>1. w.write = "snapshot" => GoodCopy(w.what, s2, t2)
  BY CopyGrows DEF FitWrite
<1>2. ASSUME Amends(w, s), w.on \in ElectronIds PROVE Amends(w, s2)
  BY <1>2 DEF Amends, Grows
<1>3. ASSUME Bears(w, s, t), ~ Lives(s2, w.on) PROVE Bears(w, s2, t2)
  BY <1>3, StateGrows DEF Bears
<1> QED BY <1>1, <1>2, <1>3 DEF FitWrite, Amends, Bears

\* A state that is replaced by a good one of the same lineage.
LEMMA ReplacedGrows ==
    ASSUME DOMAIN state = ElectronIds, NEW e, NEW r,
           state' = [state EXCEPT ![e] = r],
           r.status # "ABSENT",
           Lives(state, e) => r.lineage = state[e].lineage
    PROVE  /\ Grows(state, state')
           /\ \A x \in ElectronIds : state'[x] = IF x = e THEN r ELSE state[x]
BY DEF Grows, Lives

\* After such a replacement all states are good.
LEMMA StatesStayGood ==
    ASSUME DOMAIN state = ElectronIds, LineageInv, NEW e, NEW r,
           state' = [state EXCEPT ![e] = r],
           r.status # "ABSENT",
           Lives(state, e) => r.lineage = state[e].lineage,
           commands' \in Nat, commands <= commands',
           e \in ElectronIds => GoodState(r, e, state, commands')
    PROVE  /\ \A x \in ElectronIds : GoodState(state'[x], x, state', commands')
           /\ \A n \in DOMAIN sealed : GoodCopy(sealed[n], state', commands')
           /\ Grows(state, state')
<1>1. /\ Grows(state, state')
      /\ \A x \in ElectronIds : state'[x] = IF x = e THEN r ELSE state[x]
  BY ReplacedGrows
<1>2. ASSUME NEW x \in ElectronIds PROVE GoodState(state'[x], x, state', commands')
  <2>1. CASE x = e
    <3>1. GoodState(r, e, state, commands')
      BY <2>1
    <3> QED BY <1>1, <2>1, <3>1, StateGrows
  <2>2. CASE x # e
    <3>1. GoodState(state[x], x, state, commands)
      BY DEF LineageInv
    <3>2. GoodState(state[x], x, state', commands')
      BY <1>1, <3>1, StateGrows DEF LineageInv
    <3> QED BY <1>1, <2>2, <3>2
  <2> QED BY <2>1, <2>2
<1>3. ASSUME NEW n \in DOMAIN sealed PROVE GoodCopy(sealed[n], state', commands')
  BY <1>1, CopyGrows DEF LineageInv
<1> QED BY <1>1, <1>2, <1>3

\* A list that fits still fits after other electrons were added.
LEMMA FitsGrow ==
    ASSUME NEW s, NEW s2, Grows(s, s2), NEW t \in Nat, NEW t2 \in Nat, t <= t2,
           NEW q, Fits(q, s, t),
           \A i \in DOMAIN q : q[i].write = "state" /\ ~ Lives(s, q[i].on) =>
                                   ~ Lives(s2, q[i].on)
    PROVE  Fits(q, s2, t2)
BY WriteGrows DEF Fits

\* A command whose writes fit keeps LineageInv.
LEMMA StartKeepsLineage ==
    ASSUME Shaped, LineageInv, NEW e \in ElectronIds,
           NEW change, NEW rest, NEW handler, Start(e, change, rest, handler),
           NEW r, r = Changed(state[e], change),
           GoodState(r, e, state, commands + 1), r.status # "ABSENT",
           Lives(state, e) => r.lineage = state[e].lineage,
           Fits(rest, state, commands + 1), Fits(handler, state, commands + 1),
           Once(rest), Once(handler), Amending(handler, state),
           Lives(state, e) \/ \A i \in DOMAIN rest : rest[i].write # "state"
    PROVE  LineageInv'
<1>1. /\ pending' = rest /\ onError' = handler /\ sealed' = sealed
      /\ state' = [state EXCEPT ![e] = r]
      /\ commands' = commands + 1
      /\ commands \in Nat /\ DOMAIN state = ElectronIds
  BY DEF Start, LineageInv, Shaped
<1>2. commands' \in Nat /\ commands <= commands'
  BY <1>1
<1>3. /\ \A x \in ElectronIds : GoodState(state'[x], x, state', commands')
      /\ \A n \in DOMAIN sealed : GoodCopy(sealed[n], state', commands')
      /\ Grows(state, state')
  BY <1>1, <1>2, StatesStayGood
<1>4. \A x : x # e => state'[x] = state[x]
  BY <1>1
<1>5. Fits(rest, state', commands')
  <2>1. \A i \in DOMAIN rest :
          rest[i].write = "state" /\ ~ Lives(state, rest[i].on) => ~ Lives(state', rest[i].on)
    BY <1>4 DEF Lives
  <2>2. Fits(rest, state, commands')
    BY <1>1
  <2> QED BY <1>2, <1>3, <2>1, <2>2, FitsGrow
<1>6. Fits(handler, state', commands')
  <2>1. \A i \in DOMAIN handler :
          handler[i].write = "state" /\ ~ Lives(state, handler[i].on) =>
              ~ Lives(state', handler[i].on)
    BY DEF Amending
  <2>2. Fits(handler, state, commands')
    BY <1>1
  <2> QED BY <1>2, <1>3, <2>1, <2>2, FitsGrow
<1>7. Amending(handler, state')
  BY <1>3, <1>6 DEF Amending, Grows, Fits, FitWrite
<1> QED BY <1>1, <1>2, <1>3, <1>5, <1>6, <1>7 DEF LineageInv

\* Which writes fit: an event, ...
LEMMA EventFits ==
    ASSUME NEW s, NEW t, NEW e \in ElectronIds, NEW kind, NEW ref
    PROVE  FitWrite(Event(e, kind, ref), s, t)
BY DEF FitWrite, Event

\* ... an anchor, ...
LEMMA AnchorFits ==
    ASSUME NEW s, NEW t, NEW e \in ElectronIds PROVE FitWrite(Anchor(e), s, t)
BY DEF FitWrite, Anchor

\* ... a receipt, ...
LEMMA ReceiptFits ==
    ASSUME NEW s, NEW t, NEW p, p.of \in ElectronIds, NEW content
    PROVE  FitWrite(Receipt(p, content), s, t)
BY DEF FitWrite, Receipt

\* ... a snapshot with a good copy, ...
LEMMA SealedFits ==
    ASSUME NEW s, NEW t, NEW e \in ElectronIds, NEW n, NEW c, GoodCopy(c, s, t)
    PROVE  FitWrite(Sealed(e, n, c), s, t)
BY DEF FitWrite, Sealed

\* ... and a state that amends or bears one.
LEMMA SetFits ==
    ASSUME NEW s, NEW t, NEW e \in ElectronIds, NEW change,
           Amends(Set(e, change), s) \/ Bears(Set(e, change), s, t)
    PROVE  FitWrite(Set(e, change), s, t)
BY DEF FitWrite, Set

\* Each command's list of writes fits: one event, ...
LEMMA LoggedFits ==
    ASSUME NEW s, NEW t, NEW e \in ElectronIds, NEW kind, NEW ref
    PROVE  /\ Fits(Logged(e, kind, ref), s, t) /\ Once(Logged(e, kind, ref))
           /\ \A i \in DOMAIN Logged(e, kind, ref) :
                 Logged(e, kind, ref)[i].write # "state"
<1> DEFINE q == Logged(e, kind, ref)
<1>1. DOMAIN q = 1 .. 2 /\ q[1] = Event(e, kind, ref) /\ q[2] = Anchor(e)
  BY LoggedList
<1> HIDE DEF q
<1>2. Fits(q, s, t)
  BY <1>1, EventFits, AnchorFits DEF Fits
<1>3. \A i \in DOMAIN q : q[i].write # "state"
  BY <1>1 DEF Event, Anchor
<1>4. Once(q)
  BY <1>3 DEF Once
<1> QED BY <1>2, <1>3, <1>4 DEF q

\* ... a fault, ...
LEMMA FaultFits ==
    ASSUME NEW s, NEW t, NEW e \in ElectronIds, Lives(s, e), NEW kind
    PROVE  /\ Fits(FaultWrites(e, kind), s, t) /\ Once(FaultWrites(e, kind))
           /\ Amending(FaultWrites(e, kind), s)
<1> DEFINE q == FaultWrites(e, kind)
           change == [status |-> "FAULTED"]
<1>1. /\ DOMAIN q = 1 .. 3
      /\ q[1] = Set(e, change) /\ q[2] = Event(e, kind, NoSnapshot) /\ q[3] = Anchor(e)
  BY FaultList
<1>2. Amends(Set(e, change), s)
  BY DEF Amends, Set
<1> HIDE DEF q, change
<1>3. Fits(q, s, t)
  BY <1>1, <1>2, EventFits, AnchorFits, SetFits DEF Fits
<1>4. Once(q)
  <2>1. q[2].write # "state" /\ q[3].write # "state"
    BY <1>1 DEF Event, Anchor
  <2> QED BY <1>1, <2>1 DEF Once
<1>5. Amending(q, s)
  <2>1. q[2].write # "state" /\ q[3].write # "state" /\ q[1].on = e
    BY <1>1 DEF Event, Anchor, Set
  <2> QED BY <1>1, <2>1 DEF Amending
<1> QED BY <1>3, <1>4, <1>5 DEF q

\* ... an accepted execution, ...
LEMMA VerifiedFits ==
    ASSUME NEW s, NEW t, NEW e \in ElectronIds, Lives(s, e), NEW p, p.of = e,
           e \in s[e].lineage, NEW content
    PROVE  Fits(VerifiedWrites(e, p, content), s, t) /\ Once(VerifiedWrites(e, p, content))
<1> DEFINE q == VerifiedWrites(e, p, content)
           change == [status |-> "VERIFIED", receipt |-> {p}]
           ref == [path |-> p, content |-> content]
<1>1. /\ DOMAIN q = 1 .. 4
      /\ q[1] = Receipt(p, content) /\ q[2] = Set(e, change)
      /\ q[3] = Event(e, "EXECUTION_VERIFIED", ref) /\ q[4] = Anchor(e)
  BY VerifiedList
<1>2. Amends(Set(e, change), s)
  BY DEF Amends, Set
<1> HIDE DEF q, change, ref
<1>3. Fits(q, s, t)
  BY <1>1, <1>2, EventFits, AnchorFits, SetFits, ReceiptFits DEF Fits
<1>4. Once(q)
  <2>1. q[1].write # "state" /\ q[3].write # "state" /\ q[4].write # "state"
    BY <1>1 DEF Event, Anchor, Receipt
  <2> QED BY <1>1, <2>1 DEF Once
<1> QED BY <1>3, <1>4 DEF q

\* The copy of a living electron is good, and so is what thaws it.
LEMMA CopyFits ==
    ASSUME Shaped, LineageInv, NEW e \in ElectronIds, Exists(e), NEW n
    PROVE  /\ FitWrite(Sealed(e, n, FrozenCopy(e)), state, commands + 1)
           /\ FitWrite(Thawed(e, n), state, commands + 1)
<1>1. GoodState(state[e], e, state, commands) /\ commands \in Nat
  BY DEF LineageInv
<1>2. DOMAIN state[e] = Fields
  BY DEF Shaped
<1>3. GoodCopy(FrozenCopy(e), state, commands + 1)
  <2> DEFINE c == [state[e] EXCEPT !.status = "FROZEN"]
  <2>1. /\ DOMAIN c = Fields /\ c.tick = state[e].tick
        /\ c.lineage = state[e].lineage /\ c.receipt = state[e].receipt
    BY <1>2 DEF Fields
  <2>2. FrozenCopy(e).owner = e /\ FrozenCopy(e).state = c
    BY DEF FrozenCopy
  <2> HIDE DEF c
  <2>3. c.tick \in 0 .. commands + 1
    BY <1>1, <2>1 DEF GoodState
  <2>4. OwnReceipts(c)
    BY <1>1, <2>1 DEF GoodState, OwnReceipts
  <2> QED BY <2>1, <2>2, <2>3, <2>4 DEF GoodCopy, Lives, Exists
<1>4. Amends(Thawed(e, n), state)
  <2> DEFINE change == [base |-> n, status |-> Thaw(state[e].status)]
  <2>1. change.status # "ABSENT"
    BY DEF Thaw, Exists
  <2>2. Thawed(e, n).on = e /\ Thawed(e, n).what = change
    BY DEF Thawed, Set
  <2>3. DOMAIN change = {"base", "status"}
    OBVIOUS
  <2> HIDE DEF change
  <2> QED BY <2>1, <2>2, <2>3 DEF Amends, Lives, Exists
<1> QED BY <1>3, <1>4, SealedFits, SetFits DEF Thawed

\* ... a snapshot, ...
LEMMA SnapshotFits ==
    ASSUME Shaped, LineageInv, NEW e \in ElectronIds, Exists(e), NEW n
    PROVE  Fits(SnapshotWrites(e, n), state, commands + 1) /\ Once(SnapshotWrites(e, n))
<1> DEFINE q == SnapshotWrites(e, n)
           copy == FrozenCopy(e)
           thawed == Thawed(e, n)
<1>1. /\ DOMAIN q = 1 .. 4
      /\ q[1] = Sealed(e, n, copy) /\ q[2] = Event(e, "SNAPSHOT", n)
      /\ q[3] = Anchor(e) /\ q[4] = thawed
  BY SnapshotList
<1>2. /\ FitWrite(Sealed(e, n, copy), state, commands + 1)
      /\ FitWrite(thawed, state, commands + 1)
  BY CopyFits
<1> HIDE DEF q, copy, thawed
<1>3. Fits(q, state, commands + 1)
  BY <1>1, <1>2, EventFits, AnchorFits DEF Fits
<1>4. Once(q)
  <2>1. q[1].write # "state" /\ q[2].write # "state" /\ q[3].write # "state"
    BY <1>1 DEF Event, Anchor, Sealed
  <2> QED BY <1>1, <2>1 DEF Once
<1> QED BY <1>3, <1>4 DEF q

\* The child of a living electron joins its family.
LEMMA ChildFits ==
    ASSUME Shaped, LineageInv, NEW e \in ElectronIds, Exists(e),
           NEW child \in ElectronIds, ~ Exists(child), NEW n
    PROVE  FitWrite(Set(child, Born(e, child, n)), state, commands + 1)
<1> DEFINE b == Born(e, child, n)
<1>1. GoodState(state[e], e, state, commands) /\ commands \in Nat
  BY DEF LineageInv
<1>2. DOMAIN state[e] = Fields
  BY DEF Shaped
<1>3. /\ DOMAIN b = Fields /\ b.status = "READY" /\ b.tick = state[e].tick
      /\ b.receipt = state[e].receipt
      /\ b.lineage = state[e].lineage \cup {child}
  BY <1>2 DEF Born, Fields
<1>4. Family(b.lineage, child, state)
  BY <1>1, <1>3 DEF GoodState, Family, Lives, Exists
<1>5. GoodState(b, child, state, commands + 1)
  <2>1. b.tick \in 0 .. commands + 1
    BY <1>1, <1>3 DEF GoodState
  <2>2. OwnReceipts(b)
    BY <1>1, <1>3 DEF GoodState, OwnReceipts
  <2> QED BY <1>3, <1>4, <2>1, <2>2 DEF GoodState
<1>6. Bears(Set(child, b), state, commands + 1)
  <2> HIDE DEF b
  <2> QED BY <1>3, <1>5 DEF Bears, Set, Lives, Exists
<1> QED BY <1>6, SetFits

\* ... and a fork.
LEMMA ForkFits ==
    ASSUME Shaped, LineageInv, NEW e \in ElectronIds, Exists(e),
           NEW child \in ElectronIds, ~ Exists(child), NEW n
    PROVE  /\ Fits(ForkWrites(e, child, n), state, commands + 1)
           /\ Once(ForkWrites(e, child, n))
<1> DEFINE q == ForkWrites(e, child, n)
           copy == FrozenCopy(e)
           thawed == Thawed(e, n)
           born == Born(e, child, n)
<1>1. /\ DOMAIN q = 1 .. 9
      /\ q[1] = Sealed(e, n, copy) /\ q[2] = Event(e, "SNAPSHOT", n)
      /\ q[3] = Anchor(e) /\ q[4] = thawed
      /\ q[5] = Set(child, born) /\ q[6] = Event(child, "CLONE_GENESIS", n)
      /\ q[7] = Anchor(child) /\ q[8] = Event(e, "FORK", n) /\ q[9] = Anchor(e)
  BY ForkList
<1>2. /\ FitWrite(Sealed(e, n, copy), state, commands + 1)
      /\ FitWrite(thawed, state, commands + 1)
  BY CopyFits
<1>3. FitWrite(Set(child, born), state, commands + 1)
  BY ChildFits
<1>4. thawed.on = e /\ e # child
  BY DEF Thawed, Set
<1> HIDE DEF q, copy, thawed, born
<1>5. FitWrite(q[1], state, commands + 1) /\ FitWrite(q[4], state, commands + 1)
      /\ FitWrite(q[5], state, commands + 1)
  BY <1>1, <1>2, <1>3
<1>6. FitWrite(q[2], state, commands + 1) /\ FitWrite(q[3], state, commands + 1)
      /\ FitWrite(q[6], state, commands + 1)
  BY <1>1, EventFits, AnchorFits
<1>7. FitWrite(q[7], state, commands + 1) /\ FitWrite(q[8], state, commands + 1)
      /\ FitWrite(q[9], state, commands + 1)
  BY <1>1, EventFits, AnchorFits
<1>8. Fits(q, state, commands + 1)
  BY <1>1, <1>5, <1>6, <1>7 DEF Fits
<1>9. Once(q)
  <2>1. q[1].write # "state" /\ q[2].write # "state" /\ q[3].write # "state"
        /\ q[6].write # "state"
    BY <1>1 DEF Event, Anchor, Sealed
  <2>2. q[7].write # "state" /\ q[8].write # "state" /\ q[9].write # "state"
    BY <1>1 DEF Event, Anchor
  <2>3. q[4].on # q[5].on
    BY <1>1, <1>4 DEF Set
  <2> QED BY <1>1, <2>1, <2>2, <2>3 DEF Once
<1> QED BY <1>8, <1>9 DEF q

\* The empty list fits.
LEMMA NothingFits ==
    ASSUME NEW s, NEW t PROVE Fits(<<>>, s, t) /\ Once(<<>>) /\ Amending(<<>>, s)
BY NoWrites DEF Fits, Once, Amending

\* A change without lineage, tick and receipt, and not to ABSENT, is good.
LEMMA PlainChange ==
    ASSUME Shaped, LineageInv, NEW e \in ElectronIds, Exists(e), NEW change,
           DOMAIN change \subseteq {"status", "suspended", "retired"},
           "status" \in DOMAIN change => change.status # "ABSENT",
           NEW r, r = Changed(state[e], change)
    PROVE  /\ GoodState(r, e, state, commands + 1) /\ r.status # "ABSENT"
           /\ r.lineage = state[e].lineage
<1>1. GoodState(state[e], e, state, commands) /\ commands \in Nat
  BY DEF LineageInv
<1>2. DOMAIN state[e] = Fields
  BY DEF Shaped
<1>3. /\ r.lineage = state[e].lineage /\ r.tick = state[e].tick
      /\ r.receipt = state[e].receipt /\ r.status # "ABSENT"
  BY <1>2, ChangedFields DEF Fields, Exists
<1> QED BY <1>1, <1>3 DEF GoodState, OwnReceipts, Exists

\* An execution keeps LineageInv, whatever its verdict.
LEMMA ExecuteKeepsLineage ==
    ASSUME Shaped, LineageInv, NEW e \in ElectronIds, NEW rest, Execute(e, rest),
           Fits(rest, state, commands + 1), Once(rest)
    PROVE  LineageInv'
<1> DEFINE change == [tick |-> state[e].tick + 1, status |-> "RUNNING"]
           r == Changed(state[e], change)
<1>1. Start(e, change, rest, FaultWrites(e, "EXECUTION_ERROR")) /\ Exists(e)
  BY DEF Execute, Operable
<1>2. GoodState(state[e], e, state, commands) /\ commands \in Nat
  BY DEF LineageInv
<1>3. DOMAIN state[e] = Fields
  BY DEF Shaped
<1>4. /\ DOMAIN change = {"tick", "status"}
      /\ change.tick = state[e].tick + 1 /\ change.status = "RUNNING"
  OBVIOUS
<1> HIDE DEF change
<1>5. /\ r.lineage = state[e].lineage /\ r.tick = state[e].tick + 1
      /\ r.receipt = state[e].receipt /\ r.status = "RUNNING"
  BY <1>3, <1>4, ChangedFields DEF Fields
<1> HIDE DEF r
<1>6. GoodState(r, e, state, commands + 1)
  <2>1. r.tick \in 0 .. commands + 1
    BY <1>2, <1>5 DEF GoodState
  <2> QED BY <1>1, <1>2, <1>5, <2>1 DEF GoodState, OwnReceipts, Exists
<1>7. Lives(state, e)
  BY <1>1 DEF Lives, Exists
<1>8. /\ Fits(FaultWrites(e, "EXECUTION_ERROR"), state, commands + 1)
      /\ Once(FaultWrites(e, "EXECUTION_ERROR"))
      /\ Amending(FaultWrites(e, "EXECUTION_ERROR"), state)
  BY <1>7, FaultFits
<1> QED BY <1>1, <1>5, <1>6, <1>7, <1>8, StartKeepsLineage DEF r

\* The commands keep LineageInv.
LEMMA CommandKeepsLineage ==
    ASSUME Shaped, LineageInv, NEW e \in ElectronIds, Command(e)
    PROVE  LineageInv'
<1>1. GoodState(state[e], e, state, commands) /\ commands \in Nat
  BY DEF LineageInv
<1>2. DOMAIN state[e] = Fields
  BY DEF Shaped
<1>3. Exists(e) => Lives(state, e)
  BY DEF Exists, Lives
<1>4. CASE CreateElectron(e)
  <2> DEFINE change == [status |-> "READY", lineage |-> {e}]
             r == Changed(state[e], change)
  <2>1. ~ Exists(e) /\ Start(e, change, Logged(e, "GENESIS", NoSnapshot), <<>>)
    BY <1>4 DEF CreateElectron
  <2>2. /\ DOMAIN change = {"status", "lineage"}
        /\ change.status = "READY" /\ change.lineage = {e}
    OBVIOUS
  <2> HIDE DEF change
  <2>3. /\ r.lineage = {e} /\ r.tick = state[e].tick
        /\ r.receipt = state[e].receipt /\ r.status = "READY"
    BY <1>2, <2>2, ChangedFields DEF Fields
  <2> HIDE DEF r
  <2>4. GoodState(r, e, state, commands + 1)
    <3>1. r.tick \in 0 .. commands + 1
      BY <1>1, <2>3 DEF GoodState
    <3>2. r.receipt = {}
      BY <1>1, <2>1, <2>3 DEF GoodState, Exists
    <3> QED BY <2>3, <3>1, <3>2 DEF GoodState, OwnReceipts, Family
  <2>5. ~ Lives(state, e)
    BY <2>1 DEF Lives, Exists
  <2>6. /\ Fits(Logged(e, "GENESIS", NoSnapshot), state, commands + 1)
        /\ Once(Logged(e, "GENESIS", NoSnapshot))
        /\ \A i \in DOMAIN Logged(e, "GENESIS", NoSnapshot) :
              Logged(e, "GENESIS", NoSnapshot)[i].write # "state"
    BY LoggedFits
  <2> QED BY <2>1, <2>3, <2>4, <2>5, <2>6, NothingFits, StartKeepsLineage DEF r
<1>5. CASE Snapshot(e)
  <2>1. Exists(e)
    BY <1>5 DEF Snapshot
  <2>2. PICK n \in SnapshotIds : Start(e, [status |-> "FROZEN"], SnapshotWrites(e, n), <<>>)
    BY <1>5 DEF Snapshot
  <2>3. Fits(SnapshotWrites(e, n), state, commands + 1) /\ Once(SnapshotWrites(e, n))
    BY <2>1, SnapshotFits
  <2> QED BY <1>3, <2>1, <2>2, <2>3, PlainChange, NothingFits, StartKeepsLineage
<1>6. ASSUME NEW child \in ElectronIds, Fork(e, child) PROVE LineageInv'
  <2>1. Exists(e) /\ ~ Exists(child)
    BY <1>6 DEF Fork, Operable
  <2>2. PICK n \in SnapshotIds : Start(e, [status |-> "FROZEN"], ForkWrites(e, child, n), <<>>)
    BY <1>6 DEF Fork
  <2>3. Fits(ForkWrites(e, child, n), state, commands + 1) /\ Once(ForkWrites(e, child, n))
    BY <2>1, ForkFits
  <2> QED BY <1>3, <2>1, <2>2, <2>3, PlainChange, NothingFits, StartKeepsLineage
<1>7. ASSUME NEW n \in SnapshotIds, RestoreElectron(e, n) PROVE LineageInv'
  <2> DEFINE change == RolledBack(e, n)
             r == Changed(state[e], change)
  <2>1. /\ Exists(e) /\ n \in DOMAIN sealed /\ sealed[n].owner \in state[e].lineage
        /\ Start(e, change, Logged(e, "RESTORE", n), <<>>)
    BY <1>7 DEF RestoreElectron
  <2>2. GoodCopy(sealed[n], state, commands)
    BY <2>1 DEF LineageInv
  <2>3. /\ DOMAIN change = Fields
        /\ change.lineage = state[e].lineage /\ change.tick = sealed[n].state.tick
        /\ change.receipt = sealed[n].state.receipt
        /\ change.status \in {"SUSPENDED", "READY"}
    BY <2>2 DEF GoodCopy, RolledBack, Fields
  <2> HIDE DEF change
  <2>4. /\ r.lineage = state[e].lineage /\ r.tick = sealed[n].state.tick
        /\ r.receipt = sealed[n].state.receipt /\ r.status # "ABSENT"
    BY <1>2, <2>3, ChangedFields DEF Fields
  <2> HIDE DEF r
  <2>5. sealed[n].state.lineage \subseteq state[e].lineage
    BY <1>1, <2>1, <2>2 DEF GoodState, GoodCopy, Family, Exists
  <2>6. GoodState(r, e, state, commands + 1)
    <3>1. r.tick \in 0 .. commands + 1
      BY <1>1, <2>2, <2>4 DEF GoodCopy
    <3>2. OwnReceipts(r)
      BY <2>2, <2>4, <2>5 DEF GoodCopy, OwnReceipts
    <3> QED BY <1>1, <2>1, <2>4, <3>1, <3>2 DEF GoodState, Exists
  <2>7. Fits(Logged(e, "RESTORE", n), state, commands + 1) /\ Once(Logged(e, "RESTORE", n))
    BY LoggedFits
  <2> QED BY <1>3, <2>1, <2>4, <2>6, <2>7, NothingFits, StartKeepsLineage DEF r
<1>8. ASSUME NEW change, NEW kind, Exists(e),
             DOMAIN change \subseteq {"status", "suspended", "retired"},
             "status" \in DOMAIN change => change.status # "ABSENT",
             Start(e, change, Logged(e, kind, NoSnapshot), <<>>)
      PROVE  LineageInv'
  <2>1. /\ Fits(Logged(e, kind, NoSnapshot), state, commands + 1)
        /\ Once(Logged(e, kind, NoSnapshot))
    BY LoggedFits
  <2> QED BY <1>3, <1>8, <2>1, PlainChange, NothingFits, StartKeepsLineage
<1>9. CASE Suspend(e)
  BY <1>8, <1>9 DEF Suspend
<1>10. CASE Resume(e)
  BY <1>8, <1>10 DEF Resume
<1>11. CASE Retire(e)
  BY <1>8, <1>11 DEF Retire
<1>12. CASE AcceptExecution(e)
  <2> DEFINE path == [of |-> e, tick |-> state[e].tick + 1]
  <2>1. Execute(e, VerifiedWrites(e, path, commands + 1)) /\ Exists(e)
    BY <1>12 DEF AcceptExecution, Execute, Operable
  <2>2. path.of = e
    OBVIOUS
  <2>3. e \in state[e].lineage
    BY <1>1, <2>1 DEF GoodState, Family, Exists
  <2> HIDE DEF path
  <2>4. /\ Fits(VerifiedWrites(e, path, commands + 1), state, commands + 1)
        /\ Once(VerifiedWrites(e, path, commands + 1))
    BY <1>3, <2>1, <2>2, <2>3, VerifiedFits
  <2> QED BY <2>1, <2>4, ExecuteKeepsLineage
<1>13. CASE RejectExecution(e)
  <2>1. Execute(e, FaultWrites(e, "EXECUTION_REJECTED"))
    BY <1>13 DEF RejectExecution
  <2>2. Exists(e)
    BY <2>1 DEF Execute, Operable
  <2>3. /\ Fits(FaultWrites(e, "EXECUTION_REJECTED"), state, commands + 1)
        /\ Once(FaultWrites(e, "EXECUTION_REJECTED"))
    BY <1>3, <2>2, FaultFits
  <2> QED BY <2>1, <2>3, ExecuteKeepsLineage
<1> QED BY <1>4, <1>5, <1>6, <1>7, <1>9, <1>10, <1>11, <1>12, <1>13 DEF Command

\* What the rest of a list inherits from the list.
LEMMA TailFits ==
    ASSUME NEW q, IsList(q), q # <<>>, NEW s, NEW t, Fits(q, s, t), Once(q)
    PROVE  /\ FitWrite(Head(q), s, t) /\ Fits(Tail(q), s, t) /\ Once(Tail(q))
           /\ Head(q).write = "state" =>
                 \A i \in DOMAIN Tail(q) :
                     Tail(q)[i].write = "state" => Tail(q)[i].on # Head(q).on
<1> DEFINE u == Tail(q)
<1>1. /\ 1 \in DOMAIN q /\ Head(q) = q[1]
      /\ \A i \in DOMAIN u : i + 1 \in DOMAIN q /\ u[i] = q[i + 1]
      /\ DOMAIN u \subseteq Nat \ {0}
  <2>1. IsList(u)
    BY TailOfList
  <2> QED BY <2>1, TailOfList, ListShape
<1> HIDE DEF u
<1>2. FitWrite(Head(q), s, t) /\ Fits(u, s, t)
  BY <1>1 DEF Fits
<1>3. Once(u)
  <2> SUFFICES ASSUME NEW i \in DOMAIN u, NEW j \in DOMAIN u, u[i].write = "state",
                      u[j].write = "state", u[i].on = u[j].on
               PROVE  i = j
    BY DEF Once
  <2>1. i + 1 = j + 1
    BY <1>1 DEF Once
  <2> QED BY <1>1, <2>1
<1>4. ASSUME Head(q).write = "state", NEW i \in DOMAIN u, u[i].write = "state"
      PROVE  u[i].on # Head(q).on
  <2>1. i + 1 \in DOMAIN q /\ i + 1 # 1 /\ u[i] = q[i + 1]
    BY <1>1
  <2> QED BY <1>1, <1>4, <2>1 DEF Once
<1> QED BY <1>2, <1>3, <1>4 DEF u

\* A write that is done, given what it did to the states and to sealed.
LEMMA DoneKeepsLineage ==
    ASSUME Shaped, LineageInv, pending # <<>>, Done,
           Grows(state, state'),
           \A x \in ElectronIds : GoodState(state'[x], x, state', commands),
           IsList(sealed'),
           \A n \in DOMAIN sealed' : GoodCopy(sealed'[n], state', commands),
           \A i \in DOMAIN Tail(pending) :
               Tail(pending)[i].write = "state" /\ ~ Lives(state, Tail(pending)[i].on) =>
                   ~ Lives(state', Tail(pending)[i].on)
    PROVE  LineageInv'
<1>1. /\ pending' = Tail(pending) /\ onError' \in {<<>>, onError}
      /\ commands' = commands /\ commands \in Nat /\ IsList(pending)
      /\ Fits(pending, state, commands) /\ Once(pending)
      /\ Fits(onError, state, commands) /\ Once(onError) /\ Amending(onError, state)
  BY DEF Done, LineageInv, Shaped
<1>2. Fits(pending', state', commands') /\ Once(pending')
  <2>1. Fits(Tail(pending), state, commands) /\ Once(Tail(pending))
    BY <1>1, TailFits
  <2>2. commands <= commands
    BY <1>1
  <2>3. Fits(Tail(pending), state', commands)
    BY <1>1, <2>1, <2>2, FitsGrow
  <2> QED BY <1>1, <2>1, <2>3
<1>3. Fits(onError, state', commands)
  <2>1. /\ commands <= commands
        /\ \A i \in DOMAIN onError :
             onError[i].write = "state" => Lives(state, onError[i].on)
    BY <1>1 DEF Amending
  <2> QED BY <1>1, <2>1, FitsGrow
<1>4. Amending(onError, state')
  BY <1>1 DEF Amending, Grows, Fits, FitWrite
<1>5. Fits(onError', state', commands') /\ Once(onError') /\ Amending(onError', state')
  BY <1>1, <1>3, <1>4, NothingFits
<1> QED BY <1>1, <1>2, <1>5 DEF LineageInv

\* A command that stops short.
LEMMA StopKeepsLineage ==
    ASSUME Shaped, LineageInv, Raise \/ Die, state' = state, sealed' = sealed
    PROVE  LineageInv'
<1>1. /\ pending' \in {<<>>, onError} /\ onError' = <<>> /\ commands' = commands
  BY DEF Raise, Die
<1> QED BY <1>1, NothingFits DEF LineageInv

\* Every write, and every way to stop, keeps LineageInv.
LEMMA WriteKeepsLineage ==
    ASSUME Shaped, LineageInv, MakeWrite \/ WriteFails \/ AppendFails \/ CommandDies \/ TearAppend
    PROVE  LineageInv'
<1> DEFINE w == Head(pending)
<1>1. DOMAIN state = ElectronIds /\ \A x \in ElectronIds : DOMAIN state[x] = Fields
  BY DEF Shaped
<1>2. /\ commands \in Nat /\ IsList(sealed) /\ IsList(pending)
      /\ \A x \in ElectronIds : GoodState(state[x], x, state, commands)
      /\ \A n \in DOMAIN sealed : GoodCopy(sealed[n], state, commands)
      /\ Fits(pending, state, commands) /\ Once(pending)
  BY DEF LineageInv, Shaped
<1>3. CASE ReplaceState
  <2> DEFINE r == Changed(state[w.on], w.what)
  <2>1. /\ pending # <<>> /\ w.write = "state" /\ Done /\ sealed' = sealed
        /\ state' = [state EXCEPT ![w.on] = r]
    BY <1>3 DEF ReplaceState, NextIs
  <2>2. /\ FitWrite(w, state, commands)
        /\ \A i \in DOMAIN Tail(pending) :
              Tail(pending)[i].write = "state" => Tail(pending)[i].on # w.on
    BY <1>2, <2>1, TailFits
  <2>3. commands' = commands
    BY <2>1 DEF Done
  <2> HIDE DEF w
  <2>4. w.on \in ElectronIds /\ (Amends(w, state) \/ Bears(w, state, commands))
    BY <2>1, <2>2 DEF FitWrite
  <2>5. /\ r.status # "ABSENT" /\ GoodState(r, w.on, state, commands)
        /\ Lives(state, w.on) => r.lineage = state[w.on].lineage
    <3>1. CASE Amends(w, state)
      <4>1. /\ r.lineage = state[w.on].lineage /\ r.tick = state[w.on].tick
            /\ r.status # "ABSENT"
        BY <1>1, <2>4, <3>1, ChangedFields DEF Amends, Fields, Lives
      <4>2. \A p \in r.receipt : p.of \in state[w.on].lineage
        <5>1. GoodState(state[w.on], w.on, state, commands)
          BY <1>2, <2>4
        <5>2. r.receipt \in {state[w.on].receipt, w.what.receipt}
          BY <1>1, <2>4, ChangedFields DEF Fields
        <5>3. "receipt" \notin DOMAIN w.what => r.receipt = state[w.on].receipt
          BY <1>1, <2>4, ChangedFields DEF Fields
        <5> QED BY <3>1, <5>1, <5>2, <5>3 DEF GoodState, OwnReceipts, Amends
      <4> HIDE DEF r
      <4>3. GoodState(state[w.on], w.on, state, commands) /\ Lives(state, w.on)
        BY <1>2, <2>4, <3>1 DEF Amends
      <4> QED BY <4>1, <4>2, <4>3 DEF GoodState, OwnReceipts, Lives
    <3>2. CASE Bears(w, state, commands)
      <4>1. /\ r.lineage = w.what.lineage /\ r.tick = w.what.tick
            /\ r.receipt = w.what.receipt /\ r.status = w.what.status
        BY <1>1, <2>4, <3>2, ChangedFields DEF Bears, Fields
      <4> HIDE DEF r
      <4> QED BY <3>2, <4>1 DEF Bears, GoodState, OwnReceipts
    <3> QED BY <2>4, <3>1, <3>2
  <2> HIDE DEF r
  <2>6. /\ \A x \in ElectronIds : GoodState(state'[x], x, state', commands')
        /\ \A n \in DOMAIN sealed : GoodCopy(sealed[n], state', commands')
        /\ Grows(state, state')
    <3>1. commands' \in Nat /\ commands <= commands'
      BY <1>2, <2>3
    <3>2. GoodState(r, w.on, state, commands')
      BY <2>3, <2>5
    <3> QED BY <1>1, <2>1, <2>5, <3>1, <3>2, StatesStayGood
  <2>7. \A x : x # w.on => state'[x] = state[x]
    BY <2>1
  <2>8. \A i \in DOMAIN Tail(pending) :
          Tail(pending)[i].write = "state" /\ ~ Lives(state, Tail(pending)[i].on) =>
              ~ Lives(state', Tail(pending)[i].on)
    BY <2>2, <2>7 DEF Lives
  <2> QED BY <1>2, <2>1, <2>3, <2>6, <2>8, DoneKeepsLineage
<1>4. CASE WriteAnchor
  <2>1. /\ pending # <<>> /\ Done /\ sealed' = sealed
        /\ state' = [state EXCEPT ![w.on].anchor = Len(events[w.on])]
    BY <1>4 DEF WriteAnchor, NextIs
  <2> HIDE DEF w
  <2>2. ASSUME NEW x
        PROVE  /\ state'[x].lineage = state[x].lineage /\ state'[x].tick = state[x].tick
               /\ state'[x].receipt = state[x].receipt /\ state'[x].base = state[x].base
               /\ state'[x].status = state[x].status
    BY <2>1
  <2>3. Grows(state, state')
    BY <2>2 DEF Grows, Lives
  <2>4. ASSUME NEW x \in ElectronIds PROVE GoodState(state'[x], x, state', commands)
    <3>1. GoodState(state[x], x, state', commands)
      BY <1>2, <2>3, StateGrows
    <3> QED BY <2>2, <3>1 DEF GoodState, OwnReceipts
  <2>5. \A n \in DOMAIN sealed' : GoodCopy(sealed'[n], state', commands)
    BY <1>2, <2>1, <2>3, CopyGrows
  <2>6. \A i \in DOMAIN Tail(pending) :
          Tail(pending)[i].write = "state" /\ ~ Lives(state, Tail(pending)[i].on) =>
              ~ Lives(state', Tail(pending)[i].on)
    BY <2>2 DEF Lives
  <2> QED BY <1>2, <2>1, <2>3, <2>4, <2>5, <2>6, DoneKeepsLineage
<1>5. CASE SealSnapshot
  <2>1. /\ pending # <<>> /\ w.write = "snapshot" /\ Done /\ state' = state
        /\ sealed' = IF w.id \in DOMAIN sealed THEN sealed ELSE Append(sealed, w.what)
    BY <1>5 DEF SealSnapshot, NextIs
  <2>2. FitWrite(w, state, commands)
    BY <1>2, <2>1, TailFits
  <2> HIDE DEF w
  <2>3. GoodCopy(w.what, state, commands)
    BY <2>1, <2>2 DEF FitWrite
  <2>4. IsList(sealed') /\ \A n \in DOMAIN sealed' : sealed'[n] = w.what \/
                              (n \in DOMAIN sealed /\ sealed'[n] = sealed[n])
    BY <1>2, <2>1, AppendToList
  <2>5. Grows(state, state')
    BY <2>1 DEF Grows
  <2> QED BY <1>2, <2>1, <2>3, <2>4, <2>5, DoneKeepsLineage
<1>6. CASE AppendToLedger \/ WriteReceipt
  <2>1. pending # <<>> /\ Done /\ state' = state /\ sealed' = sealed
    BY <1>6 DEF AppendToLedger, WriteReceipt, NextIs
  <2>2. Grows(state, state')
    BY <2>1 DEF Grows
  <2> QED BY <1>2, <2>1, <2>2, DoneKeepsLineage
<1>7. CASE Refuse \/ WriteFails \/ AppendFails \/ CommandDies \/ TearAppend
  <2>1. (Raise \/ Die) /\ state' = state /\ sealed' = sealed
    BY <1>7 DEF Refuse, WriteFails, AppendFails, CommandDies, TearAppend, TearLine, files
  <2> QED BY <2>1, StopKeepsLineage
<1> QED BY <1>3, <1>4, <1>5, <1>6, <1>7 DEF MakeWrite

\* LineageInv holds always.
LEMMA LineageKept == StoreSpec => []LineageInv
<1>1. StoreInit => LineageInv
  <2> SUFFICES ASSUME StoreInit PROVE LineageInv
    OBVIOUS
  <2>1. \A e \in ElectronIds : GoodState(state[e], e, state, commands)
    BY DEF StoreInit, GoodState, OwnReceipts, Absent
  <2>2. DOMAIN sealed = {} /\ IsList(sealed)
    BY NoWrites DEF StoreInit
  <2> QED BY <2>1, <2>2, NothingFits DEF StoreInit, LineageInv
<1>2. HealInv /\ LineageInv /\ [StoreNext]_storeVars => LineageInv'
  <2> SUFFICES ASSUME Shaped, LineageInv, [StoreNext]_storeVars PROVE LineageInv'
    BY DEF HealInv
  <2>1. CASE StoreNext
    BY <2>1, CommandKeepsLineage, WriteKeepsLineage DEF StoreNext
  <2>2. CASE UNCHANGED storeVars
    BY <2>2 DEF storeVars, files, LineageInv
  <2> QED BY <2>1, <2>2
<1> QED BY <1>1, <1>2, StoreHeals, PTL DEF StoreSpec
-----------------------------------------------------------------------------
(* Evidence: f stands for the snapshot files, v for the ledgers, c for the  *)
(* receipt files.                                                           *)

\* The ledger of o names snapshot n.
Named(o, n, v) == \E i \in DOMAIN v[o] : v[o][i].kind = "SNAPSHOT" /\ v[o][i].ref = n

Backed(n, l, f, v) ==
    n \in DOMAIN f /\ f[n].owner \in l /\ Named(f[n].owner, n, v)

Filed(p, c) == p \in ReceiptPaths /\ c[p] # NoReceipt

OfItsTick(r, e) == r.status = "VERIFIED" => r.receipt = {[of |-> e, tick |-> r.tick]}

\* All that the state r of e relies on is there.
Evident(r, e, f, v, c) ==
    /\ r.base # NoSnapshot => Backed(r.base, r.lineage, f, v)
    /\ \A p \in r.receipt : Filed(p, c)
    /\ OfItsTick(r, e)

IsNaming(w, o, n) ==
    w.write = "append" /\ w.on = o /\ w.what.kind = "SNAPSHOT" /\ w.what.ref = n

\* It is there, or the list makes it first.
SnapshotAhead(q, n, o, f) ==
    \/ n \in DOMAIN f /\ f[n].owner = o
    \/ 1 \in DOMAIN q /\ q[1].write = "snapshot" /\ q[1].id = n /\ q[1].what.owner = o

NameAhead(q, i, o, n, v) ==
    Named(o, n, v) \/ \E j \in DOMAIN q : j < i /\ IsNaming(q[j], o, n)

ReceiptAhead(q, i, p, c) ==
    /\ p \in ReceiptPaths
    /\ Filed(p, c) \/ \E j \in DOMAIN q : j < i /\ q[j].write = "receipt" /\ q[j].at = p

\* All that the state r of e relies on will be there when place i is reached.
EvidentAt(r, e, q, i, f, v, c) ==
    /\ r.base # NoSnapshot =>
          \E o \in ElectronIds :
             /\ o \in r.lineage
             /\ SnapshotAhead(q, r.base, o, f) /\ NameAhead(q, i, o, r.base, v)
    /\ \A p \in r.receipt : ReceiptAhead(q, i, p, c)
    /\ OfItsTick(r, e)

After(w, s) == Changed(s[w.on], w.what)

ReadyWrite(q, i, s, f, v, c) ==
    /\ q[i].write = "state" => EvidentAt(After(q[i], s), q[i].on, q, i, f, v, c)
    /\ q[i].write = "append" /\ q[i].what.kind = "EXECUTION_VERIFIED" =>
          ReceiptAhead(q, i, q[i].what.ref.path, c)
    /\ q[i].write = "receipt" => q[i].at \in ReceiptPaths /\ q[i].what # NoReceipt
    /\ q[i].write = "snapshot" =>
          /\ i = 1
          /\ \A p \in q[i].what.state.receipt : Filed(p, c)
          /\ q[i].id \in DOMAIN f => f[q[i].id] = q[i].what
          /\ q[i].id \notin DOMAIN f => q[i].id = Len(f) + 1

Ready(q, s, f, v, c) == \A i \in DOMAIN q : ReadyWrite(q, i, s, f, v, c)

\* A handler only marks electrons FAULTED.
BareWrite(w) ==
    \/ w.write = "state" /\ w.what = [status |-> "FAULTED"]
    \/ w.write = "append" /\ w.what.kind # "EXECUTION_VERIFIED"
    \/ w.write = "anchor"

Bare(q) == \A i \in DOMAIN q : BareWrite(q[i])

Attested(l, c) ==
    \A i \in DOMAIN l : l[i].kind = "EXECUTION_VERIFIED" => Filed(l[i].ref.path, c)

EvidenceInv ==
    /\ DOMAIN events = ElectronIds /\ DOMAIN receipts = ReceiptPaths
    /\ \A e \in ElectronIds :
          /\ IsList(events[e]) /\ Attested(events[e], receipts)
          /\ Evident(state[e], e, sealed, events, receipts)
    /\ \A n \in DOMAIN sealed : \A p \in sealed[n].state.receipt : Filed(p, receipts)
    /\ Ready(pending, state, sealed, events, receipts)
    /\ Bare(onError)

\* What a write may do to the files, and what write w must do to them.
Adds(w, f, f2, v, v2, c, c2) ==
    /\ \A n \in DOMAIN f : n \in DOMAIN f2 /\ f2[n] = f[n]
    /\ \A o \in ElectronIds : \A n : Named(o, n, v) => Named(o, n, v2)
    /\ \A p : Filed(p, c) => Filed(p, c2)
    /\ w.write = "snapshot" => w.id \in DOMAIN f2 /\ f2[w.id] = w.what
    /\ \A o \in ElectronIds : \A n : IsNaming(w, o, n) => Named(o, n, v2)
    /\ w.write = "receipt" => Filed(w.at, c2)

SameButAnchor(r, r2) == DOMAIN r2 = DOMAIN r /\ \A g \in DOMAIN r \ {"anchor"} : r2[g] = r[g]

\* What is evident stays so when files are added, ...
LEMMA EvidentGrows ==
    ASSUME NEW w, NEW f, NEW f2, NEW v, NEW v2, NEW c, NEW c2,
           Adds(w, f, f2, v, v2, c, c2),
           \A n \in DOMAIN f : f[n].owner \in ElectronIds,
           NEW r, NEW e, Evident(r, e, f, v, c)
    PROVE  Evident(r, e, f2, v2, c2)
BY DEF Evident, Backed, Adds

\* ... and when the state changes in its anchor only.
LEMMA EvidentSame ==
    ASSUME NEW f, NEW v, NEW c, NEW e, NEW r, DOMAIN r = Fields,
           NEW r2, SameButAnchor(r, r2)
    PROVE  /\ Evident(r, e, f, v, c) => Evident(r2, e, f, v, c)
           /\ \A q, i : EvidentAt(r, e, q, i, f, v, c) => EvidentAt(r2, e, q, i, f, v, c)
<1>1. /\ r2.base = r.base /\ r2.lineage = r.lineage /\ r2.receipt = r.receipt
      /\ r2.status = r.status /\ r2.tick = r.tick
  BY DEF SameButAnchor, Fields
<1> QED BY <1>1 DEF Evident, EvidentAt, OfItsTick

\* A promise made at place i + 1 of a list holds at place i of its tail, once
\* the first write is done.
LEMMA PromisesShift ==
    ASSUME NEW q, IsList(q), q # <<>>, NEW u, u = Tail(q),
           NEW w, w = Head(q),
           NEW f, NEW f2, NEW v, NEW v2, NEW c, NEW c2,
           Adds(w, f, f2, v, v2, c, c2), NEW i \in DOMAIN u
    PROVE  /\ \A n, o : SnapshotAhead(q, n, o, f) => SnapshotAhead(u, n, o, f2)
           /\ \A n : \A o \in ElectronIds :
                 NameAhead(q, i + 1, o, n, v) => NameAhead(u, i, o, n, v2)
           /\ \A p : ReceiptAhead(q, i + 1, p, c) => ReceiptAhead(u, i, p, c2)
<1>1. /\ 1 \in DOMAIN q /\ w = q[1]
      /\ \A k \in DOMAIN u : k + 1 \in DOMAIN q /\ u[k] = q[k + 1]
      /\ \A k \in DOMAIN q : k > 1 => k - 1 \in DOMAIN u /\ u[k - 1] = q[k]
      /\ DOMAIN q \subseteq Nat \ {0} /\ DOMAIN u \subseteq Nat \ {0}
  <2>1. IsList(u)
    BY TailOfList
  <2> QED BY <2>1, TailOfList, ListShape
<1>2. ASSUME NEW n, NEW o, SnapshotAhead(q, n, o, f) PROVE SnapshotAhead(u, n, o, f2)
  BY <1>1, <1>2 DEF SnapshotAhead, Adds
<1>3. ASSUME NEW n, NEW o \in ElectronIds, NameAhead(q, i + 1, o, n, v)
      PROVE  NameAhead(u, i, o, n, v2)
  <2>1. CASE Named(o, n, v)
    BY <2>1 DEF NameAhead, Adds
  <2>2. CASE ~ Named(o, n, v)
    <3>1. PICK j \in DOMAIN q : j < i + 1 /\ IsNaming(q[j], o, n)
      BY <1>3, <2>2 DEF NameAhead
    <3>2. CASE j = 1
      BY <1>1, <3>1, <3>2 DEF NameAhead, Adds
    <3>3. CASE j > 1
      <4>1. j - 1 \in DOMAIN u /\ u[j - 1] = q[j] /\ j - 1 < i
        BY <1>1, <3>1, <3>3
      <4> QED BY <3>1, <4>1 DEF NameAhead
    <3> QED BY <1>1, <3>2, <3>3
  <2> QED BY <2>1, <2>2
<1>4. ASSUME NEW p, ReceiptAhead(q, i + 1, p, c) PROVE ReceiptAhead(u, i, p, c2)
  <2>1. CASE Filed(p, c)
    BY <1>4, <2>1 DEF ReceiptAhead, Adds
  <2>2. CASE ~ Filed(p, c)
    <3>1. PICK j \in DOMAIN q : j < i + 1 /\ q[j].write = "receipt" /\ q[j].at = p
      BY <1>4, <2>2 DEF ReceiptAhead
    <3>2. CASE j = 1
      BY <1>1, <1>4, <3>1, <3>2 DEF ReceiptAhead, Adds
    <3>3. CASE j > 1
      <4>1. j - 1 \in DOMAIN u /\ u[j - 1] = q[j] /\ j - 1 < i
        BY <1>1, <3>1, <3>3
      <4> QED BY <1>4, <3>1, <4>1 DEF ReceiptAhead
    <3> QED BY <1>1, <3>2, <3>3
  <2> QED BY <2>1, <2>2
<1> QED BY <1>2, <1>3, <1>4

\* The rest of a ready list is ready when the first write is done.
LEMMA TailReady ==
    ASSUME IsList(pending), pending # <<>>,
           NEW u, u = Tail(pending), NEW w, w = Head(pending),
           Adds(w, sealed, sealed', events, events', receipts, receipts'),
           Ready(pending, state, sealed, events, receipts),
           \A i \in DOMAIN u : u[i].write = "state" =>
               DOMAIN state[u[i].on] = Fields /\ SameButAnchor(state[u[i].on], state'[u[i].on])
    PROVE  Ready(u, state', sealed', events', receipts')
<1> SUFFICES ASSUME NEW i \in DOMAIN u PROVE ReadyWrite(u, i, state', sealed', events', receipts')
  BY DEF Ready
<1>1. i + 1 \in DOMAIN pending /\ u[i] = pending[i + 1] /\ i \in Nat \ {0}
  <2>1. IsList(u)
    BY TailOfList
  <2> QED BY <2>1, TailOfList, ListShape
<1>2. ReadyWrite(pending, i + 1, state, sealed, events, receipts)
  BY <1>1 DEF Ready
<1>3. /\ \A n, o : SnapshotAhead(pending, n, o, sealed) => SnapshotAhead(u, n, o, sealed')
      /\ \A n : \A o \in ElectronIds :
            NameAhead(pending, i + 1, o, n, events) => NameAhead(u, i, o, n, events')
      /\ \A p : ReceiptAhead(pending, i + 1, p, receipts) => ReceiptAhead(u, i, p, receipts')
  BY PromisesShift
<1>4. ASSUME u[i].write = "state"
      PROVE  EvidentAt(After(u[i], state'), u[i].on, u, i, sealed', events', receipts')
  <2> DEFINE e == u[i].on
             r == After(u[i], state)
  <2>1. EvidentAt(r, e, pending, i + 1, sealed, events, receipts)
    BY <1>1, <1>2, <1>4 DEF ReadyWrite
  <2>2. DOMAIN r = Fields /\ SameButAnchor(r, After(u[i], state'))
    <3>1. DOMAIN state[e] = Fields /\ SameButAnchor(state[e], state'[e])
      BY <1>4
    <3> QED BY <3>1, ChangedFields DEF After, SameButAnchor
  <2> HIDE DEF r, e
  <2>3. EvidentAt(r, e, u, i, sealed', events', receipts')
    BY <1>3, <2>1 DEF EvidentAt
  <2>4. EvidentAt(After(u[i], state'), e, u, i, sealed', events', receipts')
    BY <2>2, <2>3, EvidentSame
  <2> QED BY <2>4 DEF e
<1>5. u[i].write # "snapshot"
  <2>1. i + 1 # 1
    BY <1>1
  <2> QED BY <1>1, <1>2, <2>1 DEF ReadyWrite
<1>6. u[i].write = "append" /\ u[i].what.kind = "EXECUTION_VERIFIED" =>
          ReceiptAhead(u, i, u[i].what.ref.path, receipts')
  BY <1>1, <1>2, <1>3 DEF ReadyWrite
<1>7. u[i].write = "receipt" => u[i].at \in ReceiptPaths /\ u[i].what # NoReceipt
  BY <1>1, <1>2 DEF ReadyWrite
<1> QED BY <1>4, <1>5, <1>6, <1>7 DEF ReadyWrite

-----------------------------------------------------------------------------
\* What is evident already stays so at every place of every list.
LEMMA EvidentAlready ==
    ASSUME NEW f, NEW v, NEW c, \A n \in DOMAIN f : f[n].owner \in ElectronIds,
           NEW r, NEW e, Evident(r, e, f, v, c),
           NEW r2, r2.base = r.base, r2.lineage = r.lineage, r2.receipt = r.receipt,
           OfItsTick(r2, e)
    PROVE  \A q, i : EvidentAt(r2, e, q, i, f, v, c)
<1>1. ASSUME NEW q, r2.base # NoSnapshot
      PROVE  \E o \in ElectronIds : o \in r2.lineage /\ SnapshotAhead(q, r2.base, o, f)
                                    /\ Named(o, r2.base, v)
  <2>1. Backed(r.base, r.lineage, f, v)
    BY <1>1 DEF Evident
  <2> QED BY <2>1 DEF Backed, SnapshotAhead
<1>2. \A p \in r2.receipt : Filed(p, c)
  BY DEF Evident
<1> QED BY <1>1, <1>2 DEF EvidentAt, NameAhead, ReceiptAhead, Filed

\* A list that relies on nothing is ready.
LEMMA BareReady ==
    ASSUME NEW s, NEW f, NEW v, NEW c, \A n \in DOMAIN f : f[n].owner \in ElectronIds,
           NEW q, Bare(q),
           \A i \in DOMAIN q : q[i].on \in ElectronIds,
           \A e \in ElectronIds : DOMAIN s[e] = Fields /\ Evident(s[e], e, f, v, c)
    PROVE  Ready(q, s, f, v, c)
<1> SUFFICES ASSUME NEW i \in DOMAIN q PROVE ReadyWrite(q, i, s, f, v, c)
  BY DEF Ready
<1>1. BareWrite(q[i])
  BY DEF Bare
<1>2. ASSUME q[i].write = "state" PROVE EvidentAt(After(q[i], s), q[i].on, q, i, f, v, c)
  <2> DEFINE e == q[i].on
             r2 == After(q[i], s)
  <2>1. q[i].what = [status |-> "FAULTED"]
    BY <1>1, <1>2 DEF BareWrite
  <2>2. DOMAIN s[e] = Fields /\ Evident(s[e], e, f, v, c)
    OBVIOUS
  <2>3. DOMAIN q[i].what = {"status"} /\ q[i].what.status = "FAULTED"
    BY <2>1
  <2>4. /\ r2.base = s[e].base /\ r2.lineage = s[e].lineage
        /\ r2.receipt = s[e].receipt /\ r2.status = "FAULTED"
    BY <2>2, <2>3, ChangedFields DEF After, Fields
  <2> HIDE DEF r2, e
  <2>5. OfItsTick(r2, e)
    BY <2>4 DEF OfItsTick
  <2>6. EvidentAt(r2, e, q, i, f, v, c)
    BY <2>2, <2>4, <2>5, EvidentAlready
  <2> QED BY <2>6 DEF r2, e
<1> QED BY <1>1, <1>2 DEF ReadyWrite, BareWrite

\* One event relies on nothing, ...
LEMMA LoggedBare ==
    ASSUME NEW e, NEW kind, kind # "EXECUTION_VERIFIED", NEW ref
    PROVE  Bare(Logged(e, kind, ref))
<1> DEFINE q == Logged(e, kind, ref)
<1>1. DOMAIN q = 1 .. 2 /\ q[1] = Event(e, kind, ref) /\ q[2] = Anchor(e)
  BY LoggedList
<1> HIDE DEF q
<1>2. BareWrite(q[1]) /\ BareWrite(q[2])
  BY <1>1 DEF BareWrite, Event, Anchor
<1> QED BY <1>1, <1>2 DEF Bare, q

\* ... nor does a fault, ...
LEMMA FaultBare ==
    ASSUME NEW e, NEW kind \in Faults PROVE Bare(FaultWrites(e, kind))
<1> DEFINE q == FaultWrites(e, kind)
<1>1. /\ DOMAIN q = 1 .. 3
      /\ q[1] = Set(e, [status |-> "FAULTED"])
      /\ q[2] = Event(e, kind, NoSnapshot) /\ q[3] = Anchor(e)
  BY FaultList
<1> HIDE DEF q
<1>2. BareWrite(q[1]) /\ BareWrite(q[2]) /\ BareWrite(q[3])
  BY <1>1 DEF BareWrite, Event, Anchor, Set, Faults
<1> QED BY <1>1, <1>2 DEF Bare, q

\* ... nor the empty list.
LEMMA NothingBare == Bare(<<>>)
BY NoWrites DEF Bare

\* The empty list is ready.
LEMMA NothingReady == \A s, f, v, c : Ready(<<>>, s, f, v, c)
BY NoWrites DEF Ready

\* An accepted execution files the receipt before anything refers to it.
LEMMA VerifiedReady ==
    ASSUME NEW s, NEW f, NEW v, NEW c, \A n \in DOMAIN f : f[n].owner \in ElectronIds,
           NEW e \in ElectronIds, DOMAIN s[e] = Fields, Evident(s[e], e, f, v, c),
           NEW p \in ReceiptPaths, p = [of |-> e, tick |-> s[e].tick],
           NEW content, content # NoReceipt
    PROVE  Ready(VerifiedWrites(e, p, content), s, f, v, c)
<1> DEFINE q == VerifiedWrites(e, p, content)
           change == [status |-> "VERIFIED", receipt |-> {p}]
           ref == [path |-> p, content |-> content]
           r == After(Set(e, change), s)
<1>1. /\ DOMAIN q = 1 .. 4
      /\ q[1] = Receipt(p, content) /\ q[2] = Set(e, change)
      /\ q[3] = Event(e, "EXECUTION_VERIFIED", ref) /\ q[4] = Anchor(e)
  BY VerifiedList
<1>2. /\ DOMAIN change = {"status", "receipt"}
      /\ change.status = "VERIFIED" /\ change.receipt = {p} /\ ref.path = p
  OBVIOUS
<1> HIDE DEF q, change, ref
<1>3. /\ r.base = s[e].base /\ r.lineage = s[e].lineage /\ r.tick = s[e].tick
      /\ r.receipt = {p} /\ r.status = "VERIFIED"
  BY <1>2, ChangedFields DEF After, Set, Fields
<1> HIDE DEF r
<1>4. ReceiptAhead(q, 2, p, c) /\ ReceiptAhead(q, 3, p, c)
  <2>1. 1 \in DOMAIN q /\ q[1].write = "receipt" /\ q[1].at = p
    BY <1>1 DEF Receipt
  <2> QED BY <2>1 DEF ReceiptAhead
<1>5. EvidentAt(r, e, q, 2, f, v, c)
  <2>1. r.base # NoSnapshot =>
          \E o \in ElectronIds :
             o \in r.lineage /\ SnapshotAhead(q, r.base, o, f) /\ NameAhead(q, 2, o, r.base, v)
    BY <1>3 DEF Evident, Backed, SnapshotAhead, NameAhead
  <2> QED BY <1>3, <1>4, <2>1 DEF EvidentAt, OfItsTick
<1>6. ReadyWrite(q, 1, s, f, v, c)
  BY <1>1 DEF ReadyWrite, Receipt
<1>7. ReadyWrite(q, 2, s, f, v, c)
  <2>1. q[2].on = e /\ q[2].write = "state" /\ After(q[2], s) = r
    BY <1>1 DEF Set, r
  <2> QED BY <1>5, <2>1 DEF ReadyWrite
<1>8. ReadyWrite(q, 3, s, f, v, c)
  <2>1. q[3].write = "append" /\ q[3].what.ref = ref
    BY <1>1 DEF Event
  <2> QED BY <1>2, <1>4, <2>1 DEF ReadyWrite
<1>9. ReadyWrite(q, 4, s, f, v, c)
  BY <1>1 DEF ReadyWrite, Anchor
<1> QED BY <1>1, <1>6, <1>7, <1>8, <1>9 DEF Ready, q

\* The four writes of a snapshot, at the head of whatever list.
LEMMA SealingReady ==
    ASSUME NEW s, NEW v, NEW c, NEW e \in ElectronIds,
           NEW n, IsSnapshotId(n, FrozenCopy(e)), DOMAIN state[e] = Fields,
           DOMAIN s[e] = Fields, e \in s[e].lineage,
           s[e].receipt = state[e].receipt, s[e].tick = state[e].tick,
           \A p \in state[e].receipt : Filed(p, c),
           OfItsTick(state[e], e),
           NEW q, 1 .. 4 \subseteq DOMAIN q,
           q[1] = Sealed(e, n, FrozenCopy(e)), q[2] = Event(e, "SNAPSHOT", n),
           q[3] = Anchor(e), q[4] = Thawed(e, n)
    PROVE  /\ \A i \in 1 .. 4 : ReadyWrite(q, i, s, sealed, v, c)
           /\ SnapshotAhead(q, n, e, sealed)
           /\ \A i \in Nat : i > 2 => NameAhead(q, i, e, n, v)
<1> DEFINE copy == FrozenCopy(e)
           change == [base |-> n, status |-> Thaw(state[e].status)]
           r == After(Thawed(e, n), s)
<1>1. copy.owner = e /\ copy.state.receipt = state[e].receipt
  BY DEF FrozenCopy, Fields
<1>2. /\ n \in DOMAIN sealed => sealed[n] = copy
      /\ n \notin DOMAIN sealed => n = Len(sealed) + 1
  BY DEF IsSnapshotId
<1> HIDE DEF copy
<1>3. /\ DOMAIN change = {"base", "status"} /\ change.base = n
      /\ change.status = Thaw(state[e].status)
      /\ change.status = "VERIFIED" => state[e].status = "VERIFIED"
  BY DEF Thaw
<1>4. /\ q[1].write = "snapshot" /\ q[1].id = n /\ q[1].what = copy
      /\ IsNaming(q[2], e, n) /\ q[2].write = "append" /\ q[2].what.kind = "SNAPSHOT"
      /\ q[3].write = "anchor"
      /\ q[4].write = "state" /\ q[4].on = e /\ q[4].what = change
  BY DEF Sealed, IsNaming, Event, Anchor, Thawed, Set, copy
<1> HIDE DEF change
<1>5. /\ r.base = n /\ r.lineage = s[e].lineage /\ r.tick = s[e].tick
      /\ r.receipt = s[e].receipt /\ r.status = change.status /\ r = After(q[4], s)
  <2>1. r = Changed(s[e], change)
    BY DEF After, Thawed, Set, change
  <2>2. r = After(q[4], s)
    OBVIOUS
  <2>3. \A g \in Fields : r[g] = IF g \in DOMAIN change THEN change[g] ELSE s[e][g]
    BY <2>1, ChangedFields
  <2> HIDE DEF r
  <2>4. r.lineage = s[e].lineage /\ r.tick = s[e].tick /\ r.receipt = s[e].receipt
    BY <1>3, <2>3 DEF Fields
  <2>5. r.base = change.base /\ r.status = change.status
    BY <1>3, <2>3 DEF Fields
  <2> QED BY <1>3, <2>2, <2>4, <2>5
<1> HIDE DEF r
<1>6. SnapshotAhead(q, n, e, sealed)
  BY <1>1, <1>4 DEF SnapshotAhead
<1>7. ASSUME NEW i \in Nat, i > 2 PROVE NameAhead(q, i, e, n, v)
  BY <1>4, <1>7 DEF NameAhead
<1>8. ReadyWrite(q, 1, s, sealed, v, c)
  BY <1>1, <1>2, <1>4 DEF ReadyWrite
<1>9. ReadyWrite(q, 2, s, sealed, v, c) /\ ReadyWrite(q, 3, s, sealed, v, c)
  BY <1>4 DEF ReadyWrite
<1>10. EvidentAt(r, e, q, 4, sealed, v, c)
  <2>1. NameAhead(q, 4, e, n, v)
    BY <1>7
  <2>2. \A p \in r.receipt : ReceiptAhead(q, 4, p, c)
    BY <1>5 DEF ReceiptAhead, Filed
  <2>3. OfItsTick(r, e)
    BY <1>3, <1>5 DEF OfItsTick
  <2> QED BY <1>5, <1>6, <2>1, <2>2, <2>3 DEF EvidentAt
<1>11. ReadyWrite(q, 4, s, sealed, v, c)
  BY <1>4, <1>5, <1>10 DEF ReadyWrite
<1> QED BY <1>6, <1>7, <1>8, <1>9, <1>11

\* What commands need to know of the files when they start.
LEMMA EvidenceNow ==
    ASSUME Shaped, LineageInv, EvidenceInv, NEW e \in ElectronIds
    PROVE  /\ DOMAIN state[e] = Fields
           /\ GoodState(state[e], e, state, commands)
           /\ Evident(state[e], e, sealed, events, receipts)
           /\ \A n \in DOMAIN sealed : sealed[n].owner \in ElectronIds
           /\ Exists(e) => e \in state[e].lineage
BY DEF Shaped, LineageInv, EvidenceInv, GoodCopy, GoodState, Family, Exists

\* A snapshot's writes are ready, ...
LEMMA SnapshotReady ==
    ASSUME Shaped, LineageInv, EvidenceInv, NEW e \in ElectronIds, Exists(e),
           NEW n, IsSnapshotId(n, FrozenCopy(e)),
           NEW s, DOMAIN s[e] = Fields, s[e].lineage = state[e].lineage,
           s[e].receipt = state[e].receipt, s[e].tick = state[e].tick
    PROVE  Ready(SnapshotWrites(e, n), s, sealed, events, receipts)
<1> DEFINE q == SnapshotWrites(e, n)
           copy == FrozenCopy(e)
<1>1. /\ DOMAIN q = 1 .. 4
      /\ q[1] = Sealed(e, n, FrozenCopy(e)) /\ q[2] = Event(e, "SNAPSHOT", n)
      /\ q[3] = Anchor(e) /\ q[4] = Thawed(e, n)
  BY SnapshotList
<1> HIDE DEF q
<1>2. /\ e \in s[e].lineage
      /\ \A p \in state[e].receipt : Filed(p, receipts)
      /\ OfItsTick(state[e], e) /\ DOMAIN state[e] = Fields
  BY EvidenceNow DEF Evident
<1>3. \A i \in 1 .. 4 : ReadyWrite(q, i, s, sealed, events, receipts)
  BY <1>1, <1>2, SealingReady
<1> QED BY <1>1, <1>3 DEF Ready, q

\* ... and so are a fork's.
LEMMA ForkReady ==
    ASSUME Shaped, LineageInv, EvidenceInv, NEW e \in ElectronIds, Exists(e),
           NEW child \in ElectronIds, NEW n, IsSnapshotId(n, FrozenCopy(e)),
           NEW s, DOMAIN s[e] = Fields, s[e].lineage = state[e].lineage,
           s[e].receipt = state[e].receipt, s[e].tick = state[e].tick,
           DOMAIN s[child] = Fields
    PROVE  Ready(ForkWrites(e, child, n), s, sealed, events, receipts)
<1> DEFINE q == ForkWrites(e, child, n)
           born == Born(e, child, n)
           r == After(Set(child, born), s)
<1>1. /\ DOMAIN q = 1 .. 9
      /\ q[1] = Sealed(e, n, FrozenCopy(e)) /\ q[2] = Event(e, "SNAPSHOT", n)
      /\ q[3] = Anchor(e) /\ q[4] = Thawed(e, n)
      /\ q[5] = Set(child, born) /\ q[6] = Event(child, "CLONE_GENESIS", n)
      /\ q[7] = Anchor(child) /\ q[8] = Event(e, "FORK", n) /\ q[9] = Anchor(e)
  BY ForkList
<1> HIDE DEF q
<1>2. /\ e \in state[e].lineage /\ e \in s[e].lineage
      /\ \A p \in state[e].receipt : Filed(p, receipts)
      /\ OfItsTick(state[e], e) /\ DOMAIN state[e] = Fields
  BY EvidenceNow DEF Evident
<1>3. 1 .. 4 \subseteq DOMAIN q
  BY <1>1
<1>4. /\ \A i \in 1 .. 4 : ReadyWrite(q, i, s, sealed, events, receipts)
      /\ SnapshotAhead(q, n, e, sealed)
      /\ \A i \in Nat : i > 2 => NameAhead(q, i, e, n, events)
  BY <1>1, <1>2, <1>3, SealingReady
<1>5. /\ DOMAIN born = Fields /\ born.base = n /\ born.status = "READY"
      /\ born.receipt = state[e].receipt
      /\ born.lineage = state[e].lineage \cup {child}
  BY <1>2 DEF Born, Fields
<1> HIDE DEF born
<1>6. /\ r.base = n /\ r.status = "READY" /\ r.receipt = state[e].receipt
      /\ e \in r.lineage
  <2>1. r = Changed(s[child], born)
    BY DEF After, Set
  <2>2. \A g \in Fields : r[g] = born[g]
    BY <1>5, <2>1, ChangedFields
  <2> HIDE DEF r
  <2> QED BY <1>2, <1>5, <2>2 DEF Fields
<1>7. q[5].write = "state" /\ q[5].on = child /\ After(q[5], s) = r
  BY <1>1 DEF Set
<1> HIDE DEF r
<1>8. EvidentAt(r, child, q, 5, sealed, events, receipts)
  <2>1. NameAhead(q, 5, e, n, events)
    BY <1>4
  <2>2. \A p \in r.receipt : ReceiptAhead(q, 5, p, receipts)
    BY <1>2, <1>6 DEF ReceiptAhead, Filed
  <2> QED BY <1>4, <1>6, <2>1, <2>2 DEF EvidentAt, OfItsTick
<1>9. ReadyWrite(q, 5, s, sealed, events, receipts)
  BY <1>7, <1>8 DEF ReadyWrite
<1>10. \A i \in 6 .. 9 : ReadyWrite(q, i, s, sealed, events, receipts)
  <2>1. /\ q[6].write = "append" /\ q[6].what.kind = "CLONE_GENESIS"
        /\ q[7].write = "anchor" /\ q[9].write = "anchor"
        /\ q[8].write = "append" /\ q[8].what.kind = "FORK"
    BY <1>1 DEF Event, Anchor
  <2> QED BY <2>1 DEF ReadyWrite
<1> QED BY <1>1, <1>4, <1>9, <1>10 DEF Ready, q

\* A command whose writes are ready keeps EvidenceInv.
LEMMA StartKeepsEvidence ==
    ASSUME Shaped, EvidenceInv, NEW e \in ElectronIds,
           NEW change, NEW rest, NEW handler, Start(e, change, rest, handler),
           NEW r, r = Changed(state[e], change),
           Evident(r, e, sealed, events, receipts),
           NEW s, s = [state EXCEPT ![e] = r],
           Ready(rest, s, sealed, events, receipts), Bare(handler)
    PROVE  EvidenceInv'
<1>1. /\ pending' = rest /\ onError' = handler /\ sealed' = sealed
      /\ events' = events /\ receipts' = receipts
      /\ state' = s /\ DOMAIN state = ElectronIds
  BY DEF Start, Shaped
<1>2. \A x \in ElectronIds : state'[x] = IF x = e THEN r ELSE state[x]
  BY <1>1
<1>3. \A x \in ElectronIds : Evident(state'[x], x, sealed, events, receipts)
  BY <1>2 DEF EvidenceInv
<1> QED BY <1>1, <1>3 DEF EvidenceInv

\* A command that changes neither base, lineage nor receipt and does not verify.
LEMMA StartWithBare ==
    ASSUME Shaped, LineageInv, EvidenceInv, NEW e \in ElectronIds,
           NEW change, NEW rest, NEW handler, Start(e, change, rest, handler),
           NEW r, r = Changed(state[e], change),
           Evident(r, e, sealed, events, receipts),
           Bare(rest), Bare(handler),
           \A i \in DOMAIN rest : rest[i].on \in ElectronIds
    PROVE  EvidenceInv'
<1> DEFINE s == [state EXCEPT ![e] = r]
<1>1. \A x \in ElectronIds : s[x] = IF x = e THEN r ELSE state[x]
  BY DEF Shaped
<1> HIDE DEF s
<1>2. DOMAIN r = Fields
  BY EvidenceNow, ChangedFields
<1>3. \A x \in ElectronIds :
        DOMAIN s[x] = Fields /\ Evident(s[x], x, sealed, events, receipts)
  BY <1>1, <1>2, EvidenceNow
<1>4. \A n \in DOMAIN sealed : sealed[n].owner \in ElectronIds
  BY EvidenceNow
<1>5. Ready(rest, s, sealed, events, receipts)
  BY <1>3, <1>4, BareReady
<1> QED BY <1>5, StartKeepsEvidence DEF s

\* Such a change leaves the electron evident.
LEMMA PlainEvident ==
    ASSUME Shaped, LineageInv, EvidenceInv, NEW e \in ElectronIds,
           NEW change,
           DOMAIN change \subseteq {"status", "suspended", "retired", "tick"},
           "status" \in DOMAIN change, change.status # "VERIFIED",
           NEW r, r = Changed(state[e], change)
    PROVE  /\ Evident(r, e, sealed, events, receipts) /\ DOMAIN r = Fields
           /\ r.lineage = state[e].lineage /\ r.receipt = state[e].receipt
           /\ "tick" \notin DOMAIN change => r.tick = state[e].tick
<1>1. DOMAIN state[e] = Fields /\ Evident(state[e], e, sealed, events, receipts)
  BY EvidenceNow
<1>2. /\ DOMAIN r = Fields /\ r.base = state[e].base
      /\ r.lineage = state[e].lineage /\ r.receipt = state[e].receipt
      /\ r.status # "VERIFIED"
      /\ "tick" \notin DOMAIN change => r.tick = state[e].tick
  BY <1>1, ChangedFields DEF Fields
<1>3. Evident(r, e, sealed, events, receipts)
  BY <1>1, <1>2 DEF Evident, OfItsTick
<1> QED BY <1>2, <1>3

\* One event and a fault are writes to the one electron.
LEMMA LoggedOn ==
    ASSUME NEW e \in ElectronIds, NEW kind, NEW ref
    PROVE  \A i \in DOMAIN Logged(e, kind, ref) : Logged(e, kind, ref)[i].on \in ElectronIds
BY LoggedHalts DEF Halting, Halts

\* (a fault)
LEMMA FaultOn ==
    ASSUME NEW e \in ElectronIds, NEW kind
    PROVE  \A i \in DOMAIN FaultWrites(e, kind) : FaultWrites(e, kind)[i].on \in ElectronIds
BY FaultHalts DEF Halting, Halts

\* The commands keep EvidenceInv.
LEMMA CommandKeepsEvidence ==
    ASSUME Shaped, LineageInv, EvidenceInv, NEW e \in ElectronIds, Command(e)
    PROVE  EvidenceInv'
<1>1. /\ DOMAIN state[e] = Fields
      /\ GoodState(state[e], e, state, commands)
      /\ Evident(state[e], e, sealed, events, receipts)
      /\ commands \in Nat
  BY EvidenceNow DEF LineageInv
<1>2. CASE CreateElectron(e)
  <2> DEFINE change == [status |-> "READY", lineage |-> {e}]
             r == Changed(state[e], change)
  <2>1. ~ Exists(e) /\ Start(e, change, Logged(e, "GENESIS", NoSnapshot), <<>>)
    BY <1>2 DEF CreateElectron
  <2>2. /\ DOMAIN change = {"status", "lineage"} /\ change.status = "READY"
    OBVIOUS
  <2> HIDE DEF change
  <2>3. r.receipt = {} /\ r.base = NoSnapshot /\ r.status = "READY"
    <3>1. state[e].receipt = {} /\ state[e].base = NoSnapshot
      BY <1>1, <2>1 DEF GoodState, Exists
    <3> QED BY <1>1, <2>2, <3>1, ChangedFields DEF Fields
  <2> HIDE DEF r
  <2>4. Evident(r, e, sealed, events, receipts)
    BY <2>3 DEF Evident, OfItsTick
  <2>5. Bare(Logged(e, "GENESIS", NoSnapshot))
    BY LoggedBare
  <2> QED BY <2>1, <2>4, <2>5, LoggedOn, NothingBare, StartWithBare DEF r
<1>3. ASSUME NEW n, NEW rest, Start(e, [status |-> "FROZEN"], rest, <<>>),
             \A s : /\ DOMAIN s[e] = Fields /\ s[e].lineage = state[e].lineage
                    /\ s[e].receipt = state[e].receipt /\ s[e].tick = state[e].tick
                    /\ \A x \in ElectronIds : DOMAIN s[x] = Fields
                    => Ready(rest, s, sealed, events, receipts)
      PROVE  EvidenceInv'
  <2> DEFINE change == [status |-> "FROZEN"]
             r == Changed(state[e], change)
             s == [state EXCEPT ![e] = r]
  <2>1. DOMAIN change = {"status"} /\ change.status = "FROZEN"
    OBVIOUS
  <2>2. Start(e, change, rest, <<>>)
    BY <1>3
  <2> HIDE DEF change
  <2>3. /\ Evident(r, e, sealed, events, receipts) /\ DOMAIN r = Fields
        /\ r.lineage = state[e].lineage /\ r.receipt = state[e].receipt
        /\ r.tick = state[e].tick
    BY <2>1, PlainEvident
  <2> HIDE DEF r
  <2>4. \A x \in ElectronIds : s[x] = IF x = e THEN r ELSE state[x]
    BY DEF Shaped
  <2>5. \A x \in ElectronIds : DOMAIN s[x] = Fields
    BY <2>3, <2>4 DEF Shaped
  <2> HIDE DEF s
  <2>6. Ready(rest, s, sealed, events, receipts)
    BY <1>3, <2>3, <2>4, <2>5
  <2> QED BY <2>2, <2>3, <2>6, NothingBare, StartKeepsEvidence DEF r, s
<1>4. CASE Snapshot(e)
  <2>1. PICK n \in SnapshotIds :
          /\ IsSnapshotId(n, FrozenCopy(e))
          /\ Start(e, [status |-> "FROZEN"], SnapshotWrites(e, n), <<>>)
    BY <1>4 DEF Snapshot
  <2>2. Exists(e)
    BY <1>4 DEF Snapshot
  <2> QED BY <1>3, <2>1, <2>2, SnapshotReady
<1>5. ASSUME NEW child \in ElectronIds, Fork(e, child) PROVE EvidenceInv'
  <2>1. PICK n \in SnapshotIds :
          /\ IsSnapshotId(n, FrozenCopy(e))
          /\ Start(e, [status |-> "FROZEN"], ForkWrites(e, child, n), <<>>)
    BY <1>5 DEF Fork
  <2>2. Exists(e)
    BY <1>5 DEF Fork, Operable
  <2> QED BY <1>3, <2>1, <2>2, ForkReady
<1>6. ASSUME NEW n \in SnapshotIds, RestoreElectron(e, n) PROVE EvidenceInv'
  <2> DEFINE change == RolledBack(e, n)
             r == Changed(state[e], change)
  <2>1. /\ n \in DOMAIN sealed /\ sealed[n].owner \in state[e].lineage
        /\ Authorized(n) /\ Start(e, change, Logged(e, "RESTORE", n), <<>>)
    BY <1>6 DEF RestoreElectron
  <2>2. GoodCopy(sealed[n], state, commands)
    BY <2>1 DEF LineageInv
  <2>3. /\ DOMAIN change = Fields
        /\ change.lineage = state[e].lineage /\ change.base = n
        /\ change.receipt = sealed[n].state.receipt
        /\ change.status \in {"SUSPENDED", "READY"}
    BY <2>2 DEF GoodCopy, RolledBack, Fields
  <2> HIDE DEF change
  <2>4. /\ r.lineage = state[e].lineage /\ r.base = n
        /\ r.receipt = sealed[n].state.receipt /\ r.status # "VERIFIED"
    BY <1>1, <2>3, ChangedFields DEF Fields
  <2> HIDE DEF r
  <2>5. Backed(n, state[e].lineage, sealed, events)
    BY <2>1 DEF Backed, Authorized, HasEvent, Named
  <2>6. \A p \in r.receipt : Filed(p, receipts)
    BY <2>1, <2>4 DEF EvidenceInv
  <2>7. Evident(r, e, sealed, events, receipts)
    BY <2>4, <2>5, <2>6 DEF Evident, OfItsTick
  <2>8. Bare(Logged(e, "RESTORE", n))
    BY LoggedBare
  <2> QED BY <2>1, <2>7, <2>8, LoggedOn, NothingBare, StartWithBare DEF r
<1>7. ASSUME NEW change, NEW kind, kind # "EXECUTION_VERIFIED",
             DOMAIN change \subseteq {"status", "suspended", "retired"},
             "status" \in DOMAIN change, change.status # "VERIFIED",
             Start(e, change, Logged(e, kind, NoSnapshot), <<>>)
      PROVE  EvidenceInv'
  <2>1. Evident(Changed(state[e], change), e, sealed, events, receipts)
    BY <1>7, PlainEvident
  <2>2. Bare(Logged(e, kind, NoSnapshot))
    BY <1>7, LoggedBare
  <2> QED BY <1>7, <2>1, <2>2, LoggedOn, NothingBare, StartWithBare
<1>8. CASE Suspend(e)
  BY <1>7, <1>8 DEF Suspend
<1>9. CASE Resume(e)
  BY <1>7, <1>9 DEF Resume
<1>10. CASE Retire(e)
  BY <1>7, <1>10 DEF Retire
<1> DEFINE run == [tick |-> state[e].tick + 1, status |-> "RUNNING"]
           running == Changed(state[e], run)
<1>11. /\ DOMAIN run = {"tick", "status"} /\ run.status = "RUNNING"
       /\ run.tick = state[e].tick + 1
  OBVIOUS
<1> HIDE DEF run
<1>12. /\ Evident(running, e, sealed, events, receipts) /\ DOMAIN running = Fields
       /\ running.tick = state[e].tick + 1
  BY <1>1, <1>11, PlainEvident, ChangedFields DEF Fields
<1> HIDE DEF running
<1>13. Bare(FaultWrites(e, "EXECUTION_ERROR"))
  BY FaultBare DEF Faults
<1>14. CASE AcceptExecution(e)
  <2> DEFINE path == [of |-> e, tick |-> state[e].tick + 1]
             s == [state EXCEPT ![e] = running]
  <2>1. /\ commands < MaxCommands
        /\ Start(e, run, VerifiedWrites(e, path, commands + 1),
                 FaultWrites(e, "EXECUTION_ERROR"))
    BY <1>14 DEF AcceptExecution, Execute, Start, run
  <2>2. s[e] = running
    BY DEF Shaped
  <2> HIDE DEF s
  <2>3. path \in ReceiptPaths
    <3>1. state[e].tick + 1 \in Ticks
      BY <1>1, <2>1, StoreAssumption DEF GoodState, Ticks
    <3> QED BY <3>1 DEF ReceiptPaths
  <2>4. path = [of |-> e, tick |-> s[e].tick] /\ commands + 1 # NoReceipt
    BY <1>1, <1>12, <2>2 DEF NoReceipt
  <2> HIDE DEF path
  <2>5. Ready(VerifiedWrites(e, path, commands + 1), s, sealed, events, receipts)
    BY <1>12, <2>2, <2>3, <2>4, EvidenceNow, VerifiedReady
  <2> QED BY <1>12, <1>13, <2>1, <2>5, StartKeepsEvidence DEF running, s
<1>15. CASE RejectExecution(e)
  <2>1. Start(e, run, FaultWrites(e, "EXECUTION_REJECTED"),
              FaultWrites(e, "EXECUTION_ERROR"))
    BY <1>15 DEF RejectExecution, Execute, run
  <2>2. Bare(FaultWrites(e, "EXECUTION_REJECTED"))
    BY FaultBare DEF Faults
  <2> QED BY <1>12, <1>13, <2>1, <2>2, FaultOn, StartWithBare DEF running
<1> QED BY <1>2, <1>4, <1>5, <1>6, <1>8, <1>9, <1>10, <1>14, <1>15 DEF Command

-----------------------------------------------------------------------------
\* A write that is done, given what it did to the files.
LEMMA DoneKeepsEvidence ==
    ASSUME Shaped, LineageInv, EvidenceInv, pending # <<>>, Done,
           Adds(Head(pending), sealed, sealed', events, events', receipts, receipts'),
           DOMAIN events' = ElectronIds, DOMAIN receipts' = ReceiptPaths,
           \A x \in ElectronIds :
              /\ IsList(events'[x]) /\ Attested(events'[x], receipts')
              /\ Evident(state'[x], x, sealed', events', receipts'),
           \A n \in DOMAIN sealed' : \A p \in sealed'[n].state.receipt : Filed(p, receipts'),
           \A x \in ElectronIds :
              \/ SameButAnchor(state[x], state'[x])
              \/ Head(pending).write = "state" /\ Head(pending).on = x
    PROVE  EvidenceInv'
<1>1. /\ pending' = Tail(pending) /\ onError' \in {<<>>, onError}
      /\ IsList(pending) /\ Ready(pending, state, sealed, events, receipts)
      /\ Bare(onError) /\ Fits(pending, state, commands) /\ Once(pending)
  BY DEF Done, LineageInv, Shaped, EvidenceInv
<1>2. /\ Fits(Tail(pending), state, commands)
      /\ Head(pending).write = "state" =>
            \A i \in DOMAIN Tail(pending) :
                Tail(pending)[i].write = "state" => Tail(pending)[i].on # Head(pending).on
  BY <1>1, TailFits
<1>3. ASSUME NEW u, u = Tail(pending), NEW w, w = Head(pending)
      PROVE  Ready(u, state', sealed', events', receipts')
  <2>1. \A i \in DOMAIN u : u[i].write = "state" =>
          /\ DOMAIN state[u[i].on] = Fields
          /\ SameButAnchor(state[u[i].on], state'[u[i].on])
    BY <1>2, <1>3 DEF Fits, FitWrite, Shaped
  <2>2. Adds(w, sealed, sealed', events, events', receipts, receipts')
    BY <1>3
  <2> QED BY <1>1, <1>3, <2>1, <2>2, TailReady
<1>4. Ready(Tail(pending), state', sealed', events', receipts')
  BY <1>3
<1>5. Bare(onError')
  BY <1>1, NothingBare
<1> QED BY <1>1, <1>4, <1>5 DEF EvidenceInv

\* A write to no file that evidence is in.
LEMMA NothingAdded ==
    ASSUME NEW w, w.write \in {"state", "anchor"}, NEW f, NEW v, NEW c
    PROVE  Adds(w, f, f, v, v, c, c)
BY DEF Adds, IsNaming

\* A state differs from itself in nothing.
LEMMA SameState == ASSUME NEW r PROVE SameButAnchor(r, r)
BY DEF SameButAnchor

\* Every write, and every way to stop, keeps EvidenceInv.
LEMMA WriteKeepsEvidence ==
    ASSUME Shaped, LineageInv, EvidenceInv,
           MakeWrite \/ WriteFails \/ AppendFails \/ CommandDies \/ TearAppend
    PROVE  EvidenceInv'
<1> DEFINE w == Head(pending)
<1>1. /\ DOMAIN state = ElectronIds
      /\ \A x \in ElectronIds :
            DOMAIN state[x] = Fields /\ Evident(state[x], x, sealed, events, receipts)
      /\ \A x \in ElectronIds : IsList(events[x]) /\ Attested(events[x], receipts)
      /\ DOMAIN events = ElectronIds /\ DOMAIN receipts = ReceiptPaths
      /\ \A n \in DOMAIN sealed : \A p \in sealed[n].state.receipt : Filed(p, receipts)
      /\ \A n \in DOMAIN sealed : sealed[n].owner \in ElectronIds
  BY DEF Shaped, EvidenceInv, LineageInv, GoodCopy
<1>2. ASSUME pending # <<>>
      PROVE  /\ 1 \in DOMAIN pending /\ w = pending[1] /\ w.on \in ElectronIds
             /\ ReadyWrite(pending, 1, state, sealed, events, receipts)
             /\ DOMAIN pending \subseteq Nat \ {0}
  BY <1>2, TailOfList, ListShape DEF Shaped, EvidenceInv, LineageInv, Ready, Fits, FitWrite
<1>3. CASE ReplaceState
  <2> DEFINE r == After(w, state)
  <2>1. /\ pending # <<>> /\ w.write = "state" /\ Done
        /\ sealed' = sealed /\ events' = events /\ receipts' = receipts
        /\ state' = [state EXCEPT ![w.on] = r]
    BY <1>3 DEF ReplaceState, NextIs, After
  <2>2. EvidentAt(r, w.on, pending, 1, sealed, events, receipts)
    BY <1>2, <2>1 DEF ReadyWrite
  <2> HIDE DEF r
  <2>3. Evident(r, w.on, sealed, events, receipts)
    <3>1. \A j \in DOMAIN pending : ~ j < 1
      BY <1>2, <2>1
    <3>2. r.base # NoSnapshot => Backed(r.base, r.lineage, sealed, events)
      <4> SUFFICES ASSUME r.base # NoSnapshot
                   PROVE  Backed(r.base, r.lineage, sealed, events)
        OBVIOUS
      <4>1. PICK o \in ElectronIds :
              /\ o \in r.lineage /\ SnapshotAhead(pending, r.base, o, sealed)
              /\ NameAhead(pending, 1, o, r.base, events)
        BY <2>2 DEF EvidentAt
      <4>2. r.base \in DOMAIN sealed /\ sealed[r.base].owner = o
        BY <1>2, <2>1, <4>1 DEF SnapshotAhead
      <4>3. Named(o, r.base, events)
        BY <3>1, <4>1 DEF NameAhead
      <4> QED BY <4>1, <4>2, <4>3 DEF Backed
    <3>3. \A p \in r.receipt : Filed(p, receipts)
      BY <2>2, <3>1 DEF EvidentAt, ReceiptAhead
    <3> QED BY <2>2, <3>2, <3>3 DEF Evident, EvidentAt
  <2>4. \A x \in ElectronIds : state'[x] = IF x = w.on THEN r ELSE state[x]
    BY <1>1, <2>1
  <2> HIDE DEF w
  <2>5. \A x \in ElectronIds : Evident(state'[x], x, sealed', events', receipts')
    BY <1>1, <2>1, <2>3, <2>4
  <2>6. \A x \in ElectronIds : SameButAnchor(state[x], state'[x]) \/ (w.write = "state" /\ w.on = x)
    BY <2>1, <2>4, SameState
  <2>7. Adds(w, sealed, sealed', events, events', receipts, receipts')
    BY <2>1, NothingAdded
  <2> QED BY <1>1, <2>1, <2>5, <2>6, <2>7, DoneKeepsEvidence DEF w
<1>4. CASE WriteAnchor
  <2>1. /\ pending # <<>> /\ w.write = "anchor" /\ Done
        /\ sealed' = sealed /\ events' = events /\ receipts' = receipts
        /\ state' = [state EXCEPT ![w.on].anchor = Len(events[w.on])]
    BY <1>4 DEF WriteAnchor, NextIs
  <2> HIDE DEF w
  <2>2. ASSUME NEW x \in ElectronIds PROVE SameButAnchor(state[x], state'[x])
    BY <1>1, <2>1 DEF SameButAnchor
  <2>3. \A x \in ElectronIds : Evident(state'[x], x, sealed', events', receipts')
    BY <1>1, <2>1, <2>2, EvidentSame
  <2>4. Adds(w, sealed, sealed', events, events', receipts, receipts')
    BY <2>1, NothingAdded
  <2> QED BY <1>1, <2>1, <2>2, <2>3, <2>4, DoneKeepsEvidence DEF w
<1>5. CASE AppendToLedger
  <2>1. /\ pending # <<>> /\ w.write = "append" /\ Done
        /\ state' = state /\ sealed' = sealed /\ receipts' = receipts
        /\ events' = [events EXCEPT ![w.on] = Append(@, w.what)]
    BY <1>5 DEF AppendToLedger, NextIs
  <2>2. /\ w.on \in ElectronIds
        /\ w.what.kind = "EXECUTION_VERIFIED" => Filed(w.what.ref.path, receipts)
    BY <1>2, <2>1 DEF ReadyWrite, ReceiptAhead
  <2> HIDE DEF w
  <2>3. /\ \A x \in ElectronIds :
              events'[x] = IF x = w.on THEN Append(events[x], w.what) ELSE events[x]
        /\ DOMAIN events' = ElectronIds
    BY <1>1, <2>1
  <2>4. ASSUME NEW x \in ElectronIds
        PROVE  /\ IsList(events'[x])
               /\ Attested(events'[x], receipts)
               /\ \A i \in DOMAIN events[x] :
                     i \in DOMAIN events'[x] /\ events'[x][i] = events[x][i]
               /\ x = w.on => \E i \in DOMAIN events'[x] : events'[x][i] = w.what
    <3>1. CASE x = w.on
      <4> DEFINE l == Append(events[x], w.what)
      <4>1. IsList(events[x]) /\ Attested(events[x], receipts) /\ events'[x] = l
        BY <1>1, <2>3, <3>1
      <4>2. /\ IsList(l)
            /\ \A i \in DOMAIN events[x] : i \in DOMAIN l /\ l[i] = events[x][i]
            /\ \A i \in DOMAIN l :
                  l[i] = w.what \/ (i \in DOMAIN events[x] /\ l[i] = events[x][i])
        BY <4>1, AppendToList
      <4>3. Len(events[x]) + 1 \in DOMAIN l /\ l[Len(events[x]) + 1] = w.what
        BY <4>1, AppendToList, ListShape
      <4> HIDE DEF l
      <4>4. Attested(l, receipts)
        BY <2>2, <4>1, <4>2 DEF Attested
      <4> QED BY <4>1, <4>2, <4>3, <4>4
    <3>2. CASE x # w.on
      BY <1>1, <2>3, <3>2
    <3> QED BY <3>1, <3>2
  <2>5. ASSUME NEW o \in ElectronIds, NEW n, Named(o, n, events) PROVE Named(o, n, events')
    <3>1. PICK i \in DOMAIN events[o] :
            events[o][i].kind = "SNAPSHOT" /\ events[o][i].ref = n
      BY <2>5 DEF Named
    <3>2. i \in DOMAIN events'[o] /\ events'[o][i] = events[o][i]
      BY <2>4
    <3> QED BY <3>1, <3>2 DEF Named
  <2>6. ASSUME NEW o \in ElectronIds, NEW n, IsNaming(w, o, n) PROVE Named(o, n, events')
    <3>1. o = w.on /\ w.what.kind = "SNAPSHOT" /\ w.what.ref = n
      BY <2>6 DEF IsNaming
    <3>2. PICK i \in DOMAIN events'[o] : events'[o][i] = w.what
      BY <2>4, <3>1
    <3> QED BY <3>1, <3>2 DEF Named
  <2>7. Adds(w, sealed, sealed', events, events', receipts, receipts')
    BY <2>1, <2>5, <2>6 DEF Adds
  <2>8. \A x \in ElectronIds : Evident(state'[x], x, sealed', events', receipts')
    BY <1>1, <2>1, <2>7, EvidentGrows
  <2>9. \A x \in ElectronIds : SameButAnchor(state[x], state'[x])
    BY <2>1, SameState
  <2> QED BY <1>1, <2>1, <2>3, <2>4, <2>7, <2>8, <2>9, DoneKeepsEvidence DEF w
<1>6. CASE SealSnapshot
  <2>1. /\ pending # <<>> /\ w.write = "snapshot" /\ Done
        /\ state' = state /\ events' = events /\ receipts' = receipts
        /\ sealed' = IF w.id \in DOMAIN sealed THEN sealed ELSE Append(sealed, w.what)
    BY <1>6 DEF SealSnapshot, NextIs
  <2>2. /\ \A p \in w.what.state.receipt : Filed(p, receipts)
        /\ w.id \in DOMAIN sealed => sealed[w.id] = w.what
        /\ w.id \notin DOMAIN sealed => w.id = Len(sealed) + 1
    BY <1>2, <2>1 DEF ReadyWrite
  <2>3. IsList(sealed)
    BY DEF LineageInv
  <2> HIDE DEF w
  <2>4. /\ \A n \in DOMAIN sealed : n \in DOMAIN sealed' /\ sealed'[n] = sealed[n]
        /\ w.id \in DOMAIN sealed' /\ sealed'[w.id] = w.what
        /\ \A n \in DOMAIN sealed' :
              sealed'[n] = w.what \/ (n \in DOMAIN sealed /\ sealed'[n] = sealed[n])
    <3>1. CASE w.id \in DOMAIN sealed
      BY <2>1, <2>2, <3>1
    <3>2. CASE w.id \notin DOMAIN sealed
      <4>1. sealed' = Append(sealed, w.what) /\ w.id = Len(sealed) + 1 /\ Len(sealed) \in Nat
        BY <2>1, <2>2, <2>3, <3>2, ListShape
      <4>2. /\ \A n \in DOMAIN sealed : n \in DOMAIN sealed' /\ sealed'[n] = sealed[n]
            /\ DOMAIN sealed' = 1 .. Len(sealed) + 1 /\ sealed'[Len(sealed) + 1] = w.what
            /\ \A n \in DOMAIN sealed' :
                  sealed'[n] = w.what \/ (n \in DOMAIN sealed /\ sealed'[n] = sealed[n])
        BY <2>3, <4>1, AppendToList
      <4> QED BY <4>1, <4>2
    <3> QED BY <3>1, <3>2
  <2>5. Adds(w, sealed, sealed', events, events', receipts, receipts')
    BY <2>1, <2>4 DEF Adds, IsNaming
  <2>6. \A x \in ElectronIds : Evident(state'[x], x, sealed', events', receipts')
    BY <1>1, <2>1, <2>5, EvidentGrows
  <2>7. \A x \in ElectronIds : SameButAnchor(state[x], state'[x])
    BY <2>1, SameState
  <2>8. \A n \in DOMAIN sealed' : \A p \in sealed'[n].state.receipt : Filed(p, receipts')
    BY <1>1, <2>1, <2>2, <2>4
  <2> QED BY <1>1, <2>1, <2>5, <2>6, <2>7, <2>8, DoneKeepsEvidence DEF w
<1>7. CASE WriteReceipt
  <2>1. /\ pending # <<>> /\ w.write = "receipt" /\ Done
        /\ state' = state /\ events' = events /\ sealed' = sealed
        /\ receipts' = [receipts EXCEPT ![w.at] = w.what]
    BY <1>7 DEF WriteReceipt, NextIs
  <2>2. w.at \in ReceiptPaths /\ w.what # NoReceipt
    BY <1>2, <2>1 DEF ReadyWrite
  <2> HIDE DEF w
  <2>3. \A p : Filed(p, receipts) => Filed(p, receipts')
    BY <1>1, <2>1, <2>2 DEF Filed
  <2>4. Filed(w.at, receipts') /\ DOMAIN receipts' = ReceiptPaths
    BY <1>1, <2>1, <2>2 DEF Filed
  <2>5. Adds(w, sealed, sealed', events, events', receipts, receipts')
    BY <2>1, <2>3, <2>4 DEF Adds, IsNaming
  <2>6. \A x \in ElectronIds : Evident(state'[x], x, sealed', events', receipts')
    BY <1>1, <2>1, <2>5, EvidentGrows
  <2>7. \A x \in ElectronIds : SameButAnchor(state[x], state'[x])
    BY <2>1, SameState
  <2>8. \A x \in ElectronIds : IsList(events'[x]) /\ Attested(events'[x], receipts')
    BY <1>1, <2>1, <2>3 DEF Attested
  <2>9. \A n \in DOMAIN sealed' : \A p \in sealed'[n].state.receipt : Filed(p, receipts')
    BY <1>1, <2>1, <2>3
  <2> QED BY <1>1, <2>1, <2>4, <2>5, <2>6, <2>7, <2>8, <2>9, DoneKeepsEvidence DEF w
<1>8. CASE Refuse \/ WriteFails \/ AppendFails \/ CommandDies \/ TearAppend
  <2>1. /\ Raise \/ Die
        /\ state' = state /\ sealed' = sealed /\ events' = events /\ receipts' = receipts
    BY <1>8 DEF Refuse, WriteFails, AppendFails, CommandDies, TearAppend, TearLine, files
  <2>2. pending' \in {<<>>, onError} /\ onError' = <<>>
    BY <2>1 DEF Raise, Die
  <2>3. Ready(onError, state, sealed, events, receipts)
    <3>1. Bare(onError) /\ \A i \in DOMAIN onError : onError[i].on \in ElectronIds
      BY DEF EvidenceInv, LineageInv, Fits, FitWrite
    <3> QED BY <1>1, <3>1, BareReady
  <2>4. Ready(pending', state', sealed', events', receipts') /\ Bare(onError')
    BY <2>1, <2>2, <2>3, NothingReady, NothingBare
  <2> QED BY <2>1, <2>4 DEF EvidenceInv
<1> QED BY <1>3, <1>4, <1>5, <1>6, <1>7, <1>8 DEF MakeWrite

\* EvidenceInv holds always.
LEMMA EvidenceKept == StoreSpec => []EvidenceInv
<1>1. StoreInit => EvidenceInv
  <2> SUFFICES ASSUME StoreInit PROVE EvidenceInv
    OBVIOUS
  <2>1. \A e \in ElectronIds :
          /\ IsList(events[e]) /\ Attested(events[e], receipts)
          /\ Evident(state[e], e, sealed, events, receipts)
    BY NoWrites DEF StoreInit, Attested, Evident, OfItsTick, Absent
  <2>2. DOMAIN sealed = {}
    BY NoWrites DEF StoreInit
  <2> QED BY <2>1, <2>2, NothingReady, NothingBare DEF StoreInit, EvidenceInv
<1>2. HealInv /\ LineageInv /\ EvidenceInv /\ [StoreNext]_storeVars => EvidenceInv'
  <2> SUFFICES ASSUME Shaped, LineageInv, EvidenceInv, [StoreNext]_storeVars
               PROVE  EvidenceInv'
    BY DEF HealInv
  <2>1. CASE StoreNext
    BY <2>1, CommandKeepsEvidence, WriteKeepsEvidence DEF StoreNext
  <2>2. CASE UNCHANGED storeVars
    BY <2>2 DEF storeVars, files, EvidenceInv
  <2> QED BY <2>1, <2>2
<1> QED BY <1>1, <1>2, StoreHeals, LineageKept, PTL DEF StoreSpec

\* EvidenceInv is at least EvidenceIsThere.
LEMMA EvidenceShows == EvidenceInv => EvidenceIsThere
<1> SUFFICES ASSUME EvidenceInv, NEW e \in ElectronIds
             PROVE  /\ LET n == state[e].base
                       IN  n # NoSnapshot =>
                              /\ n \in DOMAIN sealed
                              /\ sealed[n].owner \in state[e].lineage
                              /\ HasEvent(sealed[n].owner, "SNAPSHOT", n)
                    /\ \A p \in state[e].receipt : receipts[p] # NoReceipt
                    /\ state[e].status = "VERIFIED" =>
                          state[e].receipt = {[of |-> e, tick |-> state[e].tick]}
                    /\ \A i \in DOMAIN events[e] :
                          events[e][i].kind = "EXECUTION_VERIFIED" =>
                              receipts[events[e][i].ref.path] # NoReceipt
  BY DEF EvidenceIsThere, BasesAreSealed, VerifiedHasEvidence
<1>1. Evident(state[e], e, sealed, events, receipts) /\ Attested(events[e], receipts)
  BY DEF EvidenceInv
<1> QED BY <1>1 DEF Evident, Backed, Named, HasEvent, Filed, OfItsTick, Attested
-----------------------------------------------------------------------------
(* What audit recomputes, as long as nothing has failed.                    *)

Births == {"GENESIS", "CLONE_GENESIS"}

AppendsTo(w, e) == w.write = "append" /\ w.on = e

WillAppend(q, e) == \E i \in DOMAIN q : AppendsTo(q[i], e)

\* The list begins the ledger of e with a birth, and no state is left without.
Founds(q, e) ==
    /\ \A i \in DOMAIN q : AppendsTo(q[i], e) =>
          q[i].what.kind \in Births \/ \E j \in DOMAIN q : j < i /\ AppendsTo(q[j], e)
    /\ \A i \in DOMAIN q : q[i].write = "state" /\ q[i].on = e =>
          \E j \in DOMAIN q : j > i /\ AppendsTo(q[j], e)

\* The ledger l of e begins with a birth, or will.
Founded(e, s, l, q) ==
    /\ l # <<>> => l[1].kind \in Births
    /\ l = <<>> => Founds(q, e) /\ (Lives(s, e) => WillAppend(q, e))

Accepts(event, p, content) ==
    event.kind = "EXECUTION_VERIFIED" /\ event.ref = [path |-> p, content |-> content]

Records(w, p, content) == AppendsTo(w, p.of) /\ Accepts(w.what, p, content)

Accepted(l, p, content) == \E i \in DOMAIN l : Accepts(l[i], p, content)

\* The receipt in file p is named by a ledger, or will be.
Noted(p, v, c, q) ==
    c[p] # NoReceipt =>
        Accepted(v[p.of], p, c[p]) \/ \E i \in DOMAIN q : Records(q[i], p, c[p])

\* Each receipt the list writes it goes on to name.
Announced(q) ==
    \A i \in DOMAIN q : q[i].write = "receipt" =>
        \E j \in DOMAIN q : j > i /\ Records(q[j], q[i].at, q[i].what)

Clean ==
    /\ interrupted = {}
    /\ \A e \in ElectronIds : Founded(e, state, events[e], pending)
    /\ \A p \in ReceiptPaths : Noted(p, events, receipts, pending)
    /\ Announced(pending)

CleanInv == errors = 0 /\ crashes = 0 => Clean

Leaves(q, e) == \A i \in DOMAIN q : q[i].on # e

\* A list that leaves e alone has no birth to begin with.
LEMMA LeavesFounds == ASSUME NEW q, NEW e, Leaves(q, e) PROVE Founds(q, e)
BY DEF Leaves, Founds, AppendsTo

\* What the rest of a list inherits from the list.
LEMMA TailFounds ==
    ASSUME NEW q, IsList(q), q # <<>>, NEW u, u = Tail(q), NEW w, w = Head(q)
    PROVE  /\ \A e : Founds(q, e) /\ ~ AppendsTo(w, e) => Founds(u, e)
           /\ \A e : Founds(q, e) /\ w.write = "state" /\ w.on = e => WillAppend(u, e)
           /\ \A e : Founds(q, e) /\ AppendsTo(w, e) => w.what.kind \in Births
           /\ \A e : WillAppend(q, e) /\ ~ AppendsTo(w, e) => WillAppend(u, e)
           /\ Announced(q) => Announced(u)
           /\ Announced(q) /\ w.write = "receipt" =>
                 \E i \in DOMAIN u : Records(u[i], w.at, w.what)
           /\ \A p, c : (\E i \in DOMAIN q : Records(q[i], p, c)) =>
                 Records(w, p, c) \/ \E i \in DOMAIN u : Records(u[i], p, c)
<1>1. /\ 1 \in DOMAIN q /\ w = q[1]
      /\ \A k \in DOMAIN u : k + 1 \in DOMAIN q /\ u[k] = q[k + 1]
      /\ \A k \in DOMAIN q : k > 1 => k - 1 \in DOMAIN u /\ u[k - 1] = q[k]
      /\ DOMAIN q \subseteq Nat \ {0} /\ DOMAIN u \subseteq Nat \ {0}
  <2>1. IsList(u)
    BY TailOfList
  <2> QED BY <2>1, TailOfList, ListShape
<1>2. ASSUME NEW e, Founds(q, e), ~ AppendsTo(w, e) PROVE Founds(u, e)
  <2>1. ASSUME NEW i \in DOMAIN u, AppendsTo(u[i], e)
        PROVE  u[i].what.kind \in Births \/ \E j \in DOMAIN u : j < i /\ AppendsTo(u[j], e)
    <3>1. i + 1 \in DOMAIN q /\ u[i] = q[i + 1]
      BY <1>1
    <3>2. CASE \E j \in DOMAIN q : j < i + 1 /\ AppendsTo(q[j], e)
      <4>1. PICK j \in DOMAIN q : j < i + 1 /\ AppendsTo(q[j], e)
        BY <3>2
      <4>2. j # 1
        BY <1>1, <1>2, <4>1
      <4>3. j > 1
        BY <1>1, <4>2
      <4>4. j - 1 \in DOMAIN u /\ u[j - 1] = q[j] /\ j - 1 < i
        BY <1>1, <4>1, <4>3
      <4> QED BY <4>1, <4>4
    <3> QED BY <1>2, <2>1, <3>1, <3>2 DEF Founds
  <2>2. ASSUME NEW i \in DOMAIN u, u[i].write = "state", u[i].on = e
        PROVE  \E j \in DOMAIN u : j > i /\ AppendsTo(u[j], e)
    <3>1. i + 1 \in DOMAIN q /\ u[i] = q[i + 1]
      BY <1>1
    <3>2. PICK j \in DOMAIN q : j > i + 1 /\ AppendsTo(q[j], e)
      BY <1>2, <2>2, <3>1 DEF Founds
    <3>3. j - 1 \in DOMAIN u /\ u[j - 1] = q[j] /\ j - 1 > i
      BY <1>1, <3>2
    <3> QED BY <3>2, <3>3
  <2> QED BY <2>1, <2>2 DEF Founds
<1>3. ASSUME NEW e, Founds(q, e), w.write = "state", w.on = e PROVE WillAppend(u, e)
  <2>1. PICK j \in DOMAIN q : j > 1 /\ AppendsTo(q[j], e)
    BY <1>1, <1>3 DEF Founds
  <2>2. j - 1 \in DOMAIN u /\ u[j - 1] = q[j]
    BY <1>1, <2>1
  <2> QED BY <2>1, <2>2 DEF WillAppend
<1>4. ASSUME NEW e, Founds(q, e), AppendsTo(w, e) PROVE w.what.kind \in Births
  <2>1. \A j \in DOMAIN q : ~ j < 1
    BY <1>1
  <2> QED BY <1>1, <1>4, <2>1 DEF Founds
<1>5. ASSUME NEW e, WillAppend(q, e), ~ AppendsTo(w, e) PROVE WillAppend(u, e)
  <2>1. PICK j \in DOMAIN q : AppendsTo(q[j], e)
    BY <1>5 DEF WillAppend
  <2>2. j # 1
    BY <1>1, <1>5, <2>1
  <2>3. j > 1
    BY <1>1, <2>2
  <2>4. j - 1 \in DOMAIN u /\ u[j - 1] = q[j]
    BY <1>1, <2>3
  <2> QED BY <2>1, <2>4 DEF WillAppend
<1>6. ASSUME Announced(q) PROVE Announced(u)
  <2> SUFFICES ASSUME NEW i \in DOMAIN u, u[i].write = "receipt"
               PROVE  \E j \in DOMAIN u : j > i /\ Records(u[j], u[i].at, u[i].what)
    BY DEF Announced
  <2>1. i + 1 \in DOMAIN q /\ u[i] = q[i + 1]
    BY <1>1
  <2>2. PICK j \in DOMAIN q : j > i + 1 /\ Records(q[j], u[i].at, u[i].what)
    BY <1>6, <2>1 DEF Announced
  <2>3. j - 1 \in DOMAIN u /\ u[j - 1] = q[j] /\ j - 1 > i
    BY <1>1, <2>2
  <2> QED BY <2>2, <2>3
<1>7. ASSUME Announced(q), w.write = "receipt"
      PROVE  \E i \in DOMAIN u : Records(u[i], w.at, w.what)
  <2>1. PICK j \in DOMAIN q : j > 1 /\ Records(q[j], w.at, w.what)
    BY <1>1, <1>7 DEF Announced
  <2>2. j - 1 \in DOMAIN u /\ u[j - 1] = q[j]
    BY <1>1, <2>1
  <2> QED BY <2>1, <2>2
<1>8. ASSUME NEW p, NEW c, NEW i \in DOMAIN q, Records(q[i], p, c)
      PROVE  Records(w, p, c) \/ \E j \in DOMAIN u : Records(u[j], p, c)
  <2>1. CASE i = 1
    BY <1>1, <1>8, <2>1
  <2>2. CASE i > 1
    <3>1. i - 1 \in DOMAIN u /\ u[i - 1] = q[i]
      BY <1>1, <2>2
    <3> QED BY <1>8, <3>1
  <2> QED BY <1>1, <2>1, <2>2
<1> QED BY <1>2, <1>3, <1>4, <1>5, <1>6, <1>7, <1>8

\* The empty list appends and announces nothing.
LEMMA NothingFounds ==
    /\ \A e : Founds(<<>>, e) /\ ~ WillAppend(<<>>, e)
    /\ Announced(<<>>)
BY NoWrites DEF Founds, WillAppend, Announced

\* Lists that name no receipt.
NoReceipts(q) == \A i \in DOMAIN q : q[i].write # "receipt"

\* It has nothing to announce.
LEMMA NoReceiptsAnnounced == ASSUME NEW q, NoReceipts(q) PROVE Announced(q)
BY DEF NoReceipts, Announced

\* Each command's list of writes announces its receipts and leaves others
\* alone: one event, ...
LEMMA LoggedFounds ==
    ASSUME NEW e, NEW kind, NEW ref
    PROVE  /\ \A x : x # e => Leaves(Logged(e, kind, ref), x)
           /\ Announced(Logged(e, kind, ref))
           /\ kind \in Births =>
                 Founds(Logged(e, kind, ref), e) /\ WillAppend(Logged(e, kind, ref), e)
<1> DEFINE q == Logged(e, kind, ref)
<1>1. DOMAIN q = 1 .. 2 /\ q[1] = Event(e, kind, ref) /\ q[2] = Anchor(e)
  BY LoggedList
<1> HIDE DEF q
<1>2. /\ q[1].write = "append" /\ q[1].on = e /\ q[1].what.kind = kind
      /\ q[2].write = "anchor" /\ q[2].on = e
  BY <1>1 DEF Event, Anchor
<1>3. \A x : x # e => Leaves(q, x)
  BY <1>1, <1>2 DEF Leaves
<1>4. Announced(q)
  BY <1>1, <1>2, NoReceiptsAnnounced DEF NoReceipts
<1>5. kind \in Births => Founds(q, e) /\ WillAppend(q, e)
  BY <1>1, <1>2 DEF Founds, WillAppend, AppendsTo
<1> QED BY <1>3, <1>4, <1>5 DEF q

\* ... a fault, ...
LEMMA FaultFounds ==
    ASSUME NEW e, NEW kind
    PROVE  /\ \A x : x # e => Leaves(FaultWrites(e, kind), x)
           /\ Announced(FaultWrites(e, kind))
<1> DEFINE q == FaultWrites(e, kind)
<1>1. /\ DOMAIN q = 1 .. 3 /\ q[1] = Set(e, [status |-> "FAULTED"])
      /\ q[2] = Event(e, kind, NoSnapshot) /\ q[3] = Anchor(e)
  BY FaultList
<1> HIDE DEF q
<1>2. /\ q[1].on = e /\ q[2].on = e /\ q[3].on = e
      /\ q[1].write # "receipt" /\ q[2].write # "receipt" /\ q[3].write # "receipt"
  BY <1>1 DEF Event, Anchor, Set
<1> QED BY <1>1, <1>2, NoReceiptsAnnounced DEF NoReceipts, Leaves, q

\* ... an accepted execution, ...
LEMMA VerifiedFounds ==
    ASSUME NEW e, NEW p, p.of = e, NEW content
    PROVE  /\ \A x : x # e => Leaves(VerifiedWrites(e, p, content), x)
           /\ Announced(VerifiedWrites(e, p, content))
<1> DEFINE q == VerifiedWrites(e, p, content)
           change == [status |-> "VERIFIED", receipt |-> {p}]
           ref == [path |-> p, content |-> content]
<1>1. /\ DOMAIN q = 1 .. 4
      /\ q[1] = Receipt(p, content) /\ q[2] = Set(e, change)
      /\ q[3] = Event(e, "EXECUTION_VERIFIED", ref) /\ q[4] = Anchor(e)
  BY VerifiedList
<1> HIDE DEF q, change
<1>2. /\ q[1].on = e /\ q[1].at = p /\ q[1].what = content
      /\ q[2].on = e /\ q[3].on = e /\ q[4].on = e
      /\ q[2].write # "receipt" /\ q[3].write # "receipt" /\ q[4].write # "receipt"
  BY <1>1 DEF Event, Anchor, Set, Receipt
<1>3. Records(q[3], p, content)
  BY <1>1 DEF Event, Records, AppendsTo, Accepts
<1>4. Announced(q)
  BY <1>1, <1>2, <1>3 DEF Announced
<1>5. \A x : x # e => Leaves(q, x)
  BY <1>1, <1>2 DEF Leaves
<1> QED BY <1>4, <1>5 DEF q

\* ... a snapshot, ...
LEMMA SnapshotFounds ==
    ASSUME NEW e, NEW n
    PROVE  /\ \A x : x # e => Leaves(SnapshotWrites(e, n), x)
           /\ Announced(SnapshotWrites(e, n))
<1> DEFINE q == SnapshotWrites(e, n)
<1>1. /\ DOMAIN q = 1 .. 4
      /\ q[1] = Sealed(e, n, FrozenCopy(e)) /\ q[2] = Event(e, "SNAPSHOT", n)
      /\ q[3] = Anchor(e) /\ q[4] = Thawed(e, n)
  BY SnapshotList
<1> HIDE DEF q
<1>2. /\ q[1].on = e /\ q[2].on = e /\ q[3].on = e /\ q[4].on = e
      /\ q[1].write # "receipt" /\ q[2].write # "receipt"
      /\ q[3].write # "receipt" /\ q[4].write # "receipt"
  BY <1>1 DEF Sealed, Event, Anchor, Thawed, Set
<1> QED BY <1>1, <1>2, NoReceiptsAnnounced DEF NoReceipts, Leaves, q

\* ... and a fork, which founds the child's ledger.
LEMMA ForkFounds ==
    ASSUME NEW e, NEW child, child # e, NEW n
    PROVE  /\ \A x : x # e /\ x # child => Leaves(ForkWrites(e, child, n), x)
           /\ Founds(ForkWrites(e, child, n), child)
           /\ Announced(ForkWrites(e, child, n))
<1> DEFINE q == ForkWrites(e, child, n)
           born == Born(e, child, n)
<1>1. /\ DOMAIN q = 1 .. 9
      /\ q[1] = Sealed(e, n, FrozenCopy(e)) /\ q[2] = Event(e, "SNAPSHOT", n)
      /\ q[3] = Anchor(e) /\ q[4] = Thawed(e, n)
      /\ q[5] = Set(child, born) /\ q[6] = Event(child, "CLONE_GENESIS", n)
      /\ q[7] = Anchor(child) /\ q[8] = Event(e, "FORK", n) /\ q[9] = Anchor(e)
  BY ForkList
<1> HIDE DEF q, born
<1>2. /\ q[1].on = e /\ q[2].on = e /\ q[3].on = e /\ q[4].on = e
      /\ q[5].on = child /\ q[6].on = child /\ q[7].on = child
      /\ q[8].on = e /\ q[9].on = e
  BY <1>1 DEF Sealed, Event, Anchor, Thawed, Set
<1>3. /\ q[1].write # "receipt" /\ q[2].write # "receipt" /\ q[3].write # "receipt"
      /\ q[4].write # "receipt" /\ q[5].write # "receipt" /\ q[6].write # "receipt"
      /\ q[7].write # "receipt" /\ q[8].write # "receipt" /\ q[9].write # "receipt"
  BY <1>1 DEF Sealed, Event, Anchor, Thawed, Set
<1>4. /\ q[5].write = "state" /\ q[7].write = "anchor"
      /\ q[6].write = "append" /\ q[6].what.kind \in Births
  BY <1>1 DEF Event, Anchor, Set, Births
<1>5. Announced(q)
  BY <1>1, <1>3, NoReceiptsAnnounced DEF NoReceipts
<1>6. \A x : x # e /\ x # child => Leaves(q, x)
  BY <1>1, <1>2 DEF Leaves
<1>7. Founds(q, child)
  <2>1. \A i \in 1 .. 9 : q[i].on = child => i \in {5, 6, 7}
    BY <1>2
  <2> QED BY <1>1, <1>2, <1>4, <2>1 DEF Founds, AppendsTo
<1> QED BY <1>5, <1>6, <1>7 DEF q

\* A command that founds the ledgers it needs keeps CleanInv.
LEMMA StartKeepsClean ==
    ASSUME Shaped, CleanInv, NEW e \in ElectronIds,
           NEW change, NEW rest, NEW handler, Start(e, change, rest, handler),
           Announced(rest),
           \A x \in ElectronIds : x # e /\ ~ Exists(x) => Founds(rest, x),
           Exists(e) \/ (Founds(rest, e) /\ WillAppend(rest, e))
    PROVE  CleanInv'
<1> SUFFICES ASSUME errors' = 0, crashes' = 0 PROVE Clean'
  BY DEF CleanInv
<1>1. /\ pending = <<>> /\ pending' = rest /\ errors' = errors /\ crashes' = crashes
      /\ events' = events /\ receipts' = receipts /\ interrupted' = interrupted
      /\ state' = [state EXCEPT ![e] = Changed(@, change)]
  BY DEF Start, counters
<1>2. Clean
  BY <1>1 DEF CleanInv
<1>3. ASSUME NEW x \in ElectronIds PROVE Founded(x, state', events'[x], rest)
  <2>1. Founded(x, state, events[x], <<>>)
    BY <1>1, <1>2 DEF Clean
  <2>2. CASE events[x] # <<>>
    BY <1>1, <2>1, <2>2 DEF Founded
  <2>3. CASE events[x] = <<>>
    <3>1. ~ Exists(x)
      BY <2>1, <2>3, NothingFounds DEF Founded, Lives, Exists
    <3>2. CASE x = e
      BY <1>1, <2>3, <3>1, <3>2 DEF Founded
    <3>3. CASE x # e
      <4>1. state'[x] = state[x]
        BY <1>1, <3>3
      <4> QED BY <1>1, <2>3, <3>1, <3>3, <4>1 DEF Founded, Lives, Exists
    <3> QED BY <3>2, <3>3
  <2> QED BY <2>2, <2>3
<1>4. ASSUME NEW p \in ReceiptPaths PROVE Noted(p, events', receipts', rest)
  <2>1. Noted(p, events, receipts, <<>>)
    BY <1>1, <1>2 DEF Clean
  <2> QED BY <1>1, <2>1, NoWrites DEF Noted
<1> QED BY <1>1, <1>2, <1>3, <1>4 DEF Clean

\* A command that only writes to an electron that lives.
LEMMA StartOnOne ==
    ASSUME Shaped, CleanInv, NEW e \in ElectronIds, Exists(e),
           NEW change, NEW rest, NEW handler, Start(e, change, rest, handler),
           Announced(rest), \A x : x # e => Leaves(rest, x)
    PROVE  CleanInv'
BY LeavesFounds, StartKeepsClean

\* The commands keep CleanInv.
LEMMA CommandKeepsClean ==
    ASSUME Shaped, CleanInv, NEW e \in ElectronIds, Command(e)
    PROVE  CleanInv'
<1>1. CASE CreateElectron(e)
  <2> DEFINE rest == Logged(e, "GENESIS", NoSnapshot)
             change == [status |-> "READY", lineage |-> {e}]
  <2>1. Start(e, change, rest, <<>>)
    BY <1>1 DEF CreateElectron
  <2>2. /\ \A x : x # e => Leaves(rest, x)
        /\ Announced(rest) /\ Founds(rest, e) /\ WillAppend(rest, e)
    BY LoggedFounds DEF Births
  <2> HIDE DEF rest, change
  <2> QED BY <2>1, <2>2, LeavesFounds, StartKeepsClean
<1>2. CASE Snapshot(e)
  <2>1. PICK n \in SnapshotIds : Start(e, [status |-> "FROZEN"], SnapshotWrites(e, n), <<>>)
    BY <1>2 DEF Snapshot
  <2>2. Exists(e)
    BY <1>2 DEF Snapshot
  <2> QED BY <2>1, <2>2, SnapshotFounds, StartOnOne
<1>3. ASSUME NEW child \in ElectronIds, Fork(e, child) PROVE CleanInv'
  <2>1. Exists(e) /\ ~ Exists(child)
    BY <1>3 DEF Fork, Operable
  <2>2. PICK n \in SnapshotIds : Start(e, [status |-> "FROZEN"], ForkWrites(e, child, n), <<>>)
    BY <1>3 DEF Fork
  <2>3. /\ \A x : x # e /\ x # child => Leaves(ForkWrites(e, child, n), x)
        /\ Founds(ForkWrites(e, child, n), child)
        /\ Announced(ForkWrites(e, child, n))
    BY <2>1, ForkFounds
  <2> QED BY <2>1, <2>2, <2>3, LeavesFounds, StartKeepsClean
<1>4. ASSUME NEW n \in SnapshotIds, RestoreElectron(e, n) PROVE CleanInv'
  <2>1. Exists(e) /\ Start(e, RolledBack(e, n), Logged(e, "RESTORE", n), <<>>)
    BY <1>4 DEF RestoreElectron
  <2> QED BY <2>1, LoggedFounds, StartOnOne
<1>5. CASE Suspend(e)
  BY <1>5, LoggedFounds, StartOnOne DEF Suspend
<1>6. CASE Resume(e)
  BY <1>6, LoggedFounds, StartOnOne DEF Resume
<1>7. CASE Retire(e)
  BY <1>7, LoggedFounds, StartOnOne DEF Retire
<1>8. CASE AcceptExecution(e)
  <2> DEFINE path == [of |-> e, tick |-> state[e].tick + 1]
             change == [tick |-> state[e].tick + 1, status |-> "RUNNING"]
  <2>1. Start(e, change, VerifiedWrites(e, path, commands + 1),
              FaultWrites(e, "EXECUTION_ERROR"))
    BY <1>8 DEF AcceptExecution, Execute
  <2>2. Exists(e)
    BY <1>8 DEF AcceptExecution, Execute, Operable
  <2>3. path.of = e
    OBVIOUS
  <2> HIDE DEF path, change
  <2>4. /\ \A x : x # e => Leaves(VerifiedWrites(e, path, commands + 1), x)
        /\ Announced(VerifiedWrites(e, path, commands + 1))
    BY <2>3, VerifiedFounds
  <2> QED BY <2>1, <2>2, <2>4, StartOnOne
<1>9. CASE RejectExecution(e)
  <2>1. Start(e, [tick |-> state[e].tick + 1, status |-> "RUNNING"],
              FaultWrites(e, "EXECUTION_REJECTED"), FaultWrites(e, "EXECUTION_ERROR"))
    BY <1>9 DEF RejectExecution, Execute
  <2>2. Exists(e)
    BY <1>9 DEF RejectExecution, Execute, Operable
  <2> QED BY <2>1, <2>2, FaultFounds, StartOnOne
<1> QED BY <1>1, <1>2, <1>3, <1>4, <1>5, <1>6, <1>7, <1>8, <1>9 DEF Command

\* Every write that is done keeps CleanInv; the others end the claim.
LEMMA WriteKeepsClean ==
    ASSUME Shaped, StrandInv, LineageInv, EvidenceInv, CleanInv,
           MakeWrite \/ WriteFails \/ AppendFails \/ CommandDies \/ TearAppend
    PROVE  CleanInv'
<1> SUFFICES ASSUME errors' = 0, crashes' = 0 PROVE Clean'
  BY DEF CleanInv
<1>1. PICK w : w = Head(pending)
  OBVIOUS
<1>2. PICK u : u = Tail(pending)
  OBVIOUS
<1>3. CASE ReplaceState \/ WriteAnchor \/ SealSnapshot \/ WriteReceipt \/ AppendToLedger
  <2>1. /\ pending # <<>> /\ pending' = u /\ errors' = errors /\ crashes' = crashes
        /\ interrupted' \subseteq interrupted
    BY <1>2, <1>3 DEF ReplaceState, WriteAnchor, SealSnapshot, WriteReceipt,
                      AppendToLedger, NextIs, Done, counters
  <2>2. Clean
    BY <2>1 DEF CleanInv
  <2>3. /\ \A e : Founds(pending, e) /\ ~ AppendsTo(w, e) => Founds(u, e)
        /\ \A e : Founds(pending, e) /\ w.write = "state" /\ w.on = e => WillAppend(u, e)
        /\ \A e : Founds(pending, e) /\ AppendsTo(w, e) => w.what.kind \in Births
        /\ \A e : WillAppend(pending, e) /\ ~ AppendsTo(w, e) => WillAppend(u, e)
        /\ Announced(pending) => Announced(u)
        /\ Announced(pending) /\ w.write = "receipt" =>
              \E i \in DOMAIN u : Records(u[i], w.at, w.what)
        /\ \A p, c : (\E i \in DOMAIN pending : Records(pending[i], p, c)) =>
              Records(w, p, c) \/ \E i \in DOMAIN u : Records(u[i], p, c)
    BY <1>1, <1>2, <2>1, TailFounds DEF Shaped
  <2>4. /\ \A x \in ElectronIds : IsList(events[x])
        /\ DOMAIN events = ElectronIds /\ DOMAIN receipts = ReceiptPaths
    BY DEF EvidenceInv
  <2>5. ASSUME NEW x \in ElectronIds, ~ (w.write = "state" /\ w.on = x)
        PROVE  Lives(state', x) <=> Lives(state, x)
    <3>1. CASE ReplaceState
      <4>1. w.write = "state" /\ state' = [state EXCEPT ![w.on] = Changed(@, w.what)]
        BY <1>1, <3>1 DEF ReplaceState, NextIs
      <4> QED BY <2>5, <4>1 DEF Lives
    <3>2. CASE WriteAnchor
      <4>1. state' = [state EXCEPT ![w.on].anchor = Len(events[w.on])]
        BY <1>1, <3>2 DEF WriteAnchor
      <4> QED BY <4>1 DEF Lives
    <3>3. CASE SealSnapshot \/ WriteReceipt \/ AppendToLedger
      BY <3>3 DEF SealSnapshot, WriteReceipt, AppendToLedger, Lives
    <3> QED BY <1>3, <3>1, <3>2, <3>3
  <2>6. CASE AppendToLedger
    <3>1. /\ w.write = "append" /\ receipts' = receipts
          /\ events' = [events EXCEPT ![w.on] = Append(@, w.what)]
      BY <1>1, <2>6 DEF AppendToLedger, NextIs
    <3>2. ASSUME NEW x \in ElectronIds
          PROVE  /\ x # w.on => events'[x] = events[x]
                 /\ x = w.on =>
                      /\ events'[x] # <<>>
                      /\ events[x] = <<>> => events'[x][1] = w.what
                      /\ events[x] # <<>> => events'[x][1] = events[x][1]
                      /\ \E i \in DOMAIN events'[x] : events'[x][i] = w.what
                 /\ \A i \in DOMAIN events[x] :
                       i \in DOMAIN events'[x] /\ events'[x][i] = events[x][i]
      <4>1. CASE x # w.on
        BY <2>4, <3>1, <4>1
      <4>2. CASE x = w.on
        <5> DEFINE l == Append(events[x], w.what)
        <5>1. events'[x] = l /\ IsList(events[x])
          BY <2>4, <3>1, <4>2
        <5>2. /\ DOMAIN l = 1 .. Len(events[x]) + 1 /\ Len(events[x]) \in Nat
              /\ l[Len(events[x]) + 1] = w.what
              /\ \A i \in DOMAIN events[x] : i \in DOMAIN l /\ l[i] = events[x][i]
          BY <5>1, AppendToList, ListShape
        <5>3. l # <<>>
          BY <5>2, NoWrites
        <5>4. events[x] # <<>> => 1 \in DOMAIN events[x]
          BY <5>1, TailOfList
        <5>5. events[x] = <<>> => Len(events[x]) = 0
          OBVIOUS
        <5>6. Len(events[x]) + 1 \in DOMAIN l
          BY <5>2
        <5> HIDE DEF l
        <5>7. events[x] = <<>> => l[1] = w.what
          BY <5>2, <5>5
        <5>8. events[x] # <<>> => l[1] = events[x][1]
          BY <5>2, <5>4
        <5>9. \E i \in DOMAIN l : l[i] = w.what
          BY <5>2, <5>6
        <5> QED BY <4>2, <5>1, <5>2, <5>3, <5>7, <5>8, <5>9
      <4> QED BY <4>1, <4>2
    <3>3. ASSUME NEW x \in ElectronIds PROVE Founded(x, state', events'[x], u)
      <4>1. Founded(x, state, events[x], pending)
        BY <2>2 DEF Clean
      <4>2. CASE x = w.on
        BY <2>3, <3>1, <3>2, <4>1, <4>2 DEF Founded, AppendsTo
      <4>3. CASE x # w.on
        <5>1. ~ AppendsTo(w, x) /\ events'[x] = events[x]
          BY <3>2, <4>3 DEF AppendsTo
        <5> QED BY <2>3, <2>5, <4>1, <4>3, <5>1 DEF Founded
      <4> QED BY <4>2, <4>3
    <3>4. ASSUME NEW p \in ReceiptPaths PROVE Noted(p, events', receipts', u)
      <4>1. Noted(p, events, receipts, pending) /\ p.of \in ElectronIds
        BY <2>2 DEF Clean, ReceiptPaths
      <4>2. \A c : Accepted(events[p.of], p, c) => Accepted(events'[p.of], p, c)
        BY <3>2, <4>1 DEF Accepted
      <4>3. \A c : Records(w, p, c) => Accepted(events'[p.of], p, c)
        BY <3>2, <4>1 DEF Accepted, Records, AppendsTo
      <4> QED BY <2>3, <3>1, <4>1, <4>2, <4>3 DEF Noted
    <3> QED BY <2>1, <2>2, <2>3, <3>3, <3>4 DEF Clean
  <2>7. CASE ~ AppendToLedger
    <3>1. w.write # "append" /\ events' = events
      BY <1>1, <1>3, <2>7 DEF ReplaceState, WriteAnchor, SealSnapshot, WriteReceipt, NextIs
    <3>2. \A x : ~ AppendsTo(w, x)
      BY <3>1 DEF AppendsTo
    <3>3. ASSUME NEW x \in ElectronIds PROVE Founded(x, state', events'[x], u)
      <4>1. Founded(x, state, events[x], pending)
        BY <2>2 DEF Clean
      <4>2. events[x] = <<>> => Founds(u, x)
        BY <2>3, <3>2, <4>1 DEF Founded
      <4>3. events[x] = <<>> /\ Lives(state', x) => WillAppend(u, x)
        <5>1. CASE w.write = "state" /\ w.on = x
          BY <2>3, <4>1, <5>1 DEF Founded
        <5>2. CASE ~ (w.write = "state" /\ w.on = x)
          BY <2>3, <2>5, <3>2, <4>1, <5>2 DEF Founded
        <5> QED BY <5>1, <5>2
      <4> QED BY <3>1, <4>1, <4>2, <4>3 DEF Founded
    <3>4. ASSUME NEW p \in ReceiptPaths PROVE Noted(p, events', receipts', u)
      <4>1. Noted(p, events, receipts, pending)
        BY <2>2 DEF Clean
      <4>2. \A c : ~ Records(w, p, c)
        BY <3>2 DEF Records
      <4>3. CASE WriteReceipt
        <5>1. w.write = "receipt" /\ receipts' = [receipts EXCEPT ![w.at] = w.what]
          BY <1>1, <4>3 DEF WriteReceipt, NextIs
        <5>2. CASE p = w.at
          <6>1. receipts'[p] = w.what
            BY <2>4, <5>1, <5>2
          <6>2. \E i \in DOMAIN u : Records(u[i], p, w.what)
            BY <2>2, <2>3, <5>1, <5>2 DEF Clean
          <6> QED BY <6>1, <6>2 DEF Noted
        <5>3. CASE p # w.at
          <6>1. receipts'[p] = receipts[p]
            BY <2>4, <5>1, <5>3
          <6> QED BY <2>3, <3>1, <4>1, <4>2, <6>1 DEF Noted
        <5> QED BY <5>2, <5>3
      <4>4. CASE ~ WriteReceipt
        <5>1. receipts' = receipts
          BY <1>3, <2>7, <4>4 DEF ReplaceState, WriteAnchor, SealSnapshot
        <5> QED BY <2>3, <3>1, <4>1, <4>2, <5>1 DEF Noted
      <4> QED BY <4>3, <4>4
    <3> QED BY <2>1, <2>2, <2>3, <3>3, <3>4 DEF Clean
  <2> QED BY <2>6, <2>7
<1>4. CASE Refuse
  <2>1. pending # <<>> /\ torn[w.on] /\ crashes' = crashes /\ errors' = errors
    BY <1>1, <1>4 DEF Refuse, NextIs, counters
  <2>2. w.on \in ElectronIds
    BY <1>1, <2>1, TailHalts DEF Shaped, StrandInv, Halts
  <2> QED BY <2>1, <2>2 DEF StrandInv
<1>5. CASE WriteFails \/ AppendFails
  <2>1. errors' = errors + 1
    BY <1>5 DEF WriteFails, AppendFails
  <2> QED BY <2>1 DEF StrandInv
<1>6. CASE CommandDies \/ TearAppend
  <2>1. crashes' = crashes + 1
    BY <1>6 DEF CommandDies, TearAppend, Die
  <2> QED BY <2>1 DEF StrandInv
<1> QED BY <1>3, <1>4, <1>5, <1>6 DEF MakeWrite

\* CleanInv holds always.
LEMMA CleanKept == StoreSpec => []CleanInv
<1>1. StoreInit => CleanInv
  <2> SUFFICES ASSUME StoreInit PROVE Clean
    BY DEF CleanInv
  <2>1. \A e \in ElectronIds : Founded(e, state, events[e], <<>>)
    BY NothingFounds DEF StoreInit, Founded, Lives, Absent
  <2>2. \A p \in ReceiptPaths : Noted(p, events, receipts, <<>>)
    BY DEF StoreInit, Noted
  <2> QED BY <2>1, <2>2, NothingFounds DEF StoreInit, Clean
<1>2. /\ HealInv /\ StrandInv /\ LineageInv /\ EvidenceInv /\ CleanInv
      /\ [StoreNext]_storeVars
      => CleanInv'
  <2> SUFFICES ASSUME Shaped, StrandInv, LineageInv, EvidenceInv, CleanInv,
                      [StoreNext]_storeVars
               PROVE  CleanInv'
    BY DEF HealInv
  <2>1. CASE StoreNext
    BY <2>1, CommandKeepsClean, WriteKeepsClean DEF StoreNext
  <2>2. CASE UNCHANGED storeVars
    BY <2>2 DEF storeVars, files, counters, CleanInv, Clean
  <2> QED BY <2>1, <2>2
<1> QED BY <1>1, <1>2, StoreHeals, StrandKept, LineageKept, EvidenceKept, PTL
        DEF StoreSpec
-----------------------------------------------------------------------------
(* The receipt files that audit compares with the ledgers.                  *)

Verified(event) == event.kind = "EXECUTION_VERIFIED"

OwnPath(event, e) == event.ref.path \in ReceiptPaths /\ event.ref.path.of = e

\* Event i of the ledger l of e finds its receipt, or another event of that
\* tick comes after it, or will.
Answered(e, l, c, q) ==
    \A i \in DOMAIN l : Verified(l[i]) =>
        /\ OwnPath(l[i], e)
        /\ \/ c[l[i].ref.path] = l[i].ref.content
           \/ \E j \in DOMAIN l :
                j > i /\ Verified(l[j]) /\ l[j].ref.path = l[i].ref.path
           \/ \E j \in DOMAIN q :
                /\ AppendsTo(q[j], e) /\ Verified(q[j].what)
                /\ q[j].what.ref.path = l[i].ref.path

ReceiptAt(w, p) == w.write = "receipt" /\ w.at = p

NamesReceipt(w) == w.write = "append" /\ Verified(w.what)

\* When an event comes to be appended its receipt is the one it names.
Receipted(q, c) ==
    \A k \in DOMAIN q : NamesReceipt(q[k]) =>
        LET event == q[k].what
        IN  /\ OwnPath(event, q[k].on)
            /\ \/ c[event.ref.path] = event.ref.content
               \/ \E i \in DOMAIN q : i < k /\ ReceiptAt(q[i], event.ref.path)
            /\ \A i \in DOMAIN q :
                 ReceiptAt(q[i], event.ref.path) => q[i].what = event.ref.content

Matched ==
    /\ \A e \in ElectronIds : Answered(e, events[e], receipts, pending)
    /\ Receipted(pending, receipts)

MatchInv == errors = 0 /\ crashes = 0 => Matched

\* The receipts after the write w.
Filing(w, c, d) ==
    \A p \in ReceiptPaths : d[p] = IF ReceiptAt(w, p) THEN w.what ELSE c[p]

\* The rest of a list is grounded in the receipts after its first write.
LEMMA TailGrounds ==
    ASSUME NEW q, IsList(q), q # <<>>, NEW c, NEW d, Receipted(q, c),
           Filing(Head(q), c, d)
    PROVE  Receipted(Tail(q), d)
<1> DEFINE u == Tail(q)
<1>1. /\ 1 \in DOMAIN q /\ Head(q) = q[1]
      /\ \A k \in DOMAIN u : k + 1 \in DOMAIN q /\ u[k] = q[k + 1]
      /\ \A k \in DOMAIN q : k > 1 => k - 1 \in DOMAIN u /\ u[k - 1] = q[k]
      /\ DOMAIN q \subseteq Nat \ {0} /\ DOMAIN u \subseteq Nat \ {0}
  <2>1. IsList(u)
    BY TailOfList
  <2> QED BY <2>1, TailOfList, ListShape
<1> HIDE DEF u
<1>2. ASSUME NEW k \in DOMAIN u, NamesReceipt(u[k]), NEW event, event = u[k].what
      PROVE  /\ OwnPath(event, u[k].on)
             /\ \/ d[event.ref.path] = event.ref.content
                \/ \E i \in DOMAIN u : i < k /\ ReceiptAt(u[i], event.ref.path)
             /\ \A i \in DOMAIN u :
                  ReceiptAt(u[i], event.ref.path) => u[i].what = event.ref.content
  <2>1. k + 1 \in DOMAIN q /\ u[k] = q[k + 1]
    BY <1>1
  <2>2. /\ OwnPath(event, u[k].on)
        /\ \/ c[event.ref.path] = event.ref.content
           \/ \E i \in DOMAIN q : i < k + 1 /\ ReceiptAt(q[i], event.ref.path)
        /\ \A i \in DOMAIN q :
             ReceiptAt(q[i], event.ref.path) => q[i].what = event.ref.content
    BY <1>2, <2>1 DEF Receipted
  <2>3. d[event.ref.path] = IF ReceiptAt(q[1], event.ref.path) THEN q[1].what
                                                               ELSE c[event.ref.path]
    BY <1>1, <2>2 DEF Filing, OwnPath
  <2>4. CASE ReceiptAt(q[1], event.ref.path)
    BY <1>1, <2>2, <2>3, <2>4
  <2>5. CASE ~ ReceiptAt(q[1], event.ref.path)
    <3>1. ASSUME NEW i \in DOMAIN q, i < k + 1, ReceiptAt(q[i], event.ref.path)
          PROVE  \E j \in DOMAIN u : j < k /\ ReceiptAt(u[j], event.ref.path)
      <4>1. i > 1
        BY <1>1, <2>5, <3>1
      <4>2. i - 1 \in DOMAIN u /\ u[i - 1] = q[i] /\ i - 1 < k
        BY <1>1, <3>1, <4>1
      <4> QED BY <3>1, <4>2
    <3> QED BY <1>1, <2>2, <2>3, <2>5, <3>1
  <2> QED BY <2>4, <2>5
<1> QED BY <1>2 DEF Receipted, u

\* The ledger m of e is the ledger l after the write w.
Longer(l, m, w, e) ==
    /\ \A i \in DOMAIN l : i \in DOMAIN m /\ m[i] = l[i]
    /\ AppendsTo(w, e) =>
          \E n \in DOMAIN m : m[n] = w.what /\ \A i \in DOMAIN l : n > i
    /\ \A n \in DOMAIN m : n \in DOMAIN l \/ (AppendsTo(w, e) /\ m[n] = w.what)

\* An append makes it longer.
LEMMA AppendLonger ==
    ASSUME NEW l, IsList(l), NEW w, NEW e, AppendsTo(w, e)
    PROVE  Longer(l, Append(l, w.what), w, e)
<1> DEFINE m == Append(l, w.what)
<1>1. /\ DOMAIN m = 1 .. Len(l) + 1 /\ m[Len(l) + 1] = w.what
      /\ \A i \in DOMAIN l : m[i] = l[i]
      /\ Len(l) \in Nat /\ DOMAIN l = 1 .. Len(l)
  BY AppendToList, ListShape
<1> HIDE DEF m
<1>2. /\ \A i \in DOMAIN l : i \in DOMAIN m /\ m[i] = l[i] /\ Len(l) + 1 > i
      /\ Len(l) + 1 \in DOMAIN m
      /\ \A n \in DOMAIN m : n \in DOMAIN l \/ n = Len(l) + 1
  BY <1>1
<1> QED BY <1>1, <1>2 DEF Longer, m

\* A ledger keeps its receipts through a write that is done.
LEMMA TailKeeps ==
    ASSUME NEW q, IsList(q), q # <<>>, NEW c, NEW d, Receipted(q, c), Announced(q),
           Filing(Head(q), c, d), NEW e, NEW l, Answered(e, l, c, q),
           NEW m, Longer(l, m, Head(q), e)
    PROVE  Answered(e, m, d, Tail(q))
<1> DEFINE u == Tail(q)
<1> DEFINE w == Head(q)
<1>1. /\ 1 \in DOMAIN q /\ w = q[1]
      /\ \A k \in DOMAIN q : k > 1 => k - 1 \in DOMAIN u /\ u[k - 1] = q[k]
      /\ DOMAIN q \subseteq Nat \ {0}
  BY TailOfList, ListShape
<1>2. w.write = "receipt" => \E i \in DOMAIN u : Records(u[i], w.at, w.what)
  BY TailFounds
<1>3. Longer(l, m, w, e)
  OBVIOUS
<1> HIDE DEF u, w
<1>4. \A i \in DOMAIN l : i \in DOMAIN m /\ m[i] = l[i]
  BY <1>3 DEF Longer
<1>5. ASSUME NEW i \in DOMAIN l, Verified(l[i])
      PROVE  /\ OwnPath(l[i], e)
             /\ \/ d[l[i].ref.path] = l[i].ref.content
                \/ \E j \in DOMAIN m :
                     j > i /\ Verified(m[j]) /\ m[j].ref.path = l[i].ref.path
                \/ \E j \in DOMAIN u :
                     /\ AppendsTo(u[j], e) /\ Verified(u[j].what)
                     /\ u[j].what.ref.path = l[i].ref.path
  <2> DEFINE p == l[i].ref.path
  <2>1. /\ p \in ReceiptPaths /\ p.of = e
        /\ \/ c[p] = l[i].ref.content
           \/ \E j \in DOMAIN l : j > i /\ Verified(l[j]) /\ l[j].ref.path = p
           \/ \E j \in DOMAIN q :
                AppendsTo(q[j], e) /\ Verified(q[j].what) /\ q[j].what.ref.path = p
    BY <1>5 DEF Answered, OwnPath
  <2>2. d[p] = IF ReceiptAt(w, p) THEN w.what ELSE c[p]
    BY <2>1 DEF Filing, w
  <2> HIDE DEF p
  <2>3. CASE ReceiptAt(w, p)
    <3>1. PICK j \in DOMAIN u : Records(u[j], p, w.what)
      BY <1>2, <2>3 DEF ReceiptAt
    <3>2. AppendsTo(u[j], e) /\ Verified(u[j].what) /\ u[j].what.ref.path = p
      BY <2>1, <3>1 DEF Records, Accepts, Verified
    <3> QED BY <1>5, <2>1, <3>2 DEF p, OwnPath
  <2>4. CASE ~ ReceiptAt(w, p) /\ c[p] = l[i].ref.content
    BY <2>1, <2>2, <2>4 DEF p, OwnPath
  <2>5. ASSUME NEW j \in DOMAIN l, j > i, Verified(l[j]), l[j].ref.path = p
        PROVE  \E k \in DOMAIN m : k > i /\ Verified(m[k]) /\ m[k].ref.path = p
    BY <1>4, <2>5
  <2>6. ASSUME NEW j \in DOMAIN q, AppendsTo(q[j], e), Verified(q[j].what),
               q[j].what.ref.path = p
        PROVE  \/ \E k \in DOMAIN m : k > i /\ Verified(m[k]) /\ m[k].ref.path = p
               \/ \E k \in DOMAIN u :
                    AppendsTo(u[k], e) /\ Verified(u[k].what) /\ u[k].what.ref.path = p
    <3>1. CASE j = 1
      <4>1. q[j] = w /\ AppendsTo(w, e)
        BY <1>1, <2>6, <3>1
      <4>2. PICK n \in DOMAIN m : m[n] = w.what /\ \A k \in DOMAIN l : n > k
        BY <1>3, <4>1 DEF Longer
      <4> QED BY <2>6, <4>1, <4>2
    <3>2. CASE j > 1
      <4>1. j - 1 \in DOMAIN u /\ u[j - 1] = q[j]
        BY <1>1, <3>2
      <4> QED BY <2>6, <4>1
    <3> QED BY <1>1, <3>1, <3>2
  <2> QED BY <2>1, <2>3, <2>4, <2>5, <2>6 DEF p, OwnPath
<1>6. ASSUME AppendsTo(w, e), Verified(w.what)
      PROVE  OwnPath(w.what, e) /\ d[w.what.ref.path] = w.what.ref.content
  <2>1. NamesReceipt(q[1]) /\ q[1].on = e /\ q[1] = w /\ w.write = "append"
    BY <1>1, <1>6 DEF NamesReceipt, AppendsTo
  <2>2. \A i \in DOMAIN q : ~ i < 1
    BY <1>1
  <2>3. OwnPath(w.what, e) /\ c[w.what.ref.path] = w.what.ref.content
    BY <1>1, <2>1, <2>2 DEF Receipted
  <2>4. d[w.what.ref.path] = c[w.what.ref.path]
    BY <2>1, <2>3 DEF Filing, OwnPath, ReceiptAt, w
  <2> QED BY <2>3, <2>4
<1>7. ASSUME NEW i \in DOMAIN m, Verified(m[i])
      PROVE  /\ OwnPath(m[i], e)
             /\ \/ d[m[i].ref.path] = m[i].ref.content
                \/ \E j \in DOMAIN m :
                     j > i /\ Verified(m[j]) /\ m[j].ref.path = m[i].ref.path
                \/ \E j \in DOMAIN u :
                     /\ AppendsTo(u[j], e) /\ Verified(u[j].what)
                     /\ u[j].what.ref.path = m[i].ref.path
  <2>1. CASE i \in DOMAIN l
    BY <1>4, <1>5, <1>7, <2>1
  <2>2. CASE AppendsTo(w, e) /\ m[i] = w.what
    BY <1>6, <1>7, <2>2
  <2> QED BY <1>3, <2>1, <2>2 DEF Longer
<1> QED BY <1>7 DEF Answered, u

\* A list that appends no accepted execution is grounded.
Silent(q) == \A i \in DOMAIN q : ~ NamesReceipt(q[i])

\* (by its definition)
LEMMA SilentGrounds == ASSUME NEW q, NEW c, Silent(q) PROVE Receipted(q, c)
BY DEF Silent, Receipted

\* One event of another kind is silent, ...
LEMMA LoggedSilent ==
    ASSUME NEW e, NEW kind, kind # "EXECUTION_VERIFIED", NEW ref
    PROVE  Silent(Logged(e, kind, ref))
<1> DEFINE q == Logged(e, kind, ref)
<1>1. DOMAIN q = 1 .. 2 /\ q[1] = Event(e, kind, ref) /\ q[2] = Anchor(e)
  BY LoggedList
<1> HIDE DEF q
<1>2. ~ NamesReceipt(q[1]) /\ ~ NamesReceipt(q[2])
  BY <1>1 DEF NamesReceipt, Verified, Event, Anchor
<1> QED BY <1>1, <1>2 DEF Silent, q

\* ... so is a fault, ...
LEMMA FaultSilent ==
    ASSUME NEW e, NEW kind \in Faults PROVE Silent(FaultWrites(e, kind))
<1> DEFINE q == FaultWrites(e, kind)
<1>1. /\ DOMAIN q = 1 .. 3 /\ q[1] = Set(e, [status |-> "FAULTED"])
      /\ q[2] = Event(e, kind, NoSnapshot) /\ q[3] = Anchor(e)
  BY FaultList
<1> HIDE DEF q
<1>2. ~ NamesReceipt(q[1]) /\ ~ NamesReceipt(q[2]) /\ ~ NamesReceipt(q[3])
  BY <1>1 DEF NamesReceipt, Verified, Event, Anchor, Set, Faults
<1> QED BY <1>1, <1>2 DEF Silent, q

\* ... a snapshot, ...
LEMMA SnapshotSilent == ASSUME NEW e, NEW n PROVE Silent(SnapshotWrites(e, n))
<1> DEFINE q == SnapshotWrites(e, n)
<1>1. /\ DOMAIN q = 1 .. 4
      /\ q[1] = Sealed(e, n, FrozenCopy(e)) /\ q[2] = Event(e, "SNAPSHOT", n)
      /\ q[3] = Anchor(e) /\ q[4] = Thawed(e, n)
  BY SnapshotList
<1> HIDE DEF q
<1>2. /\ ~ NamesReceipt(q[1]) /\ ~ NamesReceipt(q[2])
      /\ ~ NamesReceipt(q[3]) /\ ~ NamesReceipt(q[4])
  BY <1>1 DEF NamesReceipt, Verified, Sealed, Event, Anchor, Thawed, Set
<1> QED BY <1>1, <1>2 DEF Silent, q

\* ... and a fork.
LEMMA ForkSilent == ASSUME NEW e, NEW child, NEW n PROVE Silent(ForkWrites(e, child, n))
<1> DEFINE q == ForkWrites(e, child, n)
           born == Born(e, child, n)
<1>1. /\ DOMAIN q = 1 .. 9
      /\ q[1] = Sealed(e, n, FrozenCopy(e)) /\ q[2] = Event(e, "SNAPSHOT", n)
      /\ q[3] = Anchor(e) /\ q[4] = Thawed(e, n)
      /\ q[5] = Set(child, born) /\ q[6] = Event(child, "CLONE_GENESIS", n)
      /\ q[7] = Anchor(child) /\ q[8] = Event(e, "FORK", n) /\ q[9] = Anchor(e)
  BY ForkList
<1> HIDE DEF q, born
<1>2. /\ ~ NamesReceipt(q[1]) /\ ~ NamesReceipt(q[3]) /\ ~ NamesReceipt(q[4])
      /\ ~ NamesReceipt(q[5]) /\ ~ NamesReceipt(q[7]) /\ ~ NamesReceipt(q[9])
  BY <1>1 DEF NamesReceipt, Sealed, Anchor, Thawed, Set
<1>3. ~ NamesReceipt(q[2]) /\ ~ NamesReceipt(q[6]) /\ ~ NamesReceipt(q[8])
  BY <1>1 DEF NamesReceipt, Verified, Event
<1> QED BY <1>1, <1>2, <1>3 DEF Silent, q

\* An accepted execution writes the receipt it goes on to name.
LEMMA VerifiedGrounds ==
    ASSUME NEW e, NEW p \in ReceiptPaths, p.of = e, NEW content, NEW c
    PROVE  Receipted(VerifiedWrites(e, p, content), c)
<1> DEFINE q == VerifiedWrites(e, p, content)
           change == [status |-> "VERIFIED", receipt |-> {p}]
           ref == [path |-> p, content |-> content]
<1>1. /\ DOMAIN q = 1 .. 4
      /\ q[1] = Receipt(p, content) /\ q[2] = Set(e, change)
      /\ q[3] = Event(e, "EXECUTION_VERIFIED", ref) /\ q[4] = Anchor(e)
  BY VerifiedList
<1>2. ref.path = p /\ ref.content = content
  OBVIOUS
<1> HIDE DEF q, change, ref
<1>3. /\ ~ NamesReceipt(q[1]) /\ ~ NamesReceipt(q[2]) /\ ~ NamesReceipt(q[4])
      /\ q[3].on = e /\ q[3].what.ref = ref
  BY <1>1 DEF NamesReceipt, Receipt, Set, Anchor, Event
<1>4. /\ ReceiptAt(q[1], p) /\ q[1].what = content
      /\ ~ ReceiptAt(q[2], p) /\ ~ ReceiptAt(q[3], p) /\ ~ ReceiptAt(q[4], p)
  BY <1>1 DEF ReceiptAt, Receipt, Set, Anchor, Event
<1>5. /\ OwnPath(q[3].what, q[3].on)
      /\ \E i \in DOMAIN q : i < 3 /\ ReceiptAt(q[i], q[3].what.ref.path)
      /\ \A i \in DOMAIN q :
           ReceiptAt(q[i], q[3].what.ref.path) => q[i].what = q[3].what.ref.content
  <2>1. q[3].what.ref.path = p /\ q[3].what.ref.content = content
    BY <1>2, <1>3
  <2>2. 1 \in DOMAIN q /\ 1 < 3
    BY <1>1
  <2>3. \A i \in DOMAIN q : i \in {1, 2, 3, 4}
    BY <1>1
  <2> QED BY <1>3, <1>4, <2>1, <2>2, <2>3 DEF OwnPath
<1>6. \A k \in DOMAIN q : NamesReceipt(q[k]) => k = 3
  <2>1. \A k \in DOMAIN q : k \in {1, 2, 3, 4}
    BY <1>1
  <2> QED BY <1>3, <2>1
<1> QED BY <1>5, <1>6 DEF Receipted, q

\* A command whose list is grounded keeps MatchInv.
LEMMA StartMatches ==
    ASSUME MatchInv, NEW e, NEW change, NEW rest, NEW handler,
           Start(e, change, rest, handler), Receipted(rest, receipts)
    PROVE  MatchInv'
<1> SUFFICES ASSUME errors' = 0, crashes' = 0 PROVE Matched'
  BY DEF MatchInv
<1>1. /\ pending = <<>> /\ pending' = rest /\ errors' = errors /\ crashes' = crashes
      /\ events' = events /\ receipts' = receipts
  BY DEF Start, counters
<1>2. \A x \in ElectronIds : Answered(x, events[x], receipts, <<>>)
  BY <1>1 DEF MatchInv, Matched
<1>3. \A x \in ElectronIds : Answered(x, events[x], receipts, rest)
  BY <1>2, NoWrites DEF Answered
<1> QED BY <1>1, <1>3 DEF Matched

\* The commands keep MatchInv.
LEMMA CommandMatches ==
    ASSUME LineageInv, MatchInv, NEW e \in ElectronIds, Command(e)
    PROVE  MatchInv'
<1>1. ASSUME NEW change, NEW kind, kind # "EXECUTION_VERIFIED", NEW ref,
             Start(e, change, Logged(e, kind, ref), <<>>)
      PROVE  MatchInv'
  BY <1>1, LoggedSilent, SilentGrounds, StartMatches
<1>2. CASE CreateElectron(e)
  BY <1>1, <1>2 DEF CreateElectron
<1>3. CASE Snapshot(e)
  <2>1. PICK n \in SnapshotIds : Start(e, [status |-> "FROZEN"], SnapshotWrites(e, n), <<>>)
    BY <1>3 DEF Snapshot
  <2> QED BY <2>1, SnapshotSilent, SilentGrounds, StartMatches
<1>4. ASSUME NEW child \in ElectronIds, Fork(e, child) PROVE MatchInv'
  <2>1. PICK n \in SnapshotIds : Start(e, [status |-> "FROZEN"], ForkWrites(e, child, n), <<>>)
    BY <1>4 DEF Fork
  <2> QED BY <2>1, ForkSilent, SilentGrounds, StartMatches
<1>5. ASSUME NEW n \in SnapshotIds, RestoreElectron(e, n) PROVE MatchInv'
  BY <1>1, <1>5 DEF RestoreElectron
<1>6. CASE Suspend(e)
  BY <1>1, <1>6 DEF Suspend
<1>7. CASE Resume(e)
  BY <1>1, <1>7 DEF Resume
<1>8. CASE Retire(e)
  BY <1>1, <1>8 DEF Retire
<1>9. CASE AcceptExecution(e)
  <2> DEFINE path == [of |-> e, tick |-> state[e].tick + 1]
             change == [tick |-> state[e].tick + 1, status |-> "RUNNING"]
  <2>1. /\ commands < MaxCommands
        /\ Start(e, change, VerifiedWrites(e, path, commands + 1),
                 FaultWrites(e, "EXECUTION_ERROR"))
    BY <1>9 DEF AcceptExecution, Execute, Start
  <2>2. path \in ReceiptPaths /\ path.of = e
    <3>1. state[e].tick + 1 \in Ticks
      BY <2>1, StoreAssumption DEF LineageInv, GoodState, Ticks
    <3> QED BY <3>1 DEF ReceiptPaths
  <2> HIDE DEF path, change
  <2> QED BY <2>1, <2>2, VerifiedGrounds, StartMatches
<1>10. CASE RejectExecution(e)
  <2>1. Start(e, [tick |-> state[e].tick + 1, status |-> "RUNNING"],
              FaultWrites(e, "EXECUTION_REJECTED"), FaultWrites(e, "EXECUTION_ERROR"))
    BY <1>10 DEF RejectExecution, Execute
  <2>2. Silent(FaultWrites(e, "EXECUTION_REJECTED"))
    BY FaultSilent DEF Faults
  <2> QED BY <2>1, <2>2, SilentGrounds, StartMatches
<1> QED BY <1>2, <1>3, <1>4, <1>5, <1>6, <1>7, <1>8, <1>9, <1>10 DEF Command

\* Every write that is done keeps MatchInv; the others end the claim.
LEMMA WriteMatches ==
    ASSUME Shaped, StrandInv, EvidenceInv, CleanInv, MatchInv,
           MakeWrite \/ WriteFails \/ AppendFails \/ CommandDies \/ TearAppend
    PROVE  MatchInv'
<1> SUFFICES ASSUME errors' = 0, crashes' = 0 PROVE Matched'
  BY DEF MatchInv
<1>1. PICK w : w = Head(pending)
  OBVIOUS
<1>2. /\ \A x \in ElectronIds : IsList(events[x])
      /\ DOMAIN events = ElectronIds /\ DOMAIN receipts = ReceiptPaths
  BY DEF EvidenceInv
<1>3. CASE ReplaceState \/ WriteAnchor \/ SealSnapshot \/ WriteReceipt \/ AppendToLedger
  <2>1. /\ pending # <<>> /\ pending' = Tail(pending)
        /\ errors' = errors /\ crashes' = crashes
    BY <1>3 DEF ReplaceState, WriteAnchor, SealSnapshot, WriteReceipt,
                AppendToLedger, NextIs, Done, counters
  <2>2. /\ \A x \in ElectronIds : Answered(x, events[x], receipts, pending)
        /\ Receipted(pending, receipts) /\ Announced(pending) /\ IsList(pending)
    BY <2>1 DEF CleanInv, Clean, MatchInv, Matched, Shaped
  <2>3. Filing(w, receipts, receipts')
    <3>1. CASE WriteReceipt
      <4>1. w.write = "receipt" /\ receipts' = [receipts EXCEPT ![w.at] = w.what]
        BY <1>1, <3>1 DEF WriteReceipt, NextIs
      <4> QED BY <1>2, <4>1 DEF Filing, ReceiptAt
    <3>2. CASE ReplaceState \/ WriteAnchor \/ SealSnapshot \/ AppendToLedger
      <4>1. w.write # "receipt" /\ receipts' = receipts
        BY <1>1, <3>2 DEF ReplaceState, WriteAnchor, SealSnapshot, AppendToLedger, NextIs
      <4> QED BY <4>1 DEF Filing, ReceiptAt
    <3> QED BY <1>3, <3>1, <3>2
  <2>4. ASSUME NEW x \in ElectronIds
        PROVE  Longer(events[x], events'[x], w, x)
    <3>1. CASE AppendToLedger
      <4>1. w.write = "append" /\ events' = [events EXCEPT ![w.on] = Append(@, w.what)]
        BY <1>1, <3>1 DEF AppendToLedger, NextIs
      <4>2. CASE AppendsTo(w, x)
        <5>1. events'[x] = Append(events[x], w.what)
          BY <1>2, <4>1, <4>2 DEF AppendsTo
        <5> QED BY <1>2, <4>2, <5>1, AppendLonger
      <4>3. CASE ~ AppendsTo(w, x)
        <5>1. events'[x] = events[x]
          BY <1>2, <4>1, <4>3 DEF AppendsTo
        <5> QED BY <4>3, <5>1 DEF Longer
      <4> QED BY <4>2, <4>3
    <3>2. CASE ReplaceState \/ WriteAnchor \/ SealSnapshot \/ WriteReceipt
      <4>1. w.write # "append" /\ events' = events
        BY <1>1, <3>2 DEF ReplaceState, WriteAnchor, SealSnapshot, WriteReceipt, NextIs
      <4> QED BY <4>1 DEF AppendsTo, Longer
    <3> QED BY <1>3, <3>1, <3>2
  <2>5. Receipted(Tail(pending), receipts')
    BY <1>1, <2>1, <2>2, <2>3, TailGrounds
  <2>6. \A x \in ElectronIds : Answered(x, events'[x], receipts', Tail(pending))
    BY <1>1, <1>2, <2>1, <2>2, <2>3, <2>4, TailKeeps
  <2> QED BY <2>1, <2>5, <2>6 DEF Matched
<1>4. CASE Refuse
  <2>1. pending # <<>> /\ torn[w.on] /\ crashes' = crashes /\ errors' = errors
    BY <1>1, <1>4 DEF Refuse, NextIs, counters
  <2>2. w.on \in ElectronIds
    BY <1>1, <2>1, TailHalts DEF Shaped, StrandInv, Halts
  <2> QED BY <2>1, <2>2 DEF StrandInv
<1>5. CASE WriteFails \/ AppendFails
  <2>1. errors' = errors + 1
    BY <1>5 DEF WriteFails, AppendFails
  <2> QED BY <2>1 DEF StrandInv
<1>6. CASE CommandDies \/ TearAppend
  <2>1. crashes' = crashes + 1
    BY <1>6 DEF CommandDies, TearAppend, Die
  <2> QED BY <2>1 DEF StrandInv
<1> QED BY <1>3, <1>4, <1>5, <1>6 DEF MakeWrite

\* MatchInv holds always.
LEMMA MatchKept == StoreSpec => []MatchInv
<1>1. StoreInit => MatchInv
  <2> SUFFICES ASSUME StoreInit PROVE Matched
    BY DEF MatchInv
  <2>1. \A e \in ElectronIds : events[e] = <<>>
    BY DEF StoreInit
  <2> QED BY <2>1, NoWrites DEF StoreInit, Matched, Answered, Receipted
<1>2. HealInv /\ StrandInv /\ LineageInv /\ EvidenceInv /\ CleanInv /\ MatchInv
      /\ [StoreNext]_storeVars
      => MatchInv'
  <2> SUFFICES ASSUME Shaped, StrandInv, LineageInv, EvidenceInv, CleanInv, MatchInv,
                      [StoreNext]_storeVars
               PROVE  MatchInv'
    BY DEF HealInv
  <2>1. CASE StoreNext
    BY <2>1, CommandMatches, WriteMatches DEF StoreNext
  <2>2. CASE UNCHANGED storeVars
    BY <2>2 DEF storeVars, files, counters, MatchInv, Matched
  <2> QED BY <2>1, <2>2
<1> QED BY <1>1, <1>2, StoreHeals, StrandKept, LineageKept, EvidenceKept, CleanKept, PTL
        DEF StoreSpec

\* AuditIsBacked: what a state or an event relies on is on disk at every
\* moment, and after undisturbed commands audit refuses nothing but receipts of
\* ticks that were run again: each accepted execution finds the receipt it was
\* recorded with, or its ledger has a later one of the same tick.
THEOREM AuditsAreBacked == StoreSpec => []AuditIsBacked
<1>1. HealInv /\ StrandInv /\ LineageInv /\ EvidenceInv /\ CleanInv /\ MatchInv
      => AuditIsBacked
  <2> SUFFICES ASSUME HealInv, StrandInv, LineageInv, EvidenceInv, CleanInv, MatchInv
               PROVE  AuditClean
    BY EvidenceShows DEF AuditIsBacked
  <2> SUFFICES ASSUME pending = <<>>, errors = 0, crashes = 0,
                      NEW e \in ElectronIds, Exists(e)
               PROVE  /\ LedgerSemantics(e) /\ LedgerAnchor(e)
                      /\ BaseSnapshot(e) /\ LastReceipt(e)
                      /\ \A i \in VerifiedAt(e) : ReceiptMatches(e, i) \/ RunAgain(e, i)
    BY DEF AuditClean, Quiet
  <2>1. Clean /\ \A x \in ElectronIds : ~ torn[x]
    BY DEF CleanInv, StrandInv
  <2>2. Founded(e, state, events[e], <<>>)
    BY <2>1 DEF Clean
  <2>3. LedgerSemantics(e)
    BY <2>1, <2>2, NothingFounds DEF LedgerSemantics, Founded, Lives, Exists, Births
  <2>4. LedgerAnchor(e)
    BY <2>1, NoWrites DEF HealInv, InStep, WillSeal, Clean
  <2>5. Evident(state[e], e, sealed, events, receipts)
    BY DEF EvidenceInv
  <2>6. \A n \in DOMAIN sealed : sealed[n].owner \in ElectronIds
    BY DEF LineageInv, GoodCopy
  <2>7. BaseSnapshot(e)
    BY <2>1, <2>5, <2>6
       DEF BaseSnapshot, Evident, Backed, Named, Authorized, HasEvent
  <2>8. ASSUME NEW p \in state[e].receipt
        PROVE  /\ p.of \in state[e].lineage
               /\ HasEvent(p.of, "EXECUTION_VERIFIED", [path |-> p, content |-> receipts[p]])
    <3>1. p.of \in state[e].lineage
      BY DEF LineageInv, GoodState, OwnReceipts
    <3>2. Filed(p, receipts)
      BY <2>5 DEF Evident
    <3>3. Noted(p, events, receipts, <<>>)
      BY <2>1, <3>2 DEF Clean, Filed
    <3>4. Accepted(events[p.of], p, receipts[p])
      BY <3>2, <3>3, NoWrites DEF Noted, Filed
    <3> QED BY <3>1, <3>4 DEF Accepted, Accepts, HasEvent
  <2>9. ASSUME NEW i \in VerifiedAt(e) PROVE ReceiptMatches(e, i) \/ RunAgain(e, i)
    <3>1. Answered(e, events[e], receipts, <<>>)
      BY DEF MatchInv, Matched
    <3> QED BY <3>1, <2>9, NoWrites
            DEF Answered, Verified, VerifiedAt, ReceiptMatches, RunAgain
  <2> QED BY <2>3, <2>4, <2>7, <2>8, <2>9 DEF LastReceipt
<1> QED BY <1>1, StoreHeals, StrandKept, LineageKept, EvidenceKept, CleanKept,
           MatchKept, PTL
=============================================================================
