--------------------------- MODULE SharingProofs ---------------------------
(***************************************************************************)
(* Proofs about what many share. The threads of fabric.py share the task   *)
(* runtime, here with any number of tasks, priorities and payloads and     *)
(* either profile, and the channels, with any number of threads and        *)
(* channels and any capacity. The processes of pk share the parts that     *)
(* MCPlatform runs side by side: the conformance workflow, replicated      *)
(* keys, the reliable queue and the control state, with any number of      *)
(* processes, sites, consumers and controllers, any stages, and every      *)
(* bound.                                                                  *)
(***************************************************************************)
EXTENDS TaskRuntime, Channel, Conformance, ReplicatedKey, ReliableQueue,
        ControlState, DataFacts, SequenceTheorems, TLAPS

-----------------------------------------------------------------------------
(* TaskRuntime.  The properties are made inductive by Frames, which says    *)
(* how the drains under way relate to one another: the task whose function  *)
(* an outer drain executes is in the batch of no inner one, because it was  *)
(* not READY any more when that batch was taken.                            *)
Frames ==
    /\ \A t \in Known : state[t] # "NONE"
    /\ \A i \in DOMAIN drains :
          /\ drains[i].todo \subseteq Known
          /\ drains[i].known <= spawned
          /\ drains[i].awaits <= drains[i].known
          /\ drains[i].body # NoTask =>
                drains[i].body \in Known /\ state[drains[i].body] # "READY"
          /\ \A j \in DOMAIN drains : i < j => drains[i].body \notin drains[j].todo

IInv ==
    /\ TypeOK /\ OneHolder /\ Frames /\ NoReentry /\ NothingForgotten

\* A runtime without tasks satisfies the invariant.
LEMMA InitIInv == Init => IInv
<1> SUFFICES ASSUME Init PROVE IInv
  OBVIOUS
<1> USE TaskRuntimeAssumption
<1>1. drains \in Seq(Drains) /\ DOMAIN drains = {}
  BY DEF Init
<1>2. TypeOK
  BY <1>1 DEF Init, TypeOK, States
<1>3. OneHolder
  BY DEF Init, OneHolder, Tasks, NoTask
<1>4. Frames /\ NoReentry /\ NothingForgotten
  BY <1>1 DEF Init, Frames, NoReentry, NothingForgotten, Known
<1> QED BY <1>2, <1>3, <1>4 DEF IInv

\* What the three ways to change the stack of drains do to its elements.
LEMMA SetTopFacts ==
  ASSUME drains \in Seq(Drains), Draining, NEW d \in Drains, SetTop(d)
  PROVE  /\ drains' \in Seq(Drains) /\ DOMAIN drains' = DOMAIN drains
         /\ Len(drains) \in DOMAIN drains /\ drains'[Len(drains)] = d
         /\ \A i \in DOMAIN drains : i <= Len(drains)
         /\ \A i \in DOMAIN drains : i # Len(drains) => drains'[i] = drains[i]
  BY DEF Draining, SetTop

\* A drain that starts is the innermost.
LEMMA PushFacts ==
  ASSUME drains \in Seq(Drains), NEW d \in Drains, drains' = Append(drains, d)
  PROVE  /\ drains' \in Seq(Drains)
         /\ DOMAIN drains' = DOMAIN drains \cup {Len(drains) + 1}
         /\ drains'[Len(drains) + 1] = d
         /\ \A i \in DOMAIN drains : i <= Len(drains) /\ drains'[i] = drains[i]
  OBVIOUS

\* A drain that ends leaves the outer ones as they are.
LEMMA PopFacts ==
  ASSUME drains \in Seq(Drains), Draining,
         drains' = SubSeq(drains, 1, Len(drains) - 1)
  PROVE  /\ drains' \in Seq(Drains)
         /\ DOMAIN drains' = DOMAIN drains \ {Len(drains)}
         /\ \A i \in DOMAIN drains' : drains'[i] = drains[i]
<1>1. Len(drains) \in Nat \ {0}
  BY DEF Draining
<1> DEFINE n == Len(drains) - 1
<1>2. n \in Int /\ \A i \in 1..n : drains[i] \in Drains
  BY <1>1
<1>3. /\ SubSeq(drains, 1, n) \in Seq(Drains)
      /\ Len(SubSeq(drains, 1, n)) = IF 1 <= n THEN n - 1 + 1 ELSE 0
      /\ \A i \in 1..(n - 1 + 1) : SubSeq(drains, 1, n)[i] = drains[1 + i - 1]
  BY <1>2, SubSeqProperties
<1>4. n \in Nat /\ n - 1 + 1 = n /\ \A i \in 1..n : 1 + i - 1 = i
  BY <1>1
<1> HIDE DEF n
<1>5. Len(SubSeq(drains, 1, n)) = n
  BY <1>3, <1>4
<1>6. \A i \in 1..n : SubSeq(drains, 1, n)[i] = drains[i]
  BY <1>3, <1>4
<1>7. drains' = SubSeq(drains, 1, n) /\ DOMAIN drains = 1..(n + 1) /\ Len(drains) = n + 1
  BY <1>1 DEF n
<1>8. DOMAIN drains' = 1..n /\ drains' \in Seq(Drains)
  BY <1>3, <1>5, <1>7
<1> QED BY <1>4, <1>6, <1>7, <1>8

\* The frame on top, and every frame, is a record of the right type.
LEMMA TopFacts ==
  ASSUME IInv, Draining
  PROVE  /\ Top \in Drains /\ Len(drains) \in DOMAIN drains
         /\ Top = drains[Len(drains)]
         /\ \A i \in DOMAIN drains : drains[i] \in Drains /\ i \in Nat
  BY DEF IInv, TypeOK, Draining, Top

\* Finishing or cancelling tasks outside a drain's own steps.
LEMMA FinishPreserves ==
  ASSUME IInv, UNCHANGED <<taskVars, payloadVars, drains>>,
         state' \in [Tasks -> States], awaited' \subseteq Tasks,
         \A t \in Tasks : state'[t] = state[t] \/ state'[t] \in Finished
  PROVE  IInv'
<1>0. UNCHANGED <<profile, spawned, overdue, holds, ownerOf, consumed, drains>>
  BY DEF taskVars, payloadVars
<1>1. TypeOK'
  BY <1>0 DEF IInv, TypeOK
<1>2. OneHolder'
  BY <1>0 DEF IInv, OneHolder
<1>k. Known' = Known /\ Known \subseteq Tasks
  BY <1>0, TaskRuntimeAssumption DEF Known, Tasks, IInv, TypeOK
<1>3. /\ \A t \in Tasks : state'[t] # state[t] =>
            state'[t] # "NONE" /\ state'[t] # "READY" /\ state'[t] # "RUNNING"
      /\ Known' = Known /\ Known \subseteq Tasks
  BY <1>k DEF Finished
<1>4. Frames'
  BY <1>0, <1>3 DEF IInv, Frames
<1>5. NoReentry'
  BY <1>0, <1>3 DEF IInv, NoReentry
<1>6. NothingForgotten'
  <2> SUFFICES ASSUME NEW i \in DOMAIN drains, NEW t \in 1..drains[i].known,
                      state'[t] = "READY"
               PROVE  t \in drains[i].todo
    BY <1>0 DEF NothingForgotten
  <2>0. drains[i] \in Drains
    BY DEF IInv, TypeOK
  <2>1. t \in Tasks
    BY <2>0, TaskRuntimeAssumption DEF Drains, Tasks
  <2>2. state[t] = "READY"
    BY <1>3, <2>1
  <2> QED BY <2>2 DEF IInv, NothingForgotten
<1> QED BY <1>1, <1>2, <1>4, <1>5, <1>6 DEF IInv

\* await_task adds at most the task it was asked for.
LEMMA AwaitTypes ==
  ASSUME IInv, NEW t \in Tasks \cup {NoTask}, AwaitReturns(t)
  PROVE  awaited' \subseteq Tasks
  BY DEF IInv, TypeOK, AwaitReturns

\* Moving and consuming payloads touches no drain.
LEMMA PayloadPreserves ==
  ASSUME IInv, NEW t \in Known, NEW p \in Payloads, Transfer(t, p) \/ Release(t, p)
  PROVE  IInv'
<1>0. /\ UNCHANGED <<profile, spawned, overdue, state, drains, awaited>>
      /\ t \in Tasks
  BY TaskRuntimeAssumption
  DEF Transfer, Release, taskVars, Known, Tasks, IInv, TypeOK
<1>1. CASE Transfer(t, p)
  <2>1. /\ holds' \in [Tasks -> SUBSET Payloads]
        /\ ownerOf' \in [Payloads -> Tasks \cup {NoTask}]
        /\ consumed' = consumed
    BY <1>0, <1>1 DEF Transfer, IInv, TypeOK
  <2>2. OneHolder'
    <3> SUFFICES ASSUME NEW q \in Payloads \ consumed, NEW u \in Tasks
                 PROVE  q \in holds'[u] <=> ownerOf'[q] = u
      BY <2>1 DEF OneHolder
    <3>1. q \in holds[u] <=> ownerOf[q] = u
      BY DEF IInv, OneHolder
    <3> QED BY <1>0, <1>1, <3>1 DEF Transfer, IInv, TypeOK
  <2> QED BY <1>0, <2>1, <2>2
          DEF IInv, TypeOK, Frames, NoReentry, NothingForgotten, Known
<1>2. CASE Release(t, p)
  <2>1. /\ holds' \in [Tasks -> SUBSET Payloads]
        /\ ownerOf' \in [Payloads -> Tasks \cup {NoTask}]
        /\ consumed' \subseteq Payloads
    BY <1>0, <1>2 DEF Release, IInv, TypeOK
  <2>2. OneHolder'
    <3> SUFFICES ASSUME NEW q \in Payloads \ consumed', NEW u \in Tasks
                 PROVE  q \in holds'[u] <=> ownerOf'[q] = u
      BY DEF OneHolder
    <3>1. q # p /\ q \notin consumed /\ (q \in holds[u] <=> ownerOf[q] = u)
      BY <1>2 DEF Release, IInv, OneHolder
    <3> QED BY <1>0, <1>2, <3>1 DEF Release, IInv, TypeOK
  <2> QED BY <1>0, <2>1, <2>2
          DEF IInv, TypeOK, Frames, NoReentry, NothingForgotten, Known
<1> QED BY <1>1, <1>2

\* A new task is younger than every drain under way.
LEMMA SpawnPreserves ==
  ASSUME IInv, Spawn
  PROVE  IInv'
<1>0. /\ UNCHANGED <<profile, overdue, holds, ownerOf, consumed, drains, awaited>>
      /\ spawned' = spawned + 1 /\ spawned + 1 \in Tasks /\ spawned \in Nat
      /\ state' = [state EXCEPT ![spawned + 1] = "READY"]
  BY TaskRuntimeAssumption DEF Spawn, payloadVars, IInv, TypeOK, Tasks
<1>1. TypeOK'
  <2>1. "READY" \in States /\ spawned' \in 0..MaxTasks
    BY <1>0 DEF States, Tasks
  <2> QED BY <1>0, <2>1 DEF IInv, TypeOK
<1>2. /\ Known' = Known \cup {spawned + 1} /\ spawned + 1 \notin Known
      /\ \A t \in Known : t \in Tasks /\ state'[t] = state[t]
      /\ state'[spawned + 1] = "READY"
  BY <1>0, TaskRuntimeAssumption DEF Known, Tasks, IInv, TypeOK
<1>3. OneHolder'
  BY <1>0 DEF IInv, OneHolder
<1>4. \A i \in DOMAIN drains : drains[i] \in Drains
  BY DEF IInv, TypeOK
<1>5. Frames'
  <2>1. \A t \in Known' : state'[t] # "NONE"
    BY <1>2 DEF IInv, Frames
  <2>2. \A i \in DOMAIN drains : drains[i].known <= spawned'
    BY <1>0, <1>4, TaskRuntimeAssumption DEF IInv, Frames, Drains
  <2> QED BY <1>0, <1>2, <2>1, <2>2 DEF IInv, Frames
<1>6. NoReentry'
  BY <1>0, <1>2 DEF IInv, NoReentry
<1>7. NothingForgotten'
  <2> SUFFICES ASSUME NEW i \in DOMAIN drains, NEW t \in 1..drains[i].known,
                      state'[t] = "READY"
               PROVE  t \in drains[i].todo
    BY <1>0 DEF NothingForgotten
  <2>1. t \in Known
    BY <1>0, <1>4 DEF IInv, Frames, Drains, Known
  <2> QED BY <1>2, <2>1 DEF IInv, NothingForgotten
<1> QED BY <1>1, <1>3, <1>5, <1>6, <1>7 DEF IInv

\* A drain that begins takes every READY task; no task that executes is READY.
LEMMA PushPreserves ==
  ASSUME IInv, NEW a \in Known \cup {NoTask}, BeginDrain(a),
         UNCHANGED <<taskVars, payloadVars>>
  PROVE  IInv'
<1>0. /\ UNCHANGED <<profile, spawned, overdue, holds, ownerOf, consumed, state, awaited>>
      /\ spawned \in 0..MaxTasks /\ Known' = Known /\ Known \subseteq Tasks
      /\ Ready \subseteq Known
  BY TaskRuntimeAssumption
  DEF BeginDrain, taskVars, payloadVars, IInv, TypeOK, Known, Tasks, Ready
<1>1. PICK d : d = [todo |-> Ready, body |-> NoTask, awaits |-> a, known |-> spawned]
  OBVIOUS
<1>2. d \in Drains /\ d.todo = Ready /\ d.body = NoTask /\ d.awaits = a /\ d.known = spawned
  BY <1>0, <1>1 DEF Drains
<1>3. /\ drains' = Append(drains, d) /\ drains \in Seq(Drains) /\ Len(drains) \in Nat
      /\ Len(drains) + 1 \notin DOMAIN drains
  BY <1>1 DEF BeginDrain, IInv, TypeOK
<1>4. /\ drains' \in Seq(Drains)
      /\ DOMAIN drains' = DOMAIN drains \cup {Len(drains) + 1}
      /\ drains'[Len(drains) + 1] = d
      /\ \A i \in DOMAIN drains : i <= Len(drains) /\ drains'[i] = drains[i]
  BY <1>2, <1>3, PushFacts
<1>5. TypeOK'
  BY <1>0, <1>4 DEF IInv, TypeOK
<1>6. OneHolder'
  BY <1>0 DEF IInv, OneHolder
<1>7. Frames'
  <2>1. d.awaits <= d.known /\ d.known <= spawned /\ d.todo \subseteq Known
    BY <1>0, <1>2, TaskRuntimeAssumption DEF NoTask, Known
  <2>2. ASSUME NEW i \in DOMAIN drains PROVE drains[i].body \notin d.todo
    <3>1. drains[i].body # NoTask => state[drains[i].body] # "READY"
      BY DEF IInv, Frames
    <3> QED BY <1>2, <3>1 DEF Ready, Known, NoTask, IInv, TypeOK
  <2>3. ~ (Len(drains) + 1 < Len(drains) + 1)
        /\ \A j \in DOMAIN drains : ~ (Len(drains) + 1 < j)
    BY <1>3
  <2> QED BY <1>0, <1>2, <1>4, <2>1, <2>2, <2>3 DEF IInv, Frames
<1>8. NoReentry'
  BY <1>0, <1>2, <1>4 DEF IInv, NoReentry
<1>9. NothingForgotten'
  <2>1. \A t \in 1..d.known : state[t] = "READY" => t \in d.todo
    BY <1>2 DEF Ready, Known
  <2> QED BY <1>0, <1>4, <2>1 DEF IInv, NothingForgotten
<1> QED BY <1>5, <1>6, <1>7, <1>8, <1>9 DEF IInv

\* A drain that ends takes no executing task with it.
LEMMA PopPreserves ==
  ASSUME IInv, EndDrain
  PROVE  IInv'
<1>0. /\ UNCHANGED <<profile, spawned, overdue, holds, ownerOf, consumed, state>>
      /\ Draining /\ drains \in Seq(Drains)
      /\ drains' = SubSeq(drains, 1, Len(drains) - 1)
      /\ Top.body = NoTask /\ Known' = Known
  BY DEF EndDrain, taskVars, payloadVars, IInv, TypeOK, Known
<1>1. Top \in Drains /\ Top = drains[Len(drains)]
  BY <1>0, TopFacts
<1>2. awaited' \subseteq Tasks
  <2>1. Top.awaits \in Tasks \cup {NoTask}
    BY <1>1 DEF Drains
  <2> QED BY <2>1, AwaitTypes DEF EndDrain
<1>3. /\ drains' \in Seq(Drains)
      /\ DOMAIN drains' = DOMAIN drains \ {Len(drains)}
      /\ \A i \in DOMAIN drains' : drains'[i] = drains[i]
  BY <1>0, PopFacts
<1>4. TypeOK'
  BY <1>0, <1>2, <1>3 DEF IInv, TypeOK
<1>5. OneHolder'
  BY <1>0 DEF IInv, OneHolder
<1>6. Frames'
  BY <1>0, <1>3 DEF IInv, Frames
<1>7. NoReentry'
  <2>1. ASSUME NEW t \in Known, state[t] = "RUNNING"
        PROVE  \E i \in DOMAIN drains' : drains'[i].body = t
    <3>1. PICK i \in DOMAIN drains : drains[i].body = t
      BY <2>1 DEF IInv, NoReentry
    <3>2. t # NoTask
      BY <2>1 DEF Known, NoTask
    <3>3. i # Len(drains)
      BY <1>0, <1>1, <3>1, <3>2
    <3> QED BY <1>3, <3>1, <3>3
  <2>2. \A i, j \in DOMAIN drains' :
            drains'[i].body = drains'[j].body /\ drains'[i].body # NoTask => i = j
    BY <1>3 DEF IInv, NoReentry
  <2> QED BY <1>0, <2>1, <2>2 DEF NoReentry
<1>8. NothingForgotten'
  BY <1>0, <1>3 DEF IInv, NothingForgotten
<1> QED BY <1>4, <1>5, <1>6, <1>7, <1>8 DEF IInv

\* A task that is first in the batch of the innermost drain is executed,
\* timed out, or passed over because it was cancelled.
LEMMA ExecutePreserves ==
  ASSUME IInv, NEW t \in Tasks, Execute(t)
  PROVE  IInv'
<1>0. /\ UNCHANGED <<profile, spawned, overdue, holds, ownerOf, consumed, awaited>>
      /\ Draining /\ drains \in Seq(Drains) /\ Top.body = NoTask
      /\ t \in Top.todo /\ Known' = Known
  BY DEF Execute, IsFirst, taskVars, payloadVars, IInv, TypeOK, Known
<1>1. Top \in Drains /\ Top = drains[Len(drains)] /\ Len(drains) \in DOMAIN drains
      /\ \A i \in DOMAIN drains : drains[i] \in Drains /\ i \in Nat
  BY <1>0, TopFacts
<1>2. t \in Known /\ t # NoTask
  BY <1>0, <1>1 DEF IInv, Frames, Known, NoTask
<1>3. PICK d \in Drains :
         /\ SetTop(d) /\ d.todo = Top.todo \ {t} /\ d.awaits = Top.awaits
         /\ d.known = Top.known
         /\ \/ /\ d.body = t /\ state' = [state EXCEPT ![t] = "RUNNING"]
            \/ /\ d.body = NoTask /\ state' = [state EXCEPT ![t] = "TIMED_OUT"]
            \/ /\ d.body = NoTask /\ state' = state /\ state[t] = "CANCELLED"
  <2>1. [Top EXCEPT !.todo = @ \ {t}] \in Drains
    BY <1>1 DEF Drains
  <2>2. [Top EXCEPT !.todo = @ \ {t}, !.body = t] \in Drains
    BY <1>1 DEF Drains
  <2>3. CASE state[t] = "CANCELLED"
    BY <1>0, <1>1, <2>1, <2>3 DEF Execute, Drains
  <2>4. CASE state[t] # "CANCELLED" /\ t \in overdue
    BY <1>0, <1>1, <2>1, <2>4 DEF Execute, Drains
  <2>5. CASE state[t] # "CANCELLED" /\ t \notin overdue
    BY <1>0, <1>1, <2>2, <2>5 DEF Execute, Drains
  <2> QED BY <2>3, <2>4, <2>5
<1>4. /\ drains' \in Seq(Drains) /\ DOMAIN drains' = DOMAIN drains
      /\ drains'[Len(drains)] = d
      /\ \A i \in DOMAIN drains : i <= Len(drains)
      /\ \A i \in DOMAIN drains : i # Len(drains) => drains'[i] = drains[i]
  BY <1>0, <1>3, SetTopFacts
<1>5. /\ state' \in [Tasks -> States] /\ state'[t] # "READY" /\ state'[t] # "NONE"
      /\ \A u \in Tasks : u # t => state'[u] = state[u]
      /\ state'[t] = "RUNNING" => d.body = t
  BY <1>3 DEF IInv, TypeOK, States, Finished
<1>6. Known \subseteq Tasks
  BY TaskRuntimeAssumption DEF Known, Tasks, IInv, TypeOK
<1>7. TypeOK'
  BY <1>0, <1>4, <1>5 DEF IInv, TypeOK
<1>8. OneHolder'
  BY <1>0 DEF IInv, OneHolder
<1>9. \A i \in DOMAIN drains : i # Len(drains) =>
         i < Len(drains) /\ drains[i].body \notin Top.todo /\ drains[i].body # t
  <2>1. ASSUME NEW i \in DOMAIN drains, i # Len(drains) PROVE i < Len(drains)
    BY <1>1, <1>4, <2>1
  <2>2. ASSUME NEW i \in DOMAIN drains, i # Len(drains)
        PROVE  drains[i].body \notin Top.todo
    BY <1>1, <2>1, <2>2 DEF IInv, Frames
  <2> QED BY <1>0, <2>1, <2>2
<1>10. Frames'
  <2>1. \A u \in Known : state'[u] # "NONE"
    BY <1>5, <1>6 DEF IInv, Frames
  <2>2. ASSUME NEW i \in DOMAIN drains
        PROVE  /\ drains'[i].todo \subseteq drains[i].todo
               /\ drains'[i].known = drains[i].known
               /\ drains'[i].awaits = drains[i].awaits
               /\ drains'[i].body = drains[i].body \/ i = Len(drains)
    BY <1>1, <1>3, <1>4
  <2>3. ASSUME NEW i \in DOMAIN drains, drains'[i].body # NoTask
        PROVE  drains'[i].body \in Known /\ state'[drains'[i].body] # "READY"
    <3>1. CASE i = Len(drains)
      BY <1>2, <1>3, <1>4, <1>5, <2>3, <3>1
    <3>2. CASE i # Len(drains)
      <4>1. drains'[i].body = drains[i].body
        BY <1>4, <3>2
      <4>2. drains[i].body \in Known /\ state[drains[i].body] # "READY"
        BY <2>3, <4>1 DEF IInv, Frames
      <4> QED BY <1>5, <1>6, <1>9, <3>2, <4>1, <4>2
    <3> QED BY <3>1, <3>2
  <2>4. ASSUME NEW i \in DOMAIN drains, NEW j \in DOMAIN drains, i < j
        PROVE  drains'[i].body \notin drains'[j].todo
    <3>1. i # Len(drains)
      BY <1>1, <1>4, <2>4
    <3>2. drains'[i].body = drains[i].body
      BY <1>4, <3>1
    <3> QED BY <2>2, <2>4, <3>2 DEF IInv, Frames
  <2> QED BY <1>0, <1>4, <2>1, <2>2, <2>3, <2>4 DEF IInv, Frames
<1>11. NoReentry'
  <2>1. ASSUME NEW i \in DOMAIN drains, NEW j \in DOMAIN drains,
               drains'[i].body = drains'[j].body, drains'[i].body # NoTask
        PROVE  i = j
    <3>1. CASE i # Len(drains) /\ j # Len(drains)
      BY <1>4, <2>1, <3>1 DEF IInv, NoReentry
    <3>2. CASE i = Len(drains) /\ j # Len(drains)
      BY <1>3, <1>4, <1>9, <2>1, <3>2
    <3>3. CASE i # Len(drains) /\ j = Len(drains)
      BY <1>3, <1>4, <1>9, <2>1, <3>3
    <3> QED BY <3>1, <3>2, <3>3
  <2>2. ASSUME NEW u \in Known, state'[u] = "RUNNING"
        PROVE  \E i \in DOMAIN drains : drains'[i].body = u
    <3>1. CASE u = t
      BY <1>1, <1>4, <1>5, <2>2, <3>1
    <3>2. CASE u # t
      <4>1. PICK i \in DOMAIN drains : drains[i].body = u
        BY <1>5, <1>6, <2>2, <3>2 DEF IInv, NoReentry
      <4>2. i # Len(drains)
        BY <1>0, <1>1, <2>2, <4>1 DEF Known, NoTask
      <4> QED BY <1>4, <4>1, <4>2
    <3> QED BY <3>1, <3>2
  <2> QED BY <1>0, <1>4, <2>1, <2>2 DEF NoReentry
<1>12. NothingForgotten'
  <2> SUFFICES ASSUME NEW i \in DOMAIN drains, NEW u \in 1..drains'[i].known,
                      state'[u] = "READY"
               PROVE  u \in drains'[i].todo
    BY <1>4 DEF NothingForgotten
  <2>1. drains'[i].known = drains[i].known /\ drains[i].known \in 0..MaxTasks
    BY <1>1, <1>3, <1>4 DEF Drains
  <2>2. u \in Tasks /\ u # t
    BY <1>5, <2>1, TaskRuntimeAssumption DEF Tasks
  <2>3. u \in drains[i].todo
    BY <1>5, <2>1, <2>2 DEF IInv, NothingForgotten
  <2> QED BY <1>1, <1>3, <1>4, <2>2, <2>3
<1> QED BY <1>7, <1>8, <1>10, <1>11, <1>12 DEF IInv

\* A function that ends leaves its frame without a body and its task finished.
LEMMA BodyEndsPreserves ==
  ASSUME IInv, BodyEnds
  PROVE  IInv'
<1>0. /\ UNCHANGED <<profile, spawned, overdue, holds, ownerOf, consumed, awaited>>
      /\ Draining /\ drains \in Seq(Drains) /\ Top.body # NoTask /\ Known' = Known
  BY DEF BodyEnds, taskVars, payloadVars, IInv, TypeOK, Known
<1>1. Top \in Drains /\ Top = drains[Len(drains)] /\ Len(drains) \in DOMAIN drains
      /\ \A i \in DOMAIN drains : drains[i] \in Drains /\ i \in Nat
  BY <1>0, TopFacts
<1>2. PICK t \in Known : t = Top.body
  BY <1>0, <1>1 DEF IInv, Frames
<1>3. PICK d : d = [Top EXCEPT !.body = NoTask]
  OBVIOUS
<1>4. /\ d \in Drains /\ d.todo = Top.todo /\ d.body = NoTask
      /\ d.awaits = Top.awaits /\ d.known = Top.known /\ SetTop(d)
  BY <1>1, <1>3 DEF Drains, BodyEnds
<1>5. PICK outcome \in {"DONE", "FAILED"} : state' = [state EXCEPT ![t] = outcome]
  BY <1>2 DEF BodyEnds
<1>6. Known \subseteq Tasks /\ t \in Tasks
  BY TaskRuntimeAssumption DEF Known, Tasks, IInv, TypeOK
<1>7. /\ drains' \in Seq(Drains) /\ DOMAIN drains' = DOMAIN drains
      /\ drains'[Len(drains)] = d
      /\ \A i \in DOMAIN drains : i <= Len(drains)
      /\ \A i \in DOMAIN drains : i # Len(drains) => drains'[i] = drains[i]
  BY <1>0, <1>4, SetTopFacts
<1>8. /\ state' \in [Tasks -> States] /\ state'[t] \in {"DONE", "FAILED"}
      /\ \A u \in Tasks : u # t => state'[u] = state[u]
  BY <1>5, <1>6 DEF IInv, TypeOK, States, Finished
<1>9. \A i \in DOMAIN drains :
         /\ drains'[i].todo = drains[i].todo /\ drains'[i].known = drains[i].known
         /\ drains'[i].awaits = drains[i].awaits
         /\ drains'[i].body = drains[i].body \/ drains'[i].body = NoTask
  BY <1>1, <1>4, <1>7
<1>10. TypeOK'
  BY <1>0, <1>7, <1>8 DEF IInv, TypeOK
<1>11. OneHolder'
  BY <1>0 DEF IInv, OneHolder
<1>12. Frames'
  <2>1. \A u \in Known : state'[u] # "NONE"
    BY <1>6, <1>8 DEF IInv, Frames
  <2>2. ASSUME NEW i \in DOMAIN drains, drains'[i].body # NoTask
        PROVE  drains'[i].body \in Known /\ state'[drains'[i].body] # "READY"
    BY <1>6, <1>8, <1>9, <2>2 DEF IInv, Frames
  <2>3. ASSUME NEW i \in DOMAIN drains, NEW j \in DOMAIN drains, i < j
        PROVE  drains'[i].body \notin drains'[j].todo
    <3>1. drains[j].todo \subseteq Known /\ NoTask \notin Known
      BY DEF IInv, Frames, Known, NoTask
    <3> QED BY <1>9, <2>3, <3>1 DEF IInv, Frames
  <2> QED BY <1>0, <1>7, <1>9, <2>1, <2>2, <2>3 DEF IInv, Frames
<1>13. NoReentry'
  <2>1. ASSUME NEW i \in DOMAIN drains, NEW j \in DOMAIN drains,
               drains'[i].body = drains'[j].body, drains'[i].body # NoTask
        PROVE  i = j
    BY <1>9, <2>1 DEF IInv, NoReentry
  <2>2. ASSUME NEW u \in Known, state'[u] = "RUNNING"
        PROVE  \E i \in DOMAIN drains : drains'[i].body = u
    <3>1. u # t /\ state[u] = "RUNNING"
      BY <1>6, <1>8, <2>2
    <3>2. PICK i \in DOMAIN drains : drains[i].body = u
      BY <3>1 DEF IInv, NoReentry
    <3>3. i # Len(drains)
      BY <1>1, <1>2, <3>1, <3>2
    <3> QED BY <1>7, <3>2, <3>3
  <2> QED BY <1>0, <1>7, <2>1, <2>2 DEF NoReentry
<1>14. NothingForgotten'
  <2> SUFFICES ASSUME NEW i \in DOMAIN drains, NEW u \in 1..drains[i].known,
                      state'[u] = "READY"
               PROVE  u \in drains[i].todo
    BY <1>7, <1>9 DEF NothingForgotten
  <2>1. u \in Tasks
    <3>1. drains[i].known \in 0..MaxTasks
      BY <1>1 DEF Drains
    <3> QED BY <3>1, TaskRuntimeAssumption DEF Tasks
  <2> QED BY <1>8, <2>1 DEF IInv, NothingForgotten
<1> QED BY <1>10, <1>11, <1>12, <1>13, <1>14 DEF IInv

\* Every call and every step of a drain keeps the invariant.
LEMMA NextIInv == IInv /\ [Next]_vars => IInv'
<1> SUFFICES ASSUME IInv, [Next]_vars PROVE IInv'
  OBVIOUS
<1>1. Known \subseteq Tasks /\ NoTask \notin Known
  BY TaskRuntimeAssumption DEF Known, Tasks, NoTask, IInv, TypeOK
<1>2. ASSUME NEW t \in Known, Cancel(t) PROVE IInv'
  <2>1. "CANCELLED" \in States /\ "CANCELLED" \in Finished
    BY DEF States, Finished
  <2>2. /\ state' \in [Tasks -> States] /\ awaited' \subseteq Tasks
        /\ \A u \in Tasks : state'[u] = state[u] \/ state'[u] \in Finished
    BY <1>1, <1>2, <2>1 DEF Cancel, IInv, TypeOK
  <2> QED BY <1>2, <2>2, FinishPreserves DEF Cancel
<1>3. ASSUME NEW a \in Known \cup {NoTask}, Drain(a) PROVE IInv'
  <2>1. CASE BeginDrain(a)
    BY <1>3, <2>1, PushPreserves DEF Drain
  <2>2. CASE RunInProcesses(a) \/ RunNothing(a)
    <3>1. UNCHANGED drains /\ AwaitReturns(a)
      BY <2>2 DEF RunInProcesses, RunNothing
    <3>2. awaited' \subseteq Tasks
      BY <1>1, <3>1, AwaitTypes
    <3>3. /\ state' \in [Tasks -> States]
          /\ \A u \in Tasks : state'[u] = state[u] \/ state'[u] \in Finished
      BY <2>2 DEF RunInProcesses, RunNothing, IInv, TypeOK, States, Finished
    <3> QED BY <1>3, <3>1, <3>2, <3>3, FinishPreserves DEF Drain
  <2> QED BY <1>3, <2>1, <2>2 DEF Drain
<1>4. ASSUME NEW t \in Known, Await(t) PROVE IInv'
  <2>1. CASE Drain(t)
    BY <1>3, <2>1
  <2>2. CASE /\ UNCHANGED <<state, drains>> /\ AwaitReturns(t)
             /\ UNCHANGED taskVars /\ UNCHANGED payloadVars
    <3>1. awaited' \subseteq Tasks
      BY <1>1, <2>2, AwaitTypes
    <3>2. state' \in [Tasks -> States] /\ \A u \in Tasks : state'[u] = state[u]
      BY <2>2 DEF IInv, TypeOK
    <3> QED BY <2>2, <3>1, <3>2, FinishPreserves
  <2> QED BY <1>4, <2>1, <2>2 DEF Await
<1>5. CASE UNCHANGED vars
  BY <1>5 DEF vars, IInv, TypeOK, OneHolder, Frames, NoReentry, NothingForgotten, Known
<1> QED BY <1>2, <1>3, <1>4, <1>5, SpawnPreserves, PayloadPreserves,
           ExecutePreserves, BodyEndsPreserves, PopPreserves
        DEF Next, Call, Advance

\* Task states, batches and holders stay well typed.
THEOREM TaskTypes == Spec => []TypeOK
<1>1. IInv => TypeOK
  BY DEF IInv
<1> QED BY <1>1, InitIInv, NextIInv, PTL DEF Spec

\* A live payload is held by exactly the task the ownership table names.
THEOREM PayloadsHaveOneHolder == Spec => []OneHolder
<1>1. IInv => OneHolder
  BY DEF IInv
<1> QED BY <1>1, InitIInv, NextIInv, PTL DEF Spec

\* No function is entered twice at a time, however deep the drains nest.
THEOREM TasksAreNotReentered == Spec => []NoReentry
<1>1. IInv => NoReentry
  BY DEF IInv
<1> QED BY <1>1, InitIInv, NextIInv, PTL DEF Spec

\* A drain returns only when nothing that was pending is pending.
THEOREM DrainsForgetNothing == Spec => []NothingForgotten
<1>1. IInv => NothingForgotten
  BY DEF IInv
<1> QED BY <1>1, InitIInv, NextIInv, PTL DEF Spec

\* An await_task that returns has a task that is done, or that executes.
LEMMA AwaitStep ==
  ASSUME IInv, NEW t \in Known, AwaitReturns(t), state'[t] = state[t] \/ state'[t] = "DONE",
         state'[t] # "READY", NEW u \in awaited' \ awaited
  PROVE  state'[u] = "DONE" \/ \E i \in DOMAIN drains : drains[i].body = u
<1>1. u = t /\ state'[t] \notin {"CANCELLED", "TIMED_OUT", "FAILED"}
  BY DEF AwaitReturns
<1>2. t \in Tasks
  BY TaskRuntimeAssumption DEF Known, Tasks, IInv, TypeOK
<1>3. state[t] \in States /\ state[t] # "NONE"
  BY <1>2 DEF IInv, TypeOK, Frames
<1>4. CASE state'[t] = "DONE"
  BY <1>1, <1>4
<1>5. CASE state'[t] = state[t] /\ state[t] # "DONE"
  <2>1. state[t] = "RUNNING"
    BY <1>1, <1>3, <1>5 DEF States, Finished
  <2> QED BY <1>1, <2>1 DEF IInv, NoReentry
<1> QED BY <1>4, <1>5

\* Whatever run() an await goes through, its answer is that of a task that is
\* done or executes.
LEMMA AwaitedStep ==
  IInv /\ [Next]_vars =>
    \A u \in awaited' \ awaited :
        state'[u] = "DONE" \/ \E i \in DOMAIN drains : drains[i].body = u
<1> SUFFICES ASSUME IInv, [Next]_vars, NEW u \in awaited' \ awaited
             PROVE  state'[u] = "DONE" \/ \E i \in DOMAIN drains : drains[i].body = u
  OBVIOUS
<1>1. ASSUME NEW a \in Known \cup {NoTask}, Drain(a)
      PROVE  state'[u] = "DONE" \/ \E i \in DOMAIN drains : drains[i].body = u
  <2>1. ~ BeginDrain(a)
    BY DEF BeginDrain
  <2>2. AwaitReturns(a) /\ a # NoTask
    BY <1>1, <2>1 DEF Drain, RunInProcesses, RunNothing, AwaitReturns
  <2>3. a \in Known /\ a \in Tasks
    BY <2>2, TaskRuntimeAssumption DEF Known, Tasks, IInv, TypeOK
  <2>4. CASE RunInProcesses(a)
    <3>1. state'[a] = IF a \in Ready THEN "DONE" ELSE state[a]
      BY <2>3, <2>4 DEF RunInProcesses
    <3>2. state'[a] # "READY" /\ (state'[a] = state[a] \/ state'[a] = "DONE")
      BY <2>3, <3>1 DEF Ready
    <3> QED BY <2>2, <2>3, <3>2, AwaitStep
  <2>5. CASE RunNothing(a)
    <3>1. state'[a] = state[a] /\ state[a] # "READY"
      BY <2>3, <2>5 DEF RunNothing, Ready
    <3> QED BY <2>2, <2>3, <3>1, AwaitStep
  <2> QED BY <1>1, <2>1, <2>4, <2>5 DEF Drain
<1>2. ASSUME NEW t \in Known, Await(t)
      PROVE  state'[u] = "DONE" \/ \E i \in DOMAIN drains : drains[i].body = u
  <2>1. CASE Drain(t)
    BY <1>1, <2>1
  <2>2. CASE state[t] \in Finished /\ UNCHANGED <<state, drains>> /\ AwaitReturns(t)
    <3>1. state'[t] = state[t] /\ state'[t] # "READY"
      BY <2>2 DEF Finished
    <3> QED BY <2>2, <3>1, AwaitStep
  <2> QED BY <1>2, <2>1, <2>2 DEF Await
<1>3. ASSUME EndDrain
      PROVE  state'[u] = "DONE" \/ \E i \in DOMAIN drains : drains[i].body = u
  <2>1. /\ Draining /\ Top.todo = {} /\ state' = state /\ AwaitReturns(Top.awaits)
    BY <1>3 DEF EndDrain
  <2>2. Top \in Drains /\ Top = drains[Len(drains)] /\ Len(drains) \in DOMAIN drains
    BY <2>1, TopFacts
  <2>3. Top.awaits # NoTask
    BY <2>1 DEF AwaitReturns
  <2>4. Top.awaits \in Nat /\ Top.known \in Nat /\ spawned \in Nat
    BY <2>2, TaskRuntimeAssumption DEF Drains, Tasks, NoTask, IInv, TypeOK
  <2>5. Top.awaits <= Top.known /\ Top.known <= spawned
    BY <2>2 DEF IInv, Frames
  <2>6. Top.awaits \in Known /\ Top.awaits \in 1..Top.known
    BY <2>3, <2>4, <2>5 DEF Known, NoTask
  <2>7. state[Top.awaits] # "READY"
    BY <2>1, <2>2, <2>6 DEF IInv, NothingForgotten
  <2> QED BY <2>1, <2>6, <2>7, AwaitStep
<1>4. ASSUME UNCHANGED awaited PROVE FALSE
  BY <1>4
<1>5. CASE UNCHANGED vars
  BY <1>4, <1>5 DEF vars
<1>6. ASSUME NEW t \in Known, Cancel(t) PROVE UNCHANGED awaited
  BY <1>6 DEF Cancel
<1>7. ASSUME NEW t \in Known, NEW p \in Payloads, Transfer(t, p) \/ Release(t, p)
      PROVE  UNCHANGED awaited
  BY <1>7 DEF Transfer, Release
<1>8. ASSUME Spawn \/ BodyEnds \/ \E t \in Tasks : Execute(t) PROVE UNCHANGED awaited
  BY <1>8 DEF Spawn, BodyEnds, Execute
<1> QED BY <1>1, <1>2, <1>3, <1>4, <1>5, <1>6, <1>7, <1>8 DEF Next, Call, Advance

\* await_task answers only for a task that is done or whose function executes.
THEOREM AwaitsHaveAnswers == Spec => AwaitsAreAnswered
<1>1. IInv /\ [Next]_vars =>
        [\A t \in awaited' \ awaited :
            state'[t] = "DONE" \/ \E i \in DOMAIN drains : drains[i].body = t]_vars
  BY AwaitedStep
<1> QED BY <1>1, InitIInv, NextIInv, PTL DEF Spec, AwaitsAreAnswered
-----------------------------------------------------------------------------
(* Channel.  NoLostWakeup is inductive with the type invariant: a step that *)
(* could make a waiting thread runnable - a put, a take, a close - empties  *)
(* the wait set of that channel, and no other step changes what a waiting   *)
(* thread waits for.                                                        *)
ChannelInv == ChannelTypeOK /\ NoLostWakeup

\* New channels are empty and nobody waits.
LEMMA ChannelInitInv == ChannelInit => ChannelInv
<1> SUFFICES ASSUME ChannelInit PROVE ChannelInv
  OBVIOUS
<1>1. <<>> \in Seq(Items) /\ 0 \in 0..MaxItems
  BY ChannelAssumption
<1>2. ChannelTypeOK
  BY <1>1 DEF ChannelInit, ChannelTypeOK
<1>3. NoLostWakeup
  BY DEF ChannelInit, NoLostWakeup
<1> QED BY <1>2, <1>3 DEF ChannelInv

\* A thread inside a send or receive names an existing channel.
LEMMA CallFacts ==
  ASSUME ChannelInv, NEW t \in Threads
  PROVE  /\ Transferring(t) => call[t] \in Transfers /\ call[t].on \in Channels
         /\ Sending(t) => call[t].item \in Items
         /\ Selecting(t) => call[t] \in Selects
         /\ Idle \notin Transfers /\ Idle.op = "none"
  BY DEF ChannelInv, ChannelTypeOK, Transfers, Selects, Idle, Transferring, Sending,
         Receiving, Selecting

\* Changing the call of a thread that waits nowhere keeps the invariant.
LEMMA CallPreserves ==
  ASSUME ChannelInv, NEW t \in Threads, NEW r \in {Idle} \cup Transfers \cup Selects,
         \A c \in Channels : t \notin waiting[c],
         call' = [call EXCEPT ![t] = r],
         UNCHANGED <<queue, closed, cancelled, waiting>>,
         offered' \in 0..MaxItems, concluded' \in BOOLEAN
  PROVE  ChannelInv'
<1>1. ChannelTypeOK'
  BY DEF ChannelInv, ChannelTypeOK
<1>2. ASSUME NEW c \in Channels, NEW u \in waiting'[c]
      PROVE  /\ Transferring(u)' /\ call'[u].on = c /\ call'[u].at = "wait"
             /\ ~ MayGoOn(u)'
  <2>1. u \in waiting[c] /\ u # t /\ u \in Threads
    BY <1>2 DEF ChannelInv, ChannelTypeOK
  <2>2. call'[u] = call[u]
    BY <2>1 DEF ChannelInv, ChannelTypeOK
  <2>3. Transferring(u) /\ call[u].on = c /\ call[u].at = "wait" /\ ~ MayGoOn(u)
    BY <2>1 DEF ChannelInv, NoLostWakeup
  <2> QED BY <2>2, <2>3 DEF Transferring, Sending, Receiving, MayGoOn, Full, Empty
<1> QED BY <1>1, <1>2 DEF ChannelInv, NoLostWakeup

\* Changing a channel keeps the invariant when everybody waiting on it is
\* notified, together with the return of a thread that waits nowhere.
LEMMA ChannelPreserves ==
  ASSUME ChannelInv, NEW c \in Channels,
         queue' \in [Channels -> Seq(Items)], closed' \in [Channels -> BOOLEAN],
         cancelled' \in [Channels -> BOOLEAN],
         \A d \in Channels : d # c => queue'[d] = queue[d] /\ closed'[d] = closed[d],
         NotifyAll(c),
         call' \in [Threads -> {Idle} \cup Transfers \cup Selects],
         \A u \in Threads :
             call'[u] = call[u] \/ \A d \in Channels : u \notin waiting[d],
         UNCHANGED <<offered, concluded>>
  PROVE  ChannelInv'
<1>1. ChannelTypeOK'
  BY DEF ChannelInv, ChannelTypeOK, NotifyAll
<1>2. ASSUME NEW d \in Channels, NEW u \in waiting'[d]
      PROVE  /\ Transferring(u)' /\ call'[u].on = d /\ call'[u].at = "wait"
             /\ ~ MayGoOn(u)'
  <2>1. d # c /\ u \in waiting[d] /\ u \in Threads
    BY <1>2 DEF ChannelInv, ChannelTypeOK, NotifyAll
  <2>2. call'[u] = call[u] /\ queue'[d] = queue[d] /\ closed'[d] = closed[d]
    BY <2>1
  <2>3. Transferring(u) /\ call[u].on = d /\ call[u].at = "wait" /\ ~ MayGoOn(u)
    BY <2>1 DEF ChannelInv, NoLostWakeup
  <2> QED BY <2>2, <2>3 DEF Transferring, Sending, Receiving, MayGoOn, Full, Empty
<1> QED BY <1>1, <1>2 DEF ChannelInv, NoLostWakeup

\* A thread outside a wait set of its own channel is in no wait set.
LEMMA WaitsOnlyThere ==
  ASSUME ChannelInv, NEW t \in Threads, ~ Transferring(t) \/ HasLock(t)
  PROVE  \A c \in Channels : t \notin waiting[c]
  BY DEF ChannelInv, NoLostWakeup, HasLock

\* Every step of every thread keeps the invariant.
LEMMA ChannelNextInv == ChannelInv /\ [ChannelNext]_channelVars => ChannelInv'
<1> SUFFICES ASSUME ChannelInv, [ChannelNext]_channelVars PROVE ChannelInv'
  OBVIOUS
<1> USE ChannelAssumption
<1>1. ASSUME NEW t \in Threads, ChannelCall(t) PROVE ChannelInv'
  <2>1. PICK r \in Transfers \cup Selects :
           /\ call[t] = Idle /\ call' = [call EXCEPT ![t] = r]
           /\ UNCHANGED <<queue, closed, cancelled, waiting, concluded>>
           /\ offered' \in 0..MaxItems
    <3>1. ASSUME NEW c \in Channels, NEW timed \in BOOLEAN, Offer(t, c, timed)
          PROVE  \E r \in Transfers \cup Selects :
                   /\ call[t] = Idle /\ call' = [call EXCEPT ![t] = r]
                   /\ UNCHANGED <<queue, closed, cancelled, waiting, concluded>>
                   /\ offered' \in 0..MaxItems
      <4>1. PICK r : r = [op |-> "send", on |-> c, item |-> offered + 1,
                          timed |-> timed, at |-> "enter"]
        OBVIOUS
      <4>2. offered + 1 \in Items /\ offered' \in 0..MaxItems
        BY <3>1 DEF Offer, ChannelInv, ChannelTypeOK, Items
      <4>3. r \in Transfers
        BY <4>1, <4>2 DEF Transfers
      <4> QED BY <3>1, <4>1, <4>2, <4>3 DEF Offer, Enter
    <3>2. ASSUME NEW c \in Channels, NEW timed \in BOOLEAN, Request(t, c, timed)
          PROVE  \E r \in Transfers \cup Selects :
                   /\ call[t] = Idle /\ call' = [call EXCEPT ![t] = r]
                   /\ UNCHANGED <<queue, closed, cancelled, waiting, concluded>>
                   /\ offered' \in 0..MaxItems
      BY <3>2 DEF Request, Enter, Transfers, ChannelInv, ChannelTypeOK
    <3>3. ASSUME CallSelect(t)
          PROVE  \E r \in Transfers \cup Selects :
                   /\ call[t] = Idle /\ call' = [call EXCEPT ![t] = r]
                   /\ UNCHANGED <<queue, closed, cancelled, waiting, concluded>>
                   /\ offered' \in 0..MaxItems
      <4>1. [op |-> "select", next |-> 1] \in Selects
        BY DEF Selects
      <4>2. offered' \in 0..MaxItems
        BY <3>3 DEF CallSelect, ChannelInv, ChannelTypeOK
      <4> QED BY <3>3, <4>1, <4>2 DEF CallSelect, Enter
    <3> QED BY <1>1, <3>1, <3>2, <3>3
            DEF ChannelCall, CallSend, CallTrySend, CallReceive, CallTryReceive
  <2>2. ~ Transferring(t)
    BY <2>1 DEF Transferring, Sending, Receiving, Idle
  <2>3. concluded' \in BOOLEAN
    BY <2>1 DEF ChannelInv, ChannelTypeOK
  <2> QED BY <2>1, <2>2, <2>3, CallPreserves, WaitsOnlyThere
<1>2. ASSUME NEW t \in Threads, Wait(t) PROVE ChannelInv'
  <2>1. call[t] \in Transfers /\ call[t].on \in Channels /\ Transferring(t)
    BY <1>2, CallFacts DEF Wait, HasLock
  <2>2. PICK r : r = [call[t] EXCEPT !.at = "wait"]
    OBVIOUS
  <2>3. /\ r \in Transfers /\ r.on = call[t].on /\ r.op = call[t].op
        /\ r.at = "wait"
    BY <2>1, <2>2 DEF Transfers
  <2>4. call' = [call EXCEPT ![t] = r]
    BY <1>2, <2>2 DEF Wait
  <2>5. /\ UNCHANGED <<queue, closed, cancelled, offered, concluded>>
        /\ waiting' = [waiting EXCEPT ![call[t].on] = @ \cup {t}]
        /\ \A c \in Channels : t \notin waiting[c]
        /\ ~ MayGoOn(t)
    BY <1>2, WaitsOnlyThere DEF Wait
  <2>6. ChannelTypeOK'
    BY <2>1, <2>3, <2>4, <2>5 DEF ChannelInv, ChannelTypeOK
  <2>7. ASSUME NEW d \in Channels, NEW u \in waiting'[d]
        PROVE  /\ Transferring(u)' /\ call'[u].on = d /\ call'[u].at = "wait"
               /\ ~ MayGoOn(u)'
    <3>1. CASE u = t
      <4>1. d = call[t].on /\ call'[u] = r
        BY <2>1, <2>4, <2>5, <2>7, <3>1 DEF ChannelInv, ChannelTypeOK
      <4> QED BY <2>1, <2>3, <2>5, <3>1, <4>1
              DEF Transferring, Sending, Receiving, MayGoOn, Full, Empty
    <3>2. CASE u # t
      <4>1. u \in waiting[d] /\ u \in Threads
        BY <2>1, <2>5, <2>7, <3>2 DEF ChannelInv, ChannelTypeOK
      <4>2. call'[u] = call[u]
        BY <2>4, <3>2, <4>1 DEF ChannelInv, ChannelTypeOK
      <4>3. Transferring(u) /\ call[u].on = d /\ call[u].at = "wait" /\ ~ MayGoOn(u)
        BY <4>1 DEF ChannelInv, NoLostWakeup
      <4> QED BY <2>5, <4>2, <4>3
              DEF Transferring, Sending, Receiving, MayGoOn, Full, Empty
    <3> QED BY <3>1, <3>2
  <2> QED BY <2>6, <2>7 DEF ChannelInv, NoLostWakeup
<1>3. ASSUME NEW t \in Threads, Expire(t) PROVE ChannelInv'
  <2>1. call[t] \in Transfers /\ call[t].on \in Channels /\ Transferring(t)
    BY <1>3, CallFacts DEF Expire
  <2>2. PICK r : r = [call[t] EXCEPT !.at = "expired"]
    OBVIOUS
  <2>3. r \in Transfers
    BY <2>1, <2>2 DEF Transfers
  <2>4. /\ call' = [call EXCEPT ![t] = r]
        /\ waiting' = [waiting EXCEPT ![call[t].on] = @ \ {t}]
        /\ UNCHANGED <<queue, closed, cancelled, offered, concluded>>
    BY <1>3, <2>2 DEF Expire
  <2>5. ChannelTypeOK'
    BY <2>1, <2>3, <2>4 DEF ChannelInv, ChannelTypeOK
  <2>6. ASSUME NEW d \in Channels, NEW u \in waiting'[d]
        PROVE  /\ Transferring(u)' /\ call'[u].on = d /\ call'[u].at = "wait"
               /\ ~ MayGoOn(u)'
    <3>1. u \in waiting[d] /\ u \in Threads
      BY <2>1, <2>4, <2>6 DEF ChannelInv, ChannelTypeOK
    <3>2. Transferring(u) /\ call[u].on = d /\ call[u].at = "wait" /\ ~ MayGoOn(u)
      BY <3>1 DEF ChannelInv, NoLostWakeup
    <3>3. u # t
      BY <2>1, <2>4, <2>6, <3>2 DEF ChannelInv, ChannelTypeOK
    <3>4. call'[u] = call[u]
      BY <2>4, <3>1, <3>3 DEF ChannelInv, ChannelTypeOK
    <3> QED BY <2>4, <3>2, <3>4
            DEF Transferring, Sending, Receiving, MayGoOn, Full, Empty
  <2> QED BY <2>5, <2>6 DEF ChannelInv, NoLostWakeup
<1>4. ASSUME NEW t \in Threads, TimeOut(t) \/ FailClosed(t) PROVE ChannelInv'
  <2>1. /\ HasLock(t) /\ call' = [call EXCEPT ![t] = Idle]
        /\ UNCHANGED <<queue, closed, cancelled, waiting, offered, concluded>>
    BY <1>4 DEF TimeOut, FailClosed, Return
  <2>2. offered' \in 0..MaxItems /\ concluded' \in BOOLEAN
    BY <2>1 DEF ChannelInv, ChannelTypeOK
  <2> QED BY <2>1, <2>2, CallPreserves, WaitsOnlyThere
<1>5. ASSUME NEW t \in Threads, Put(t) \/ Take(t) PROVE ChannelInv'
  <2>1. /\ HasLock(t) /\ call' = [call EXCEPT ![t] = Idle]
        /\ NotifyAll(call[t].on)
        /\ UNCHANGED <<closed, cancelled, offered, concluded>>
    BY <1>5 DEF Put, Take, Return
  <2>2. call[t].on \in Channels /\ (Sending(t) => call[t].item \in Items)
    BY <2>1, CallFacts DEF HasLock
  <2>3. /\ queue' \in [Channels -> Seq(Items)]
        /\ \A d \in Channels : d # call[t].on => queue'[d] = queue[d]
    <3>1. CASE Put(t)
      BY <2>2, <3>1 DEF Put, ChannelInv, ChannelTypeOK
    <3>2. CASE Take(t)
      <4>1. queue[call[t].on] # <<>> /\ queue[call[t].on] \in Seq(Items)
        BY <2>2, <3>2 DEF Take, Empty, ChannelInv, ChannelTypeOK
      <4>2. Tail(queue[call[t].on]) \in Seq(Items)
        BY <4>1
      <4> QED BY <2>2, <3>2, <4>2 DEF Take, ChannelInv, ChannelTypeOK
    <3> QED BY <1>5, <3>1, <3>2
  <2>4. /\ closed' \in [Channels -> BOOLEAN] /\ cancelled' \in [Channels -> BOOLEAN]
        /\ \A d \in Channels : closed'[d] = closed[d]
        /\ call' \in [Threads -> {Idle} \cup Transfers \cup Selects]
    BY <2>1 DEF ChannelInv, ChannelTypeOK
  <2>5. \A u \in Threads :
           call'[u] = call[u] \/ \A d \in Channels : u \notin waiting[d]
    BY <2>1, WaitsOnlyThere DEF ChannelInv, ChannelTypeOK
  <2> QED BY <2>1, <2>2, <2>3, <2>4, <2>5, ChannelPreserves
<1>6. ASSUME NEW t \in Threads, Peek(t) \/ Conclude(t) \/ GiveUp(t) \/ Rescan(t)
      PROVE  ChannelInv'
  <2>1. Selecting(t) /\ call[t] \in Selects /\ ~ Transferring(t)
    BY <1>6, CallFacts
    DEF Peek, Conclude, GiveUp, Rescan, Selecting, Transferring, Sending, Receiving
  <2>2. PICK r \in {Idle} \cup Transfers \cup Selects :
           call' = [call EXCEPT ![t] = r]
    <3>1. CASE Peek(t)
      <4>1. call[t].next \in 1..(NumChannels + 1)
        BY <2>1 DEF Selects
      <4>2. [op |-> "select", next |-> call[t].next + 1] \in Selects
        BY <3>1, <4>1 DEF Peek, Selects
      <4>3. [op |-> "receive", on |-> call[t].next, timed |-> TRUE,
             at |-> "enter"] \in Transfers
        BY <3>1, <4>1 DEF Peek, Transfers, Channels
      <4> QED BY <3>1, <4>2, <4>3 DEF Peek
    <3>2. CASE Conclude(t) \/ GiveUp(t)
      BY <3>2 DEF Conclude, GiveUp, Return
    <3>3. CASE Rescan(t)
      <4>1. [call[t] EXCEPT !.next = 1] \in Selects
        BY <2>1 DEF Selects
      <4> QED BY <3>3, <4>1 DEF Rescan
    <3> QED BY <1>6, <3>1, <3>2, <3>3
  <2>3. /\ UNCHANGED <<queue, closed, cancelled, waiting, offered>>
        /\ concluded' \in BOOLEAN
    BY <1>6 DEF Peek, Conclude, GiveUp, Rescan, ChannelInv, ChannelTypeOK
  <2>4. offered' \in 0..MaxItems
    BY <2>3 DEF ChannelInv, ChannelTypeOK
  <2> QED BY <2>1, <2>2, <2>3, <2>4, CallPreserves, WaitsOnlyThere
<1>7. ASSUME NEW c \in Channels, Close(c) \/ CancelChannel(c) PROVE ChannelInv'
  <2>1. /\ closed' = [closed EXCEPT ![c] = TRUE] /\ NotifyAll(c)
        /\ UNCHANGED <<queue, call, offered, concluded>>
    BY <1>7 DEF Close, CancelChannel
  <2>2. cancelled' \in [Channels -> BOOLEAN]
    BY <1>7 DEF Close, CancelChannel, ChannelInv, ChannelTypeOK
  <2>3. /\ queue' \in [Channels -> Seq(Items)] /\ closed' \in [Channels -> BOOLEAN]
        /\ \A d \in Channels : d # c => queue'[d] = queue[d] /\ closed'[d] = closed[d]
        /\ call' \in [Threads -> {Idle} \cup Transfers \cup Selects]
    BY <2>1 DEF ChannelInv, ChannelTypeOK
  <2> QED BY <2>1, <2>2, <2>3, ChannelPreserves
<1>8. CASE UNCHANGED channelVars
  BY <1>8 DEF channelVars, ChannelInv, ChannelTypeOK, NoLostWakeup, Transferring, Sending,
              Receiving, MayGoOn, Full, Empty
<1> QED BY <1>1, <1>2, <1>3, <1>4, <1>5, <1>6, <1>7, <1>8 DEF ChannelNext, ChannelAdvance

\* The channels, wait sets and calls stay well typed.
THEOREM ChannelTypes == ChannelSpec => []ChannelTypeOK
<1>1. ChannelInv => ChannelTypeOK
  BY DEF ChannelInv
<1> QED BY <1>1, ChannelInitInv, ChannelNextInv, PTL DEF ChannelSpec

\* No thread is left in a wait set when it could go on.
THEOREM WakeupsArrive == ChannelSpec => []NoLostWakeup
<1>1. ChannelInv => NoLostWakeup
  BY DEF ChannelInv
<1> QED BY <1>1, ChannelInitInv, ChannelNextInv, PTL DEF ChannelSpec

\* Every step of the threads is a step of the bounded queues or none.
LEMMA FifoStep == ChannelInv /\ [ChannelNext]_channelVars => [Fifo!Next]_(Fifo!vars)
<1> SUFFICES ASSUME ChannelInv, [ChannelNext]_channelVars PROVE [Fifo!Next]_(Fifo!vars)
  OBVIOUS
<1> USE DEF Fifo!vars, Fifo!Next
<1>1. ASSUME NEW t \in Threads, Put(t) PROVE Fifo!Next
  <2>1. /\ Sending(t) /\ Transferring(t) /\ MayGoOn(t) /\ ~ closed[call[t].on]
        /\ queue' = [queue EXCEPT ![call[t].on] = Append(@, call[t].item)]
        /\ UNCHANGED <<closed, cancelled>>
    BY <1>1 DEF Put, Transferring
  <2>2. call[t].on \in Channels /\ call[t].item \in Items
    BY <2>1, CallFacts
  <2>3. ~ (Len(queue[call[t].on]) >= Capacity)
    BY <2>1 DEF MayGoOn, Full
  <2>4. Len(queue[call[t].on]) < Capacity
    BY <2>2, <2>3, ChannelAssumption DEF ChannelInv, ChannelTypeOK
  <2>5. Fifo!Put(call[t].on, call[t].item)
    BY <2>1, <2>4 DEF Fifo!Put
  <2> QED BY <2>2, <2>5
<1>2. ASSUME NEW t \in Threads, Take(t) PROVE Fifo!Next
  <2>1. call[t].on \in Channels
    BY <1>2, CallFacts DEF Take, HasLock
  <2>2. Fifo!Take(call[t].on)
    BY <1>2 DEF Take, Empty, Fifo!Take
  <2> QED BY <2>1, <2>2
<1>3. ASSUME NEW c \in Channels, Close(c) PROVE Fifo!Next
  <2>1. Fifo!Close(c)
    BY <1>3 DEF Close, Fifo!Close
  <2> QED BY <2>1
<1>4. ASSUME NEW c \in Channels, CancelChannel(c) PROVE Fifo!Next
  <2>1. Fifo!Cancel(c)
    BY <1>4 DEF CancelChannel, Fifo!Cancel
  <2> QED BY <2>1
<1>5. ASSUME NEW t \in Threads, ChannelCall(t) PROVE UNCHANGED <<queue, closed, cancelled>>
  BY <1>5 DEF ChannelCall, CallSend, CallTrySend, CallReceive, CallTryReceive,
              CallSelect, Offer, Request, Enter
<1>6. ASSUME NEW t \in Threads,
             \/ Wait(t) \/ Expire(t) \/ TimeOut(t) \/ FailClosed(t)
             \/ Peek(t) \/ Conclude(t) \/ GiveUp(t) \/ Rescan(t)
      PROVE  UNCHANGED <<queue, closed, cancelled>>
  BY <1>6 DEF Wait, Expire, TimeOut, FailClosed, Peek, Conclude, GiveUp, Rescan
<1>7. CASE UNCHANGED channelVars
  BY <1>7 DEF channelVars
<1> QED BY <1>1, <1>2, <1>3, <1>4, <1>5, <1>6, <1>7 DEF ChannelNext, ChannelAdvance

\* The channels implement bounded first-in-first-out queues.
THEOREM ChannelsAreFifo == ChannelSpec => ImplementsFifo
<1>1. ChannelInit => Fifo!Init
  BY DEF ChannelInit, Fifo!Init
<1> QED BY <1>1, ChannelInitInv, ChannelNextInv, FifoStep, PTL
    DEF ChannelSpec, ImplementsFifo, Fifo!Spec
-----------------------------------------------------------------------------
(* ReplicatedKey.  A site keeps the maximal ones of the writes it took, and  *)
(* Covered says that these stand for all of them: each is kept or succeeded  *)
(* by one that is kept.  So a write that no sibling succeeds is succeeded by *)
(* nothing that was taken.                                                   *)
Write == [vector : Vectors, value : Nat]

Covered(kept, took) ==
    \A v \in took : \E u \in kept : u = v \/ dominates(u.vector, v.vector)

SiteIsSound(kept, took) ==
    /\ IsFiniteSet(kept) /\ Cardinality(kept) <= MaxSiblings
    /\ kept = Maximal(took) /\ Covered(kept, took)

KeyTypeOK ==
    /\ writes \in SUBSET Write /\ IsFiniteSet(writes)
    /\ siblings \in [Sites -> SUBSET Write]
    /\ quarantine \in [Sites -> SUBSET Write]
    /\ taken \in [Sites -> SUBSET Write]
    /\ stamp \in [Sites -> Nat]

KeyInv == KeyTypeOK /\ \A s \in Sites : SiteIsSound(siblings[s], taken[s])

(* What one vector succeeds is a strict partial order.                      *)
LEMMA SuccessionIsAnOrder ==
    /\ \A a, b \in Vectors : dominates(a, b) => ~ dominates(b, a)
    /\ \A a, b, c \in Vectors : dominates(a, b) /\ dominates(b, c) => dominates(a, c)
<1>1. ASSUME NEW a \in Vectors, NEW b \in Vectors, dominates(a, b) PROVE ~ dominates(b, a)
  <2> SUFFICES ASSUME dominates(b, a) PROVE FALSE
    OBVIOUS
  <2>1. \A s \in Sites : a[s] = b[s]
    BY <1>1 DEF dominates, Vectors
  <2> QED BY <2>1, <1>1 DEF dominates, Vectors
<1>2. ASSUME NEW a \in Vectors, NEW b \in Vectors, NEW c \in Vectors,
             dominates(a, b), dominates(b, c)
      PROVE  dominates(a, c)
  <2>1. \A s \in Sites : a[s] >= c[s]
    BY <1>2 DEF dominates, Vectors
  <2>2. a # c
    BY <1>1, <1>2
  <2> QED BY <2>1, <2>2 DEF dominates
<1> QED BY <1>1, <1>2

(* Whoever merges a finite set of writes has a vector that is at least each  *)
(* of theirs.                                                                *)
LEMMA MergedCovers ==
    ASSUME NEW S \in SUBSET Write, IsFiniteSet(S)
    PROVE  /\ Merged(S) \in Vectors
           /\ \A v \in S, t \in Sites : Merged(S)[t] >= v.vector[t]
<1> SUFFICES ASSUME NEW t \in Sites
             PROVE  LET counts == {v.vector[t] : v \in S} \cup {0}
                    IN  Max(counts) \in Nat /\ \A n \in counts : n <= Max(counts)
  <2> DEFINE most(t) == Max({v.vector[t] : v \in S} \cup {0})
  <2>1. Merged(S) = [t \in Sites |-> most(t)]
    BY DEF Merged
  <2>2. \A t \in Sites : most(t) \in Nat /\ \A v \in S : v.vector[t] <= most(t)
    OBVIOUS
  <2>3. \A v \in S, t \in Sites : v.vector[t] \in Nat
    BY DEF Write, Vectors
  <2> HIDE DEF most
  <2> QED BY <2>1, <2>2, <2>3 DEF Vectors
<1> DEFINE image == {v.vector[t] : v \in S}
           f == [v \in S |-> v.vector[t]]
<1>1. f \in Surjection(S, image)
  BY DEF Surjection
<1>2. IsFiniteSet(image)
  <2> HIDE DEF f, image
  <2> QED BY <1>1, FS_Surjection
<1>3. IsFiniteSet(image \cup {0})
  <2> HIDE DEF image
  <2> QED BY <1>2, FS_AddElement
<1>4. image \cup {0} \subseteq Nat
  BY DEF Write, Vectors
<1> HIDE DEF image
<1>5. Max(image \cup {0}) \in Nat /\ \A n \in image \cup {0} : n <= Max(image \cup {0})
  BY <1>3, <1>4, LargestNatural
<1> QED BY <1>5 DEF image

(* A write that nothing kept succeeds joins what is kept, in the place of    *)
(* those it succeeds itself.                                                 *)
LEMMA JoiningIsSound ==
    ASSUME NEW took \in SUBSET Write, NEW kept \in SUBSET Write, NEW w \in Write,
           SiteIsSound(kept, took), w \notin kept,
           \A v \in kept : ~ dominates(v.vector, w.vector),
           NEW rest, rest = {v \in kept : ~ dominates(w.vector, v.vector)},
           Cardinality(rest) + 1 <= MaxSiblings
    PROVE  SiteIsSound(rest \cup {w}, took \cup {w})
<1>1. IsFiniteSet(rest) /\ Cardinality(rest) \in Nat
  BY FS_Subset, FS_CardinalityType DEF SiteIsSound
<1>2. w \notin rest
  OBVIOUS
<1>3. IsFiniteSet(rest \cup {w}) /\ Cardinality(rest \cup {w}) <= MaxSiblings
  BY <1>1, <1>2, FS_AddElement
<1>4. \A v \in took : ~ dominates(v.vector, w.vector)
  <2> SUFFICES ASSUME NEW v \in took, dominates(v.vector, w.vector) PROVE FALSE
    OBVIOUS
  <2>1. PICK u \in kept : u = v \/ dominates(u.vector, v.vector)
    BY DEF SiteIsSound, Covered
  <2>2. dominates(u.vector, w.vector)
    BY <2>1, SuccessionIsAnOrder DEF Write
  <2> QED BY <2>2
<1>5. ~ dominates(w.vector, w.vector)
  BY DEF dominates
<1>6. rest \cup {w} = Maximal(took \cup {w})
  <2>1. kept \subseteq took
    BY DEF SiteIsSound, Maximal
  <2>2. ASSUME NEW v \in rest \cup {w} PROVE v \in Maximal(took \cup {w})
    <3>1. CASE v = w
      BY <3>1, <1>4, <1>5 DEF Maximal
    <3>2. CASE v \in rest
      BY <3>2, <2>1 DEF SiteIsSound, Maximal
    <3> QED BY <3>1, <3>2
  <2>3. ASSUME NEW v \in Maximal(took \cup {w}) PROVE v \in rest \cup {w}
    BY DEF SiteIsSound, Maximal
  <2> QED BY <2>2, <2>3
<1>7. Covered(rest \cup {w}, took \cup {w})
  <2> SUFFICES ASSUME NEW v \in took
               PROVE  \E u \in rest \cup {w} : u = v \/ dominates(u.vector, v.vector)
    BY DEF Covered
  <2>1. PICK u \in kept : u = v \/ dominates(u.vector, v.vector)
    BY DEF SiteIsSound, Covered
  <2>2. CASE u \in rest
    BY <2>1, <2>2
  <2>3. CASE u \notin rest
    <3>1. dominates(w.vector, u.vector)
      BY <2>3
    <3>2. dominates(w.vector, v.vector)
      BY <3>1, <2>1, SuccessionIsAnOrder DEF Write
    <3> QED BY <3>2
  <2> QED BY <2>2, <2>3
<1> QED BY <1>3, <1>6, <1>7 DEF SiteIsSound

(* A write that succeeds everything kept replaces it.                       *)
LEMMA ResolvingIsSound ==
    ASSUME NEW took \in SUBSET Write, NEW kept \in SUBSET Write, NEW w \in Write,
           SiteIsSound(kept, took), \A v \in kept : dominates(w.vector, v.vector)
    PROVE  SiteIsSound({w}, took \cup {w})
<1>1. ASSUME NEW v \in took PROVE dominates(w.vector, v.vector)
  <2>1. PICK u \in kept : u = v \/ dominates(u.vector, v.vector)
    BY DEF SiteIsSound, Covered
  <2> QED BY <2>1, SuccessionIsAnOrder DEF Write
<1>2. ~ dominates(w.vector, w.vector)
  BY DEF dominates
<1>3. {w} = Maximal(took \cup {w})
  <2>1. \A v \in took : ~ dominates(v.vector, w.vector) /\ v # w
    BY <1>1, <1>2, SuccessionIsAnOrder DEF Write
  <2> QED BY <2>1, <1>1, <1>2 DEF Maximal
<1>4. Covered({w}, took \cup {w})
  BY <1>1 DEF Covered
<1>5. IsFiniteSet({w}) /\ Cardinality({w}) <= MaxSiblings
  <2>1. IsFiniteSet({w}) /\ Cardinality({w}) = 1
    BY FS_Singleton
  <2>2. 1 <= MaxSiblings
    BY KeyAssumption
  <2> QED BY <2>1, <2>2
<1> QED BY <1>3, <1>4, <1>5 DEF SiteIsSound

(* Applying any write, a new one or one that was taken before, keeps every   *)
(* site sound.                                                               *)
LEMMA ApplyIsSound ==
    ASSUME KeyInv, NEW s \in Sites, NEW w \in Write, apply(s, w)
    PROVE  /\ siblings' \in [Sites -> SUBSET Write]
           /\ quarantine' \in [Sites -> SUBSET Write]
           /\ taken' \in [Sites -> SUBSET Write]
           /\ \A t \in Sites : SiteIsSound(siblings'[t], taken'[t])
<1> USE DEF KeyInv, KeyTypeOK
<1>1. CASE /\ \/ w \in siblings[s]
              \/ \E v \in siblings[s] : dominates(v.vector, w.vector)
           /\ taken' = [taken EXCEPT ![s] = @ \cup {w}]
           /\ UNCHANGED <<siblings, quarantine>>
  <2>1. siblings[s] \in SUBSET Write /\ taken[s] \in SUBSET Write
    OBVIOUS
  <2>2. siblings[s] = Maximal(taken[s] \cup {w})
    <3>1. siblings[s] = Maximal(taken[s])
      BY DEF SiteIsSound
    <3>2. \A v \in siblings[s] : ~ dominates(w.vector, v.vector)
      BY <1>1, <2>1, <3>1, SuccessionIsAnOrder DEF Maximal, Write
    <3>3. w \in Maximal(taken[s] \cup {w}) => w \in siblings[s]
      BY <1>1, <3>1 DEF Maximal
    <3> QED BY <3>1, <3>2, <3>3 DEF Maximal
  <2>3. Covered(siblings[s], taken[s] \cup {w})
    BY <1>1 DEF SiteIsSound, Covered
  <2>4. SiteIsSound(siblings'[s], taken'[s])
    BY <1>1, <2>2, <2>3 DEF SiteIsSound
  <2>5. \A t \in Sites : t # s => taken'[t] = taken[t]
    BY <1>1
  <2> QED BY <1>1, <2>4, <2>5
<1>2. CASE /\ w \notin siblings[s]
           /\ \A v \in siblings[s] : ~ dominates(v.vector, w.vector)
           /\ IF Cardinality(Survivors(s, w)) + 1 > MaxSiblings
              THEN /\ quarantine' = [quarantine EXCEPT ![s] = @ \cup {w}]
                   /\ UNCHANGED <<siblings, taken>>
              ELSE /\ Takes(s, w)
                   /\ taken' = [taken EXCEPT ![s] = @ \cup {w}]
                   /\ UNCHANGED quarantine
  <2>1. CASE Cardinality(Survivors(s, w)) + 1 > MaxSiblings
    BY <1>2, <2>1
  <2>2. CASE ~ (Cardinality(Survivors(s, w)) + 1 > MaxSiblings)
    <3> DEFINE rest == Survivors(s, w)
    <3>1. rest = {v \in siblings[s] : ~ dominates(w.vector, v.vector)}
      BY DEF Survivors
    <3>2. Cardinality(rest) + 1 <= MaxSiblings
      <4>1. Cardinality(rest) \in Nat
        BY <3>1, FS_Subset, FS_CardinalityType DEF SiteIsSound
      <4> QED BY <4>1, <2>2, KeyAssumption
    <3>3. siblings[s] \in SUBSET Write /\ taken[s] \in SUBSET Write
      OBVIOUS
    <3> HIDE DEF rest
    <3>4. SiteIsSound(rest \cup {w}, taken[s] \cup {w})
      BY <1>2, <3>1, <3>2, <3>3, JoiningIsSound
    <3>5. /\ siblings' = [siblings EXCEPT ![s] = rest \cup {w}]
          /\ taken' = [taken EXCEPT ![s] = @ \cup {w}] /\ quarantine' = quarantine
      BY <1>2, <2>2 DEF Takes, rest
    <3>6. rest \cup {w} \in SUBSET Write
      BY <3>1, <3>3
    <3> QED BY <3>4, <3>5, <3>6
  <2> QED BY <2>1, <2>2
<1> QED BY <1>1, <1>2 DEF apply

\* What put makes is a write.
LEMMA NewWriteIsWrite ==
    ASSUME KeyInv, NEW a \in Vectors
    PROVE  NewWrite(a) \in Write /\ NewWrite(a).vector = a
  BY FS_CardinalityType DEF KeyInv, KeyTypeOK, NewWrite, Write

\* The counters a site knows of are numbers.
LEMMA RaisedIsNat ==
    ASSUME KeyInv, NEW s \in Sites, NEW n \in Nat
    PROVE  Raised(s, n) \in Nat
<1> DEFINE both == {stamp[s], n}
<1>1. both \subseteq Nat /\ both # {}
  BY DEF KeyInv, KeyTypeOK
<1>2. IsFiniteSet(both)
  BY FS_Singleton, FS_AddElement, IsFiniteSet({stamp[s]} \cup {n}),
     both = {stamp[s]} \cup {n}
<1>3. Max(both) \in Nat
  BY <1>1, <1>2, LargestNatural
<1> QED BY <1>3 DEF Raised

\* put keeps the invariant of the key.
LEMMA PutKeeps ==
    ASSUME KeyInv, NEW s \in Sites, NEW seen \in SUBSET siblings[s], PutAt(s, seen)
    PROVE  KeyInv'
<1> DEFINE merged == Merged(seen)
           n == Raised(s, merged[s]) + 1
           vector == [merged EXCEPT ![s] = n]
           w == NewWrite(vector)
<1>1. seen \in SUBSET Write /\ IsFiniteSet(seen)
  BY FS_Subset DEF KeyInv, KeyTypeOK, SiteIsSound
<1>2. merged \in Vectors
  BY <1>1, MergedCovers
<1>3. /\ apply(s, w) /\ writes' = writes \cup {w}
      /\ stamp' = [stamp EXCEPT ![s] = n]
  BY DEF PutAt
<1> HIDE DEF merged
<1>4. n \in Nat
  BY <1>2, RaisedIsNat DEF Vectors
<1> HIDE DEF n
<1>5. vector \in Vectors
  BY <1>2, <1>4 DEF Vectors
<1> HIDE DEF vector
<1>6. w \in Write
  BY <1>5, NewWriteIsWrite
<1> HIDE DEF w
<1>7. writes' \in SUBSET Write /\ IsFiniteSet(writes') /\ stamp' \in [Sites -> Nat]
  BY <1>3, <1>4, <1>6, FS_AddElement DEF KeyInv, KeyTypeOK
<1> QED BY <1>3, <1>6, <1>7, ApplyIsSound DEF KeyInv, KeyTypeOK

\* resolve keeps the invariant of the key.
LEMMA ResolveKeeps ==
    ASSUME KeyInv, NEW s \in Sites, NEW u \in Sites, resolve(s, u)
    PROVE  KeyInv'
<1> DEFINE merged == Merged(siblings[s])
           vector == [merged EXCEPT ![u] = @ + 1]
           winner == NewWrite(vector)
<1>1. siblings[s] \in SUBSET Write /\ IsFiniteSet(siblings[s]) /\ taken[s] \in SUBSET Write
  BY DEF KeyInv, KeyTypeOK, SiteIsSound
<1>2. merged \in Vectors /\ \A v \in siblings[s], t \in Sites : merged[t] >= v.vector[t]
  BY <1>1, MergedCovers
<1>3. /\ writes' = writes \cup {winner}
      /\ siblings' = [siblings EXCEPT ![s] = {winner}]
      /\ taken' = [taken EXCEPT ![s] = @ \cup {winner}]
      /\ stamp' = [stamp EXCEPT ![s] = Raised(s, winner.vector[s])]
      /\ UNCHANGED quarantine
  BY DEF resolve
<1> HIDE DEF merged
<1>4. vector \in Vectors /\ vector[u] = merged[u] + 1
      /\ \A t \in Sites : vector[t] >= merged[t]
  BY <1>2 DEF Vectors
<1> HIDE DEF vector
<1>5. winner \in Write /\ winner.vector = vector
  BY <1>4, NewWriteIsWrite
<1> HIDE DEF winner
<1>6. ASSUME NEW v \in siblings[s] PROVE dominates(winner.vector, v.vector)
  <2>1. v.vector \in Vectors
    BY <1>1 DEF Write
  <2>2. \A t \in Sites : vector[t] >= v.vector[t]
    BY <2>1, <1>2, <1>4 DEF Vectors
  <2>3. vector[u] # v.vector[u]
    BY <2>1, <1>2, <1>4 DEF Vectors
  <2> QED BY <2>2, <2>3, <1>5 DEF dominates
<1>7. SiteIsSound({winner}, taken[s] \cup {winner})
  <2>1. SiteIsSound(siblings[s], taken[s])
    BY DEF KeyInv
  <2> QED BY <2>1, <1>1, <1>5, <1>6, ResolvingIsSound
<1>8. stamp' \in [Sites -> Nat]
  <2>1. Raised(s, winner.vector[s]) \in Nat
    BY <1>4, <1>5, RaisedIsNat DEF Vectors
  <2> QED BY <2>1, <1>3 DEF KeyInv, KeyTypeOK
<1>9. writes' \in SUBSET Write /\ IsFiniteSet(writes')
  BY <1>3, <1>5, FS_AddElement DEF KeyInv, KeyTypeOK
<1> QED BY <1>3, <1>5, <1>7, <1>8, <1>9 DEF KeyInv, KeyTypeOK

\* The invariant of the key holds always.
LEMMA KeyInvariant == KeySpec => []KeyInv
<1>1. KeyInit => KeyInv
  BY FS_EmptySet, KeyAssumption
  DEF KeyInit, KeyInv, KeyTypeOK, SiteIsSound, Maximal, Covered
<1>2. KeyInv /\ [KeyNext]_keyVars => KeyInv'
  <2> SUFFICES ASSUME KeyInv, [KeyNext]_keyVars PROVE KeyInv'
    OBVIOUS
  <2>1. ASSUME NEW s \in Sites, NEW w \in writes, Deliver(s, w) PROVE KeyInv'
    <3>1. w \in Write /\ apply(s, w) /\ UNCHANGED <<writes, stamp>>
      BY <2>1 DEF Deliver, KeyInv, KeyTypeOK
    <3> QED BY <3>1, ApplyIsSound DEF KeyInv, KeyTypeOK
  <2>2. CASE UNCHANGED keyVars
    BY <2>2 DEF keyVars, KeyInv, KeyTypeOK, SiteIsSound
  <2> QED BY <2>1, <2>2, PutKeeps, ResolveKeeps, KeyAssumption DEF KeyNext
<1> QED BY <1>1, <1>2, PTL DEF KeySpec

(* GAP-05, ConflictsAreKept: in whatever order and however often writes      *)
(* come, a site keeps those, and only those, that nothing it took succeeds.  *)
THEOREM ConflictsKept == KeySpec => []ConflictsAreKept
<1>1. KeyInv => ConflictsAreKept
  BY DEF KeyInv, SiteIsSound, ConflictsAreKept
<1> QED BY <1>1, KeyInvariant, PTL
-----------------------------------------------------------------------------
(* ControlState.  The history has the changes of the store in the order of   *)
(* their revisions; the last one of each key is what the store has, and it   *)
(* is there unless it was compacted.  A copy has what was there before the   *)
(* revision it watches from.                                                 *)
Entry == [value : Controllers \cup {NoValue}, rev : Nat]

ChangeRecord == [rev : Nat, key : StateKeys, value : Controllers \cup {NoValue}]

ControlTypeOK ==
    /\ revision \in Nat /\ compactedAt \in Nat
    /\ data \in [StateKeys -> Entry]
    /\ history \in Seq(ChangeRecord)
    /\ copy \in [Controllers -> [StateKeys -> Entry]]
    /\ from \in [Controllers -> Nat]

HistoryIsOrdered ==
    \A i, j \in DOMAIN history : i < j => history[i].rev < history[j].rev

HistoryIsOfData ==
    /\ \A k \in StateKeys :
          /\ data[k].rev <= revision
          /\ data[k].rev = 0 => data[k] = NoEntry
          /\ data[k].rev > compactedAt =>
                \E i \in DOMAIN history :
                    history[i].key = k /\ history[i].rev = data[k].rev
    /\ \A i \in DOMAIN history :
          LET h == history[i]
          IN  /\ h.rev <= data[h.key].rev
              /\ h.rev = data[h.key].rev => h.value = data[h.key].value

CopiesAreOld ==
    \A c \in Controllers :
        /\ from[c] <= revision + 1
        /\ \A k \in StateKeys :
              /\ copy[c][k].rev <= data[k].rev
              /\ copy[c][k].rev = data[k].rev => copy[c][k] = data[k]
              /\ data[k].rev < from[c] => copy[c][k] = data[k]

ControlInv == ControlTypeOK /\ HistoryIsOrdered /\ HistoryIsOfData /\ CopiesAreOld

(* What is kept of the history is in the order of the revisions too.         *)
LEMMA KeptHistory ==
    ASSUME ControlInv, NEW S, NEW h, h = Kept(history, S)
    PROVE  /\ h \in Seq(ChangeRecord)
           /\ \A i, j \in DOMAIN h : i < j => h[i].rev < h[j].rev
           /\ \A i \in DOMAIN h : h[i] \in S /\ \E k \in DOMAIN history : history[k] = h[i]
           /\ \A k \in DOMAIN history :
                 history[k] \in S => \E i \in DOMAIN h : h[i] = history[k]
<1>1. history \in Seq(ChangeRecord)
  BY DEF ControlInv, ControlTypeOK
<1>2. PICK e : h \in Seq(ChangeRecord) /\ Embeds(e, h, history, S, Len(history))
  BY <1>1, KeptInOrder
<1>3. \A i, j \in DOMAIN h : i < j => h[i].rev < h[j].rev
  <2> SUFFICES ASSUME NEW i \in DOMAIN h, NEW j \in DOMAIN h, i < j
               PROVE  h[i].rev < h[j].rev
    OBVIOUS
  <2>1. i \in 1..Len(h) /\ j \in 1..Len(h) /\ DOMAIN history = 1..Len(history)
    BY <1>1, <1>2
  <2>2. e[i] < e[j] /\ e[i] \in DOMAIN history /\ e[j] \in DOMAIN history
    BY <1>2, <2>1 DEF Embeds
  <2>3. h[i] = history[e[i]] /\ h[j] = history[e[j]]
    BY <1>2, <2>1 DEF Embeds
  <2> QED BY <2>2, <2>3 DEF ControlInv, HistoryIsOrdered
<1> QED BY <1>1, <1>2, <1>3, KeptElements

(* A copy to which the changes since its revision are applied, none of which *)
(* was compacted, is the data.                                               *)
LEMMA WatchedIsData ==
    ASSUME ControlInv, NEW c \in Controllers, from[c] > compactedAt
    PROVE  After(copy[c], Kept(history, {x \in Changes : x.rev >= from[c]})) = data
<1> DEFINE S == {x \in Changes : x.rev >= from[c]}
           h == Kept(history, S)
<1>1. /\ h = Kept(history, S)
      /\ \A x \in S : x.rev >= from[c]
      /\ \A k \in DOMAIN history : history[k].rev >= from[c] => history[k] \in S
  BY DEF Changes
<1> HIDE DEF S, h
<1>2. /\ h \in Seq(ChangeRecord)
      /\ \A i, j \in DOMAIN h : i < j => h[i].rev < h[j].rev
      /\ \A i \in DOMAIN h :
            h[i].rev >= from[c] /\ \E k \in DOMAIN history : history[k] = h[i]
      /\ \A k \in DOMAIN history :
            history[k].rev >= from[c] => \E i \in DOMAIN h : h[i] = history[k]
  <2>1. /\ h \in Seq(ChangeRecord)
        /\ \A i, j \in DOMAIN h : i < j => h[i].rev < h[j].rev
        /\ \A i \in DOMAIN h : h[i] \in S /\ \E k \in DOMAIN history : history[k] = h[i]
        /\ \A k \in DOMAIN history :
              history[k] \in S => \E i \in DOMAIN h : h[i] = history[k]
    BY <1>1, KeptHistory
  <2> QED BY <2>1, <1>1
<1> DEFINE at(k) == {i \in DOMAIN h : h[i].key = k}
           lastOf(k) == CHOOSE i \in at(k) : \A j \in at(k) : j <= i
           value(k) == IF at(k) = {} THEN copy[c][k]
                       ELSE [value |-> h[lastOf(k)].value, rev |-> h[lastOf(k)].rev]
<1>3. After(copy[c], h) = [k \in StateKeys |-> value(k)]
  BY DEF After
<1>4. ASSUME NEW k \in StateKeys PROVE value(k) = data[k]
  <2>1. data[k].rev >= from[c] =>
            \E i \in at(k) : h[i].rev = data[k].rev
    <3> SUFFICES ASSUME data[k].rev >= from[c]
                 PROVE  \E i \in at(k) : h[i].rev = data[k].rev
      OBVIOUS
    <3>1. data[k].rev > compactedAt
      BY DEF ControlInv, ControlTypeOK, Entry
    <3>2. PICK m \in DOMAIN history : history[m].key = k /\ history[m].rev = data[k].rev
      BY <3>1 DEF ControlInv, HistoryIsOfData
    <3>3. PICK i \in DOMAIN h : h[i] = history[m]
      BY <3>2, <1>2
    <3> QED BY <3>2, <3>3
  <2>2. data[k].rev \in Nat /\ from[c] \in Nat /\ data[k] \in Entry
    BY DEF ControlInv, ControlTypeOK, Entry
  <2>3. CASE at(k) = {}
    <3>1. data[k].rev < from[c]
      BY <2>1, <2>2, <2>3
    <3>2. copy[c][k] = data[k]
      BY <3>1 DEF ControlInv, CopiesAreOld
    <3> QED BY <2>3, <3>2
  <2>4. CASE at(k) # {}
    <3>1. at(k) \subseteq Nat /\ IsFiniteSet(at(k))
      <4>1. DOMAIN h = 1..Len(h) /\ Len(h) \in Nat
        BY <1>2
      <4>2. IsFiniteSet(1..Len(h))
        BY <4>1, FS_Interval
      <4>3. at(k) \in SUBSET (1..Len(h))
        BY <4>1
      <4> HIDE DEF at
      <4>4. IsFiniteSet(at(k))
        BY <4>2, <4>3, FS_Subset
      <4> QED BY <4>1, <4>3, <4>4
    <3>2. \E i \in at(k) : \A j \in at(k) : j <= i
      <4> HIDE DEF at
      <4> QED BY <3>1, <2>4, LargestNatural
    <3> DEFINE n == lastOf(k)
    <3>3. n \in at(k) /\ \A j \in at(k) : j <= n
      <4> HIDE DEF at
      <4> QED BY <3>2
    <3> HIDE DEF n
    <3>4. n \in DOMAIN h /\ h[n].key = k /\ h[n] \in ChangeRecord
      BY <3>3, <1>2
    <3>5. PICK m \in DOMAIN history : history[m] = h[n]
      BY <3>4, <1>2
    <3>6. /\ h[n].rev <= data[k].rev
          /\ h[n].rev = data[k].rev => h[n].value = data[k].value
      BY <3>4, <3>5 DEF ControlInv, HistoryIsOfData
    <3>7. h[n].rev >= from[c] /\ h[n].rev \in Nat
      BY <3>4, <1>2 DEF ChangeRecord
    <3>8. PICK i \in at(k) : h[i].rev = data[k].rev
      BY <2>1, <2>2, <3>6, <3>7
    <3>9. h[n].rev = data[k].rev
      <4>1. i \in DOMAIN h /\ i <= n /\ i \in Nat /\ n \in Nat
        BY <3>1, <3>3, <3>8
      <4>2. i < n => h[i].rev < h[n].rev
        BY <4>1, <3>4, <1>2
      <4> QED BY <4>1, <4>2, <3>6, <3>7, <3>8, <2>2
    <3>10. [value |-> h[n].value, rev |-> h[n].rev] = data[k]
      BY <3>6, <3>9, <2>2 DEF Entry
    <3> QED BY <2>4, <3>10 DEF n
  <2> QED BY <2>3, <2>4
<1> HIDE DEF value
<1>5. data = [k \in StateKeys |-> data[k]]
  BY DEF ControlInv, ControlTypeOK
<1> QED BY <1>3, <1>4, <1>5 DEF h, S

(* A copy that is the data, watched from the next revision on.               *)
LEMMA CatchingUpKeeps ==
    ASSUME ControlInv, NEW c \in Controllers,
           copy' = [copy EXCEPT ![c] = data],
           from' = [from EXCEPT ![c] = revision + 1],
           UNCHANGED <<revision, data, history, compactedAt>>
    PROVE  ControlInv'
<1>1. ControlTypeOK' /\ HistoryIsOrdered' /\ HistoryIsOfData'
  BY DEF ControlInv, ControlTypeOK, HistoryIsOrdered, HistoryIsOfData
<1>2. CopiesAreOld'
  <2> SUFFICES ASSUME NEW d \in Controllers
               PROVE  /\ from'[d] <= revision + 1
                      /\ \A k \in StateKeys :
                            /\ copy'[d][k].rev <= data[k].rev
                            /\ copy'[d][k].rev = data[k].rev => copy'[d][k] = data[k]
                            /\ data[k].rev < from'[d] => copy'[d][k] = data[k]
    BY DEF CopiesAreOld
  <2>1. CASE d = c
    BY <2>1 DEF ControlInv, ControlTypeOK, Entry
  <2>2. CASE d # c
    BY <2>2 DEF ControlInv, ControlTypeOK, CopiesAreOld
  <2> QED BY <2>1, <2>2
<1> QED BY <1>1, <1>2 DEF ControlInv

\* Compaction keeps the invariant of the watchers.
LEMMA CompactKeeps ==
    ASSUME ControlInv, NEW n \in Nat, compact(n)
    PROVE  ControlInv'
<1> DEFINE S == {h \in Changes : h.rev > n}
<1>1. /\ history' = Kept(history, S)
      /\ compactedAt' = IF n > compactedAt THEN n ELSE compactedAt
      /\ UNCHANGED <<revision, data, copy, from>>
  BY DEF compact
<1>2. \A k \in DOMAIN history : history[k] \in S <=> history[k].rev > n
  BY DEF Changes
<1> HIDE DEF S
<1>3. /\ history' \in Seq(ChangeRecord)
      /\ \A i, j \in DOMAIN history' : i < j => history'[i].rev < history'[j].rev
      /\ \A i \in DOMAIN history' : \E k \in DOMAIN history : history[k] = history'[i]
      /\ \A k \in DOMAIN history :
            history[k].rev > n => \E i \in DOMAIN history' : history'[i] = history[k]
  BY <1>1, <1>2, KeptHistory
<1>4. compactedAt' \in Nat /\ compactedAt' >= n /\ compactedAt' >= compactedAt
  BY <1>1 DEF ControlInv, ControlTypeOK
<1>5. ControlTypeOK' /\ HistoryIsOrdered' /\ CopiesAreOld'
  BY <1>1, <1>3, <1>4 DEF ControlInv, ControlTypeOK, HistoryIsOrdered, CopiesAreOld
<1>6. HistoryIsOfData'
  <2>1. ASSUME NEW k \in StateKeys, data[k].rev > compactedAt'
        PROVE  \E i \in DOMAIN history' :
                   history'[i].key = k /\ history'[i].rev = data[k].rev
    <3>1. data[k].rev \in Nat /\ compactedAt \in Nat
      BY DEF ControlInv, ControlTypeOK, Entry
    <3>2. PICK m \in DOMAIN history : history[m].key = k /\ history[m].rev = data[k].rev
      BY <2>1, <1>4, <3>1 DEF ControlInv, HistoryIsOfData
    <3>3. history[m].rev > n
      BY <2>1, <1>4, <3>1, <3>2
    <3> QED BY <3>2, <3>3, <1>3
  <2>2. \A i \in DOMAIN history' :
            /\ history'[i].rev <= data[history'[i].key].rev
            /\ history'[i].rev = data[history'[i].key].rev =>
                  history'[i].value = data[history'[i].key].value
    BY <1>3 DEF ControlInv, HistoryIsOfData
  <2> QED BY <2>1, <2>2, <1>1 DEF ControlInv, HistoryIsOfData
<1> QED BY <1>5, <1>6 DEF ControlInv

(* A transaction gives its keys the next revisions, in order.                *)
LEMMA TxnKeeps ==
    ASSUME ControlInv, NEW c \in Controllers, NEW ops \in Seq(StateKeys), NEW compare,
           \A i, j \in DOMAIN ops : ops[i] = ops[j] => i = j, txn(c, compare, ops)
    PROVE  ControlInv'
<1> DEFINE ks == {ops[i] : i \in DOMAIN ops}
           Place(k) == CHOOSE i \in DOMAIN ops : ops[i] = k
           more == [i \in DOMAIN ops |-> Change(revision + i, ops[i], c)]
<1>1. /\ revision' = revision + Len(ops)
      /\ data' = [k \in StateKeys |->
                    IF k \in ks THEN [value |-> c, rev |-> revision + Place(k)]
                    ELSE data[k]]
      /\ history' = history \o more
      /\ UNCHANGED <<compactedAt, copy, from>>
  BY DEF txn
<1>2. DOMAIN ops = 1..Len(ops) /\ Len(ops) \in Nat
  OBVIOUS
<1>3. \A i \in DOMAIN ops : ops[i] \in StateKeys /\ Place(ops[i]) = i
  OBVIOUS
<1>4. \A k \in ks : Place(k) \in DOMAIN ops /\ ops[Place(k)] = k
  OBVIOUS
<1>k. (\A k \in ks : k \in StateKeys) /\ \A i \in DOMAIN ops : ops[i] \in ks
  OBVIOUS
<1> HIDE DEF Place, ks
<1>5. /\ revision \in Nat /\ compactedAt \in Nat /\ data \in [StateKeys -> Entry]
      /\ history \in Seq(ChangeRecord)
  BY DEF ControlInv, ControlTypeOK
<1>6. more \in Seq(ChangeRecord) /\ Len(more) = Len(ops)
  BY <1>2, <1>3, <1>5 DEF Change, ChangeRecord
<1>7. \A i \in 1..Len(ops) :
          more[i] = [rev |-> revision + i, key |-> ops[i], value |-> c]
  BY <1>2 DEF Change
<1> HIDE DEF more
<1>8. /\ history' \in Seq(ChangeRecord) /\ Len(history') = Len(history) + Len(ops)
      /\ DOMAIN history' = 1..(Len(history) + Len(ops))
      /\ DOMAIN history = 1..Len(history) /\ Len(history) \in Nat
      /\ \A i \in 1..Len(history) : history'[i] = history[i]
      /\ \A i \in 1..Len(ops) : history'[Len(history) + i] = more[i]
  <2> DEFINE long == history \o more
  <2>1. long \in Seq(ChangeRecord) /\ Len(long) = Len(history) + Len(ops)
        /\ Len(history) \in Nat
    <3>1. history \in Seq(ChangeRecord) /\ more \in Seq(ChangeRecord)
      BY <1>5, <1>6
    <3>2. long \in Seq(ChangeRecord) /\ Len(long) = Len(history) + Len(more)
      BY <3>1
    <3> QED BY <3>1, <3>2, <1>6
  <2>2. \A i \in 1..Len(history) : long[i] = history[i]
    BY <1>5, <1>6
  <2>3. \A i \in 1..Len(ops) : long[Len(history) + i] = more[i]
    BY <1>2, <1>5, <1>6
  <2> HIDE DEF long
  <2>4. DOMAIN long = 1..(Len(history) + Len(ops)) /\ DOMAIN history = 1..Len(history)
    BY <2>1, <1>5
  <2> QED BY <2>1, <2>2, <2>3, <2>4, <1>1 DEF long
<1>9. ASSUME NEW i \in DOMAIN history'
      PROVE  \/ i \in DOMAIN history /\ history'[i] = history[i]
             \/ \E j \in DOMAIN ops :
                    /\ i = Len(history) + j
                    /\ history'[i] = [rev |-> revision + j, key |-> ops[j], value |-> c]
  <2>1. CASE i <= Len(history)
    BY <2>1, <1>8
  <2>2. CASE i > Len(history)
    <3>1. i - Len(history) \in 1..Len(ops) /\ i = Len(history) + (i - Len(history))
      BY <2>2, <1>2, <1>8
    <3> QED BY <3>1, <1>2, <1>7, <1>8
  <2> QED BY <2>1, <2>2, <1>8
<1>10. /\ data' \in [StateKeys -> Entry]
       /\ \A k \in ks : data'[k] = [value |-> c, rev |-> revision + Place(k)]
       /\ \A k \in StateKeys \ ks : data'[k] = data[k]
  BY <1>1, <1>2, <1>k, <1>4, <1>5 DEF Entry
<1>11. \A k \in StateKeys : data[k].rev <= revision /\ data[k].rev \in Nat
  BY <1>5 DEF ControlInv, HistoryIsOfData, Entry
<1>12. \A k \in ks : k \in StateKeys /\ data'[k].rev \in (revision + 1)..(revision + Len(ops))
  <2> SUFFICES ASSUME NEW k \in ks
               PROVE  data'[k].rev \in (revision + 1)..(revision + Len(ops))
    BY <1>k
  <2>1. data'[k].rev = revision + Place(k) /\ Place(k) \in 1..Len(ops)
    <3>1. data'[k] = [value |-> c, rev |-> revision + Place(k)]
      BY <1>10
    <3>2. Place(k) \in 1..Len(ops)
      BY <1>2, <1>4
    <3> QED BY <3>1, <3>2
  <2> QED BY <2>1, <1>2, <1>5
<1>13. \A i \in DOMAIN history :
           history[i] \in ChangeRecord /\ history[i].rev <= revision
  <2> SUFFICES ASSUME NEW i \in DOMAIN history
               PROVE  history[i] \in ChangeRecord /\ history[i].rev <= revision
    OBVIOUS
  <2>1. history[i] \in ChangeRecord
    BY <1>5
  <2>2. history[i].key \in StateKeys /\ history[i].rev \in Nat
    BY <2>1 DEF ChangeRecord
  <2>3. history[i].rev <= data[history[i].key].rev
    BY DEF ControlInv, HistoryIsOfData
  <2> QED BY <2>1, <2>2, <2>3, <1>5, <1>11
<1>14. ControlTypeOK'
  BY <1>1, <1>2, <1>5, <1>8, <1>10 DEF ControlInv, ControlTypeOK
<1>15. HistoryIsOrdered'
  <2> SUFFICES ASSUME NEW i \in DOMAIN history', NEW j \in DOMAIN history', i < j
               PROVE  history'[i].rev < history'[j].rev
    BY DEF HistoryIsOrdered
  <2>1. CASE i \in DOMAIN history /\ j \in DOMAIN history
    BY <2>1, <1>8 DEF ControlInv, HistoryIsOrdered
  <2>2. CASE i \in DOMAIN history /\ j \notin DOMAIN history
    <3>1. history'[i].rev <= revision /\ history'[i].rev \in Nat
      BY <2>2, <1>8, <1>13 DEF ChangeRecord
    <3>2. \E m \in DOMAIN ops : history'[j].rev = revision + m
      BY <2>2, <1>9
    <3> QED BY <3>1, <3>2, <1>2, <1>5
  <2>3. CASE i \notin DOMAIN history
    <3>1. j \notin DOMAIN history
      BY <2>3, <1>8
    <3>2. PICK l \in DOMAIN ops : i = Len(history) + l /\ history'[i].rev = revision + l
      BY <2>3, <1>9
    <3>3. PICK m \in DOMAIN ops : j = Len(history) + m /\ history'[j].rev = revision + m
      BY <3>1, <1>9
    <3> QED BY <3>2, <3>3, <1>2, <1>5, <1>8
  <2> QED BY <2>1, <2>2, <2>3
<1>16. HistoryIsOfData'
  <2>1. ASSUME NEW k \in StateKeys
        PROVE  /\ data'[k].rev <= revision'
               /\ data'[k].rev = 0 => data'[k] = NoEntry
               /\ data'[k].rev > compactedAt =>
                    \E i \in DOMAIN history' :
                        history'[i].key = k /\ history'[i].rev = data'[k].rev
    <3>1. CASE k \in ks
      <4>1. data'[k].rev <= revision' /\ data'[k].rev # 0
        <5>1. data'[k].rev \in (revision + 1)..(revision + Len(ops))
          BY <3>1, <1>12
        <5>2. revision' = revision + Len(ops)
          BY <1>1
        <5> QED BY <5>1, <5>2, <1>2, <1>5
      <4>2. Len(history) + Place(k) \in DOMAIN history'
            /\ history'[Len(history) + Place(k)] = more[Place(k)]
        <5>1. Place(k) \in 1..Len(ops)
          BY <3>1, <1>2, <1>4
        <5>2. Len(history) + Place(k) \in 1..(Len(history) + Len(ops))
          BY <5>1, <1>2, <1>8
        <5> QED BY <5>1, <5>2, <1>8
      <4>3. more[Place(k)].key = k /\ more[Place(k)].rev = data'[k].rev
        <5>1. Place(k) \in 1..Len(ops) /\ ops[Place(k)] = k
          BY <3>1, <1>2, <1>4
        <5>2. more[Place(k)] = [rev |-> revision + Place(k), key |-> k, value |-> c]
          BY <5>1, <1>7
        <5>3. data'[k] = [value |-> c, rev |-> revision + Place(k)]
          BY <3>1, <1>10
        <5> QED BY <5>2, <5>3
      <4> QED BY <4>1, <4>2, <4>3
    <3>2. CASE k \notin ks
      <4>1. data'[k] = data[k]
        BY <3>2, <1>10
      <4>2. data'[k].rev <= revision'
        BY <4>1, <1>1, <1>2, <1>5, <1>11
      <4>3. data[k].rev > compactedAt =>
                \E i \in DOMAIN history' :
                    history'[i].key = k /\ history'[i].rev = data[k].rev
        <5> SUFFICES ASSUME data[k].rev > compactedAt
                     PROVE  \E i \in DOMAIN history' :
                                history'[i].key = k /\ history'[i].rev = data[k].rev
          OBVIOUS
        <5>1. PICK i \in DOMAIN history : history[i].key = k /\ history[i].rev = data[k].rev
          BY DEF ControlInv, HistoryIsOfData
        <5>2. i \in DOMAIN history' /\ history'[i] = history[i]
          BY <1>2, <1>8
        <5> QED BY <5>1, <5>2
      <4> QED BY <4>1, <4>2, <4>3 DEF ControlInv, HistoryIsOfData, NoEntry
    <3> QED BY <3>1, <3>2
  <2>2. ASSUME NEW i \in DOMAIN history'
        PROVE  LET h == history'[i]
               IN  /\ h.rev <= data'[h.key].rev
                   /\ h.rev = data'[h.key].rev => h.value = data'[h.key].value
    <3>1. CASE i \in DOMAIN history /\ history'[i] = history[i]
      <4> DEFINE h == history[i]
      <4>1. h \in ChangeRecord /\ h.rev <= revision /\ h.rev <= data[h.key].rev
            /\ (h.rev = data[h.key].rev => h.value = data[h.key].value)
        BY <3>1, <1>13 DEF ControlInv, HistoryIsOfData
      <4> HIDE DEF h
      <4>2. h.key \in StateKeys /\ h.rev \in Nat
        BY <4>1 DEF ChangeRecord
      <4>3. CASE h.key \in ks
        <5>1. data'[h.key].rev > revision
          BY <4>3, <1>5, <1>12, <1>2
        <5>2. h.rev < data'[h.key].rev
          BY <5>1, <4>1, <4>2, <1>5, <1>12, <4>3, <1>2
        <5> QED BY <5>2, <3>1, <4>2, <1>12, <4>3, <1>2, <1>5 DEF h
      <4>4. CASE h.key \notin ks
        <5>1. data'[h.key] = data[h.key]
          BY <4>2, <4>4, <1>10
        <5> QED BY <5>1, <4>1, <3>1 DEF h
      <4> QED BY <4>3, <4>4
    <3>2. ASSUME NEW j \in DOMAIN ops,
                 history'[i] = [rev |-> revision + j, key |-> ops[j], value |-> c]
          PROVE  history'[i].rev = data'[history'[i].key].rev
                 /\ history'[i].value = data'[history'[i].key].value
                 /\ history'[i].rev \in Nat
      <4>1. ops[j] \in ks /\ Place(ops[j]) = j
        BY <1>3, <1>k
      <4>2. data'[ops[j]] = [value |-> c, rev |-> revision + j]
        BY <4>1, <1>10
      <4> QED BY <3>2, <4>2, <1>2, <1>5
    <3> QED BY <3>1, <3>2, <1>9
  <2> QED BY <2>1, <2>2, <1>1 DEF HistoryIsOfData
<1>17. CopiesAreOld'
  <2> SUFFICES ASSUME NEW d \in Controllers
               PROVE  /\ from[d] <= revision' + 1
                      /\ \A k \in StateKeys :
                            /\ copy[d][k].rev <= data'[k].rev
                            /\ copy[d][k].rev = data'[k].rev => copy[d][k] = data'[k]
                            /\ data'[k].rev < from[d] => copy[d][k] = data'[k]
    BY <1>1 DEF CopiesAreOld
  <2>1. from[d] \in Nat /\ from[d] <= revision + 1
    BY DEF ControlInv, ControlTypeOK, CopiesAreOld
  <2>2. from[d] <= revision' + 1
    BY <2>1, <1>1, <1>2, <1>5
  <2>3. ASSUME NEW k \in ks
        PROVE  copy[d][k].rev < data'[k].rev /\ copy[d][k].rev \in Nat
               /\ data'[k].rev \in Nat /\ ~ (data'[k].rev < from[d])
    <3>1. copy[d][k].rev <= data[k].rev /\ copy[d][k].rev \in Nat /\ k \in StateKeys
      BY <1>k DEF ControlInv, ControlTypeOK, CopiesAreOld, Entry
    <3>2. data'[k].rev \in (revision + 1)..(revision + Len(ops)) /\ data[k].rev <= revision
          /\ data[k].rev \in Nat
      BY <3>1, <1>11, <1>12
    <3> QED BY <3>1, <3>2, <2>1, <1>2, <1>5
  <2>4. \A k \in StateKeys \ ks :
            /\ copy[d][k].rev <= data'[k].rev
            /\ copy[d][k].rev = data'[k].rev => copy[d][k] = data'[k]
            /\ data'[k].rev < from[d] => copy[d][k] = data'[k]
    BY <1>10 DEF ControlInv, CopiesAreOld
  <2> QED BY <2>2, <2>3, <2>4
<1> QED BY <1>14, <1>15, <1>16, <1>17 DEF ControlInv

\* The invariant of the control state holds always.
LEMMA ControlInvariant == ControlSpec => []ControlInv
<1>1. ControlInit => ControlInv
  BY DEF ControlInit, ControlInv, ControlTypeOK, HistoryIsOrdered, HistoryIsOfData,
         CopiesAreOld, Entry, NoEntry
<1>2. ControlInv /\ [ControlNext]_controlVars => ControlInv'
  <2> SUFFICES ASSUME ControlInv, [ControlNext]_controlVars PROVE ControlInv'
    OBVIOUS
  <2>1. ASSUME NEW c \in Controllers, watch(c) PROVE ControlInv'
    <3>1. After(copy[c], Kept(history, {h \in Changes : h.rev >= from[c]})) = data
      BY <2>1, WatchedIsData DEF watch, Watchable
    <3>2. copy' = [copy EXCEPT ![c] = data]
      BY <2>1, <3>1 DEF watch
    <3> QED BY <2>1, <3>2, CatchingUpKeeps DEF watch
  <2>2. ASSUME NEW c \in Controllers, List(c) PROVE ControlInv'
    BY <2>2, CatchingUpKeeps DEF List
  <2>3. ASSUME NEW c \in Controllers, NEW n \in 0..MaxRevision,
               NEW ops \in [1..n -> StateKeys], \A i, j \in 1..n : ops[i] = ops[j] => i = j,
               NEW compare \in Compares, txn(c, compare, ops)
        PROVE  ControlInv'
    <3>1. n \in Nat
      BY ControlAssumption DEF ControlAssumption
    <3>2. ops \in Seq(StateKeys) /\ DOMAIN ops = 1..n
      BY <3>1
    <3> QED BY <2>3, <3>2, TxnKeeps
  <2>5. ASSUME NEW n \in 1..(MaxRevision + 1), compact(n) PROVE ControlInv'
    BY <2>5, CompactKeeps, ControlAssumption
  <2>6. CASE UNCHANGED controlVars
    BY <2>6 DEF controlVars, ControlInv, ControlTypeOK, HistoryIsOrdered, HistoryIsOfData,
                CopiesAreOld
  <2> QED BY <2>1, <2>2, <2>3, <2>5, <2>6 DEF ControlNext
<1> QED BY <1>1, <1>2, PTL DEF ControlSpec

(* INV-05, WatchersCatchUp: whatever was compacted between its watches, a    *)
(* controller that has watched up to the current revision has the data.     *)
THEOREM CopiesCatchUp == ControlSpec => []WatchersCatchUp
<1>1. ControlInv => WatchersCatchUp
  <2> SUFFICES ASSUME ControlInv, NEW c \in Controllers
               PROVE  from[c] = revision + 1 => copy[c] = data
    BY DEF WatchersCatchUp, ControlInv, CopiesAreOld
  <2>1. ASSUME from[c] = revision + 1, NEW k \in StateKeys PROVE copy[c][k] = data[k]
    <3>1. data[k].rev <= revision /\ data[k].rev \in Nat /\ revision \in Nat
      BY DEF ControlInv, ControlTypeOK, HistoryIsOfData, Entry
    <3> QED BY <2>1, <3>1 DEF ControlInv, CopiesAreOld
  <2> QED BY <2>1 DEF ControlInv, ControlTypeOK
<1> QED BY <1>1, ControlInvariant, PTL
-----------------------------------------------------------------------------
(* ReliableQueue.  An id is done when it had its effect, and only what is    *)
(* done is acknowledged, whoever's delivery that ends.                       *)
Delivery == [id : MessageIds, left : Nat]

QueueTypeOK ==
    /\ ready \in Seq(MessageIds) /\ dlq \in Seq(MessageIds)
    /\ inFlight \in Seq(Delivery)
    /\ attempts \in [MessageIds -> Nat]
    /\ done \in SUBSET MessageIds
    /\ effects \in [MessageIds -> Nat]
    /\ holding \in [Consumers -> {<<>>} \cup (MessageIds \X BOOLEAN)]
    /\ puts \in [MessageIds -> Nat]

AllAccounted ==
    \A m \in MessageIds :
        /\ effects[m] = IF m \in done THEN 1 ELSE 0
        /\ puts[m] > 0 => Owned(m) \/ Parked(m) \/ m \in done
        /\ attempts[m] <= MaxDeliveries
        /\ Parked(m) => attempts[m] = MaxDeliveries

OnlyDoneIsAcked ==
    \A c \in Consumers :
        holding[c] # <<>> /\ holding[c][2] => holding[c][1] \in done

QueueInv == QueueTypeOK /\ AllAccounted /\ OnlyDoneIsAcked

(* A consumer that holds a delivery holds an id and a flag.                 *)
LEMMA HeldIsDelivery ==
    ASSUME QueueInv, NEW c \in Consumers, holding[c] # <<>>
    PROVE  /\ holding[c][1] \in MessageIds /\ holding[c][2] \in BOOLEAN
<1>1. holding[c] \in MessageIds \X BOOLEAN
  BY DEF QueueInv, QueueTypeOK
<1>2. PICK m \in MessageIds, b \in BOOLEAN : holding[c] = <<m, b>>
  BY <1>1
<1>3. holding[c][1] = m /\ holding[c][2] = b
  BY <1>2
<1> QED BY <1>2, <1>3

(* Entering an id adds it to those in flight and takes none away.           *)
LEMMA EnteredIds ==
    ASSUME QueueAssumption, NEW s \in Seq(Delivery), NEW m \in MessageIds
    PROVE  /\ Entered(s, m) \in Seq(Delivery)
           /\ \E i \in DOMAIN Entered(s, m) : Entered(s, m)[i].id = m
           /\ \A i \in DOMAIN s :
                \E j \in DOMAIN Entered(s, m) : Entered(s, m)[j].id = s[i].id
<1> DEFINE new == [id |-> m, left |-> Visibility]
<1>1. new \in Delivery
  BY QueueAssumption DEF Delivery
<1>2. CASE \E i \in DOMAIN s : s[i].id = m
  <2>1. Entered(s, m) = [i \in DOMAIN s |-> IF s[i].id = m THEN new ELSE s[i]]
    BY <1>2 DEF Entered
  <2>2. DOMAIN s = 1..Len(s) /\ Len(s) \in Nat /\ \A i \in DOMAIN s : s[i] \in Delivery
    OBVIOUS
  <2> HIDE DEF new
  <2>3. Entered(s, m) \in [1..Len(s) -> Delivery]
    BY <2>1, <2>2, <1>1
  <2>4. Entered(s, m) \in Seq(Delivery)
    BY <2>2, <2>3
  <2>5. \A i \in DOMAIN s : Entered(s, m)[i].id = s[i].id
    BY <2>1 DEF new
  <2>6. DOMAIN Entered(s, m) = DOMAIN s
    BY <2>1
  <2> QED BY <1>2, <2>4, <2>5, <2>6
<1>3. CASE ~ \E i \in DOMAIN s : s[i].id = m
  <2>1. Entered(s, m) = Append(s, new)
    BY <1>3 DEF Entered
  <2> HIDE DEF new
  <2>2. /\ Append(s, new) \in Seq(Delivery)
        /\ DOMAIN s = 1..Len(s) /\ Len(s) \in Nat
        /\ DOMAIN Append(s, new) = 1..(Len(s) + 1)
        /\ Append(s, new)[Len(s) + 1] = new
        /\ \A i \in 1..Len(s) : Append(s, new)[i] = s[i]
    BY <1>1
  <2>3. Len(s) + 1 \in 1..(Len(s) + 1) /\ \A i \in 1..Len(s) : i \in 1..(Len(s) + 1)
    BY <2>2
  <2>4. new.id = m
    BY DEF new
  <2> QED BY <2>1, <2>2, <2>3, <2>4
<1> QED BY <1>2, <1>3

(* What is in flight and has time left stays in flight, and what has none    *)
(* is in the backlog, as is all that was ready.                              *)
LEMMA BacklogIds ==
    ASSUME QueueInv
    PROVE  /\ Unexpired \in Seq(Delivery) /\ Backlog \in Seq(MessageIds)
           /\ \A i \in DOMAIN ready : \E j \in DOMAIN Backlog : Backlog[j] = ready[i]
           /\ \A i \in DOMAIN inFlight :
                \/ \E j \in DOMAIN Unexpired : Unexpired[j].id = inFlight[i].id
                \/ \E j \in DOMAIN Backlog : Backlog[j] = inFlight[i].id
<1> DEFINE out == {f \in Range(inFlight) : f.left = 0}
           in == {f \in Range(inFlight) : f.left > 0}
           late == [i \in DOMAIN Expired |-> Expired[i].id]
<1>1. inFlight \in Seq(Delivery) /\ ready \in Seq(MessageIds)
  BY DEF QueueInv, QueueTypeOK
<1>2. \A i \in DOMAIN inFlight : inFlight[i] \in out \/ inFlight[i] \in in
  <2> TAKE i \in DOMAIN inFlight
  <2>1. inFlight[i] \in Range(inFlight) /\ inFlight[i] \in Delivery
    BY <1>1 DEF Range
  <2>2. inFlight[i].left \in Nat
    BY <2>1 DEF Delivery
  <2> QED BY <2>1, <2>2
<1>3. Expired = Kept(inFlight, out) /\ Unexpired = Kept(inFlight, in)
  BY DEF Expired, Unexpired
<1> HIDE DEF out, in
<1>4. /\ Unexpired \in Seq(Delivery)
      /\ \A i \in DOMAIN inFlight :
            inFlight[i] \in in => \E j \in DOMAIN Unexpired : Unexpired[j] = inFlight[i]
  BY <1>1, <1>3, KeptElements
<1>5. /\ Expired \in Seq(Delivery)
      /\ \A i \in DOMAIN inFlight :
            inFlight[i] \in out => \E j \in DOMAIN Expired : Expired[j] = inFlight[i]
  BY <1>1, <1>3, KeptElements
<1>6. late \in Seq(MessageIds) /\ Len(late) = Len(Expired)
      /\ \A j \in DOMAIN Expired : late[j] = Expired[j].id
  <2>1. DOMAIN Expired = 1..Len(Expired) /\ Len(Expired) \in Nat
    BY <1>5
  <2>2. ASSUME NEW j \in DOMAIN Expired PROVE Expired[j].id \in MessageIds
    <3>1. Expired[j] \in Delivery
      BY <1>5
    <3> QED BY <3>1 DEF Delivery
  <2>3. late \in [1..Len(Expired) -> MessageIds]
    BY <2>1, <2>2
  <2>4. late \in Seq(MessageIds) /\ Len(late) = Len(Expired)
    BY <2>1, <2>3
  <2> QED BY <2>4
<1> HIDE DEF late
<1>7. Backlog = ready \o late
  BY DEF Backlog, late
<1>8. /\ Backlog \in Seq(MessageIds)
      /\ DOMAIN Backlog = 1..(Len(ready) + Len(late))
      /\ \A i \in 1..Len(ready) : Backlog[i] = ready[i]
      /\ \A j \in 1..Len(late) : Backlog[Len(ready) + j] = late[j]
      /\ Len(ready) \in Nat /\ Len(late) \in Nat
  <2> DEFINE long == ready \o late
  <2>1. late \in Seq(MessageIds)
    BY <1>6
  <2>2. /\ long \in Seq(MessageIds) /\ Len(long) = Len(ready) + Len(late)
        /\ Len(ready) \in Nat /\ Len(late) \in Nat
    BY <1>1, <2>1
  <2>3. \A i \in 1..Len(ready) : long[i] = ready[i]
    BY <1>1, <2>1
  <2>4. \A j \in 1..Len(late) : long[Len(ready) + j] = late[j]
    BY <1>1, <2>1
  <2> HIDE DEF long
  <2>5. Backlog = long
    BY <1>7 DEF long
  <2> QED BY <2>2, <2>3, <2>4, <2>5
<1>9. \A i \in DOMAIN ready : i \in DOMAIN Backlog /\ Backlog[i] = ready[i]
  BY <1>1, <1>8
<1>10. \A j \in DOMAIN Expired :
          Len(ready) + j \in DOMAIN Backlog /\ Backlog[Len(ready) + j] = Expired[j].id
  <2> TAKE j \in DOMAIN Expired
  <2>1. j \in 1..Len(late)
    BY <1>5, <1>6
  <2> QED BY <2>1, <1>6, <1>8
<1>11. ASSUME NEW i \in DOMAIN inFlight
       PROVE  \/ \E j \in DOMAIN Unexpired : Unexpired[j].id = inFlight[i].id
              \/ \E j \in DOMAIN Backlog : Backlog[j] = inFlight[i].id
  <2>1. CASE inFlight[i] \in in
    BY <2>1, <1>4
  <2>2. CASE inFlight[i] \in out
    BY <2>2, <1>5, <1>10
  <2> QED BY <2>1, <2>2, <1>2
<1> QED BY <1>4, <1>8, <1>9, <1>11

(* What is taken off the front of the backlog is parked or in flight.       *)
LEMMA ReceiveKeeps ==
    ASSUME QueueInv, NEW c \in Consumers, receive(c)
    PROVE  QueueInv'
<1> DEFINE q == Backlog
           May(i) == attempts[q[i]] < MaxDeliveries
<1>1. /\ Unexpired \in Seq(Delivery) /\ q \in Seq(MessageIds)
      /\ \A i \in DOMAIN ready : \E j \in DOMAIN q : q[j] = ready[i]
      /\ \A i \in DOMAIN inFlight :
            \/ \E j \in DOMAIN Unexpired : Unexpired[j].id = inFlight[i].id
            \/ \E j \in DOMAIN q : q[j] = inFlight[i].id
  BY BacklogIds
<1>2. dlq \in Seq(MessageIds) /\ attempts \in [MessageIds -> Nat] /\ MaxDeliveries \in Nat
  BY QueueAssumption DEF QueueInv, QueueTypeOK
<1>3. UNCHANGED <<done, effects, puts>> /\ holding[c] = <<>>
  BY DEF receive
<1>4. \A i \in DOMAIN q : ~ May(i) => attempts[q[i]] = MaxDeliveries
  BY <1>1, <1>2 DEF QueueInv, AllAccounted
\* a message that was owned still is, or is parked, and nobody else was parked
<1>5. SUFFICES
        /\ QueueTypeOK' /\ OnlyDoneIsAcked'
        /\ \A m \in MessageIds :
              /\ Owned(m) => Owned(m)' \/ Parked(m)'
              /\ Parked(m) => Parked(m)'
              /\ Parked(m)' => attempts'[m] = MaxDeliveries
              /\ attempts'[m] <= MaxDeliveries
  BY <1>3 DEF QueueInv, AllAccounted
<1>6. ASSUME NEW i \in DOMAIN q, May(i), \A j \in 1..(i - 1) : ~ May(j),
             dlq' = dlq \o SubSeq(q, 1, i - 1),
             ready' = SubSeq(q, i + 1, Len(q)),
             attempts' = Attempted(q[i]),
             inFlight' = Entered(Unexpired, q[i]),
             holding' = [holding EXCEPT ![c] = <<q[i], FALSE>>]
      PROVE  /\ QueueTypeOK' /\ OnlyDoneIsAcked'
             /\ \A m \in MessageIds :
                   /\ Owned(m) => Owned(m)' \/ Parked(m)'
                   /\ Parked(m) => Parked(m)'
                   /\ Parked(m)' => attempts'[m] = MaxDeliveries
                   /\ attempts'[m] <= MaxDeliveries
  <2> DEFINE early == SubSeq(q, 1, i - 1)
             late == SubSeq(q, i + 1, Len(q))
  <2>1. q[i] \in MessageIds /\ i \in 1..Len(q) /\ Len(q) \in Nat /\ DOMAIN q = 1..Len(q)
    BY <1>1
  <2>2. early \in Seq(MessageIds) /\ Len(early) = i - 1
        /\ \A j \in 1..(i - 1) : early[j] = q[j]
    BY <1>1, <2>1
  <2>3. late \in Seq(MessageIds) /\ Len(late) = Len(q) - i
        /\ \A j \in 1..(Len(q) - i) : late[j] = q[i + j]
    BY <1>1, <2>1
  <2> HIDE DEF q, early, late, May
  <2>4. /\ dlq' \in Seq(MessageIds)
        /\ DOMAIN dlq = 1..Len(dlq) /\ Len(dlq) \in Nat
        /\ DOMAIN dlq' = 1..(Len(dlq) + (i - 1))
        /\ \A j \in 1..Len(dlq) : dlq'[j] = dlq[j]
        /\ \A j \in 1..(i - 1) : dlq'[Len(dlq) + j] = early[j]
    <3> DEFINE long == dlq \o early
    <3>1. dlq \in Seq(MessageIds) /\ i - 1 \in Nat
      BY <1>2, <2>1
    <3>2. long \in Seq(MessageIds) /\ Len(long) = Len(dlq) + (i - 1)
          /\ Len(dlq) \in Nat /\ DOMAIN dlq = 1..Len(dlq)
      BY <3>1, <2>2
    <3>3. \A j \in 1..Len(dlq) : long[j] = dlq[j]
      BY <3>1, <2>2
    <3>4. \A j \in 1..(i - 1) : long[Len(dlq) + j] = early[j]
      BY <3>1, <2>2
    <3>5. dlq' = long
      BY <1>6 DEF early, q
    <3> HIDE DEF long
    <3> QED BY <3>2, <3>3, <3>4, <3>5
  <2>5. ready' = late /\ DOMAIN ready' = 1..(Len(q) - i)
    BY <1>6, <2>1, <2>3 DEF late
  <2>6. /\ inFlight' \in Seq(Delivery)
        /\ \E j \in DOMAIN inFlight' : inFlight'[j].id = q[i]
        /\ \A k \in DOMAIN Unexpired :
              \E j \in DOMAIN inFlight' : inFlight'[j].id = Unexpired[k].id
    <3> DEFINE entry == Entered(Unexpired, q[i])
    <3>1. Unexpired \in Seq(Delivery)
      BY <1>1
    <3>2. /\ entry \in Seq(Delivery)
          /\ \E j \in DOMAIN entry : entry[j].id = q[i]
          /\ \A k \in DOMAIN Unexpired : \E j \in DOMAIN entry : entry[j].id = Unexpired[k].id
      BY <3>1, <2>1, EnteredIds, QueueAssumption
    <3>3. inFlight' = entry
      BY <1>6
    <3> HIDE DEF entry
    <3> QED BY <3>2, <3>3
  <2>7. attempts' = [attempts EXCEPT ![q[i]] = @ + 1] /\ attempts[q[i]] < MaxDeliveries
    BY <1>6 DEF Attempted, May
  <2>8. attempts' \in [MessageIds -> Nat] /\ \A m \in MessageIds : attempts'[m] <= MaxDeliveries
    BY <1>2, <2>1, <2>7 DEF QueueInv, AllAccounted
  <2>9. ASSUME NEW j \in 1..(i - 1) PROVE attempts[q[j]] = MaxDeliveries /\ q[j] # q[i]
    <3>1. j \in DOMAIN q /\ ~ May(j)
      BY <1>6, <2>1
    <3> QED BY <3>1, <1>2, <1>4, <2>7
  <2>10. holding' \in [Consumers -> {<<>>} \cup (MessageIds \X BOOLEAN)]
         /\ OnlyDoneIsAcked'
    <3>1. <<q[i], FALSE>> \in MessageIds \X BOOLEAN
      BY <2>1
    <3>2. holding \in [Consumers -> {<<>>} \cup (MessageIds \X BOOLEAN)]
      BY DEF QueueInv, QueueTypeOK
    <3>3. holding' \in [Consumers -> {<<>>} \cup (MessageIds \X BOOLEAN)]
      BY <3>1, <3>2, <1>6
    <3>4. ASSUME NEW d \in Consumers, holding'[d] # <<>>, holding'[d][2]
          PROVE  holding'[d][1] \in done'
      <4>1. CASE d = c
        BY <4>1, <3>2, <3>4, <1>6
      <4>2. CASE d # c
        <5>1. holding'[d] = holding[d]
          BY <4>2, <3>2, <1>6
        <5> QED BY <5>1, <3>4, <1>3 DEF QueueInv, OnlyDoneIsAcked
      <4> QED BY <4>1, <4>2
    <3> QED BY <3>3, <3>4 DEF OnlyDoneIsAcked
  <2>11. QueueTypeOK'
    BY <1>3, <2>3, <2>4, <2>5, <2>6, <2>8, <2>10 DEF QueueInv, QueueTypeOK
  <2>12. ASSUME NEW j \in 1..Len(q)
         PROVE  \/ \E k \in DOMAIN dlq' : dlq'[k] = q[j]
                \/ \E k \in DOMAIN ready' : ready'[k] = q[j]
                \/ \E k \in DOMAIN inFlight' : inFlight'[k].id = q[j]
    <3>1. CASE j < i
      <4>1. j \in 1..(i - 1) /\ Len(dlq) + j \in DOMAIN dlq'
        BY <3>1, <2>1, <2>4
      <4> QED BY <4>1, <2>2, <2>4
    <3>2. CASE j = i
      BY <3>2, <2>6
    <3>3. CASE j > i
      <4>1. j - i \in 1..(Len(q) - i) /\ i + (j - i) = j
        BY <3>3, <2>1
      <4> QED BY <4>1, <2>3, <2>5
    <3> QED BY <3>1, <3>2, <3>3, <2>1
  <2>13. ASSUME NEW m \in MessageIds
         PROVE  /\ Owned(m) => Owned(m)' \/ Parked(m)'
                /\ Parked(m) => Parked(m)'
                /\ Parked(m)' => attempts'[m] = MaxDeliveries
    <3>1. Parked(m) => Parked(m)'
      <4>1. \A j \in DOMAIN dlq : j \in DOMAIN dlq' /\ dlq'[j] = dlq[j]
        BY <2>1, <2>4
      <4> QED BY <4>1 DEF Parked
    <3>2. Parked(m)' => attempts'[m] = MaxDeliveries
      <4> SUFFICES ASSUME NEW j \in DOMAIN dlq', dlq'[j] = m
                   PROVE  attempts'[m] = MaxDeliveries
        BY DEF Parked
      <4>1. CASE j <= Len(dlq)
        <5>1. Parked(m)
          BY <4>1, <2>1, <2>4 DEF Parked
        <5>2. attempts[m] = MaxDeliveries
          BY <5>1 DEF QueueInv, AllAccounted
        <5> QED BY <5>2, <1>2, <2>1, <2>7
      <4>2. CASE j > Len(dlq)
        <5>1. j - Len(dlq) \in 1..(i - 1) /\ j = Len(dlq) + (j - Len(dlq))
          BY <4>2, <2>1, <2>4
        <5>2. m = q[j - Len(dlq)]
          BY <5>1, <2>2, <2>4
        <5> QED BY <5>1, <5>2, <2>9, <2>7, <1>2
      <4> QED BY <4>1, <4>2, <2>1, <2>4
    <3>3. Owned(m) => Owned(m)' \/ Parked(m)'
      <4>1. ASSUME NEW j \in DOMAIN q, q[j] = m PROVE Owned(m)' \/ Parked(m)'
        BY <4>1, <2>1, <2>12 DEF Owned, Parked
      <4>2. ASSUME NEW j \in DOMAIN Unexpired, Unexpired[j].id = m PROVE Owned(m)'
        BY <4>2, <2>6 DEF Owned
      <4>3. Owned(m) => \/ \E j \in DOMAIN q : q[j] = m
                        \/ \E j \in DOMAIN Unexpired : Unexpired[j].id = m
        BY <1>1 DEF Owned, q
      <4> QED BY <4>1, <4>2, <4>3
    <3> QED BY <3>1, <3>2, <3>3
  <2> QED BY <2>8, <2>10, <2>11, <2>13
<1>7. ASSUME \A i \in DOMAIN q : ~ May(i),
             dlq' = dlq \o q, ready' = <<>>, inFlight' = Unexpired,
             UNCHANGED <<attempts, holding>>
      PROVE  /\ QueueTypeOK' /\ OnlyDoneIsAcked'
             /\ \A m \in MessageIds :
                   /\ Owned(m) => Owned(m)' \/ Parked(m)'
                   /\ Parked(m) => Parked(m)'
                   /\ Parked(m)' => attempts'[m] = MaxDeliveries
                   /\ attempts'[m] <= MaxDeliveries
  <2>1. DOMAIN q = 1..Len(q) /\ Len(q) \in Nat /\ DOMAIN dlq = 1..Len(dlq) /\ Len(dlq) \in Nat
    BY <1>1, <1>2
  <2>2. \A j \in 1..Len(q) : attempts[q[j]] = MaxDeliveries
    BY <2>1, <1>4, <1>7
  <2>3. \A i \in DOMAIN ready : \E j \in 1..Len(q) : q[j] = ready[i]
    BY <1>1, <2>1
  <2> HIDE DEF q, May
  <2>4. /\ dlq' \in Seq(MessageIds)
        /\ DOMAIN dlq' = 1..(Len(dlq) + Len(q))
        /\ \A j \in 1..Len(dlq) : dlq'[j] = dlq[j]
        /\ \A j \in 1..Len(q) : dlq'[Len(dlq) + j] = q[j]
    <3> DEFINE long == dlq \o q
    <3>1. long \in Seq(MessageIds) /\ Len(long) = Len(dlq) + Len(q)
      BY <1>1, <1>2
    <3>2. \A j \in 1..Len(dlq) : long[j] = dlq[j]
      BY <1>1, <1>2
    <3>3. \A j \in 1..Len(q) : long[Len(dlq) + j] = q[j]
      BY <1>1, <1>2
    <3>4. dlq' = long
      BY <1>7 DEF q
    <3> HIDE DEF long
    <3> QED BY <3>1, <3>2, <3>3, <3>4
  <2>5. QueueTypeOK' /\ OnlyDoneIsAcked'
    BY <1>1, <1>3, <1>7, <2>4 DEF QueueInv, QueueTypeOK, OnlyDoneIsAcked
  <2>6. ASSUME NEW m \in MessageIds
        PROVE  /\ Owned(m) => Owned(m)' \/ Parked(m)'
               /\ Parked(m) => Parked(m)'
               /\ Parked(m)' => attempts'[m] = MaxDeliveries
    <3>1. Parked(m) => Parked(m)'
      <4>1. \A j \in DOMAIN dlq : j \in DOMAIN dlq' /\ dlq'[j] = dlq[j]
        BY <2>1, <2>4
      <4> QED BY <4>1 DEF Parked
    <3>2. ASSUME NEW j \in 1..Len(q), q[j] = m PROVE Parked(m)'
      <4>1. Len(dlq) + j \in DOMAIN dlq' /\ dlq'[Len(dlq) + j] = m
        BY <3>2, <2>1, <2>4
      <4> QED BY <4>1 DEF Parked
    <3>3. ASSUME NEW j \in DOMAIN Unexpired, Unexpired[j].id = m PROVE Owned(m)'
      BY <3>3, <1>7 DEF Owned
    <3>4. Owned(m) => \/ \E j \in 1..Len(q) : q[j] = m
                      \/ \E j \in DOMAIN Unexpired : Unexpired[j].id = m
      BY <1>1, <2>1, <2>3 DEF Owned
    <3>5. Parked(m)' => attempts[m] = MaxDeliveries
      <4> SUFFICES ASSUME NEW j \in DOMAIN dlq', dlq'[j] = m
                   PROVE  attempts[m] = MaxDeliveries
        BY DEF Parked
      <4>1. CASE j <= Len(dlq)
        <5>1. Parked(m)
          BY <4>1, <2>1, <2>4 DEF Parked
        <5> QED BY <5>1 DEF QueueInv, AllAccounted
      <4>2. CASE j > Len(dlq)
        <5>1. j - Len(dlq) \in 1..Len(q) /\ j = Len(dlq) + (j - Len(dlq))
          BY <4>2, <2>1, <2>4
        <5> QED BY <5>1, <2>2, <2>4
      <4> QED BY <4>1, <4>2, <2>1, <2>4
    <3> QED BY <3>1, <3>2, <3>3, <3>4, <3>5, <1>7
  <2> QED BY <2>5, <2>6, <1>7 DEF QueueInv, AllAccounted
<1>8. \/ \E i \in DOMAIN q :
            /\ May(i) /\ \A j \in 1..(i - 1) : ~ May(j)
            /\ dlq' = dlq \o SubSeq(q, 1, i - 1)
            /\ ready' = SubSeq(q, i + 1, Len(q))
            /\ attempts' = Attempted(q[i])
            /\ inFlight' = Entered(Unexpired, q[i])
            /\ holding' = [holding EXCEPT ![c] = <<q[i], FALSE>>]
      \/ /\ \A i \in DOMAIN q : ~ May(i)
         /\ dlq' = dlq \o q /\ ready' = <<>> /\ inFlight' = Unexpired
         /\ UNCHANGED <<attempts, holding>>
  BY DEF receive
<1> HIDE DEF q, May
<1> QED BY <1>6, <1>7, <1>8

\* The invariant of the queue holds always.
LEMMA QueueInvariant == QueueSpec => []QueueInv
<1>1. QueueInit => QueueInv
  BY QueueAssumption
  DEF QueueInit, QueueInv, QueueTypeOK, AllAccounted, OnlyDoneIsAcked, Owned, Parked
<1>2. QueueInv /\ [QueueNext]_queueVars => QueueInv'
  <2> SUFFICES ASSUME QueueInv, [QueueNext]_queueVars PROVE QueueInv'
    OBVIOUS
  <2> USE DEF QueueInv, QueueTypeOK, AllAccounted, OnlyDoneIsAcked
  <2>1. ASSUME NEW m \in MessageIds, put(m) PROVE QueueInv'
    <3>1. /\ ready' = Append(ready, m) /\ puts' = [puts EXCEPT ![m] = @ + 1]
          /\ UNCHANGED <<inFlight, attempts, dlq, done, effects, holding>>
      BY <2>1 DEF put
    <3>2. /\ ready' \in Seq(MessageIds) /\ puts' \in [MessageIds -> Nat]
          /\ \A i \in DOMAIN ready : i \in DOMAIN ready' /\ ready'[i] = ready[i]
          /\ \E i \in DOMAIN ready' : ready'[i] = m
      <4> DEFINE long == Append(ready, m)
      <4>1. /\ long \in Seq(MessageIds) /\ Len(long) = Len(ready) + 1
            /\ Len(ready) \in Nat /\ DOMAIN ready = 1..Len(ready)
        OBVIOUS
      <4>2. long[Len(ready) + 1] = m /\ \A i \in 1..Len(ready) : long[i] = ready[i]
        OBVIOUS
      <4>3. ready' = long /\ puts' \in [MessageIds -> Nat]
        BY <3>1
      <4> HIDE DEF long
      <4>4. DOMAIN long = 1..(Len(ready) + 1)
        BY <4>1
      <4>5. \A n \in Nat : n + 1 \in 1..(n + 1) /\ \A i \in 1..n : i \in 1..(n + 1)
        OBVIOUS
      <4>6. Len(ready) + 1 \in DOMAIN long /\ \A i \in DOMAIN ready : i \in DOMAIN long
        BY <4>1, <4>4, <4>5
      <4> QED BY <4>1, <4>2, <4>3, <4>6
    <3>3. Owned(m)' /\ \A k \in MessageIds : Owned(k) => Owned(k)'
      BY <3>1, <3>2 DEF Owned
    <3>4. \A k \in MessageIds : Parked(k) <=> Parked(k)'
      BY <3>1 DEF Parked
    <3>5. \A k \in MessageIds : k # m => puts'[k] = puts[k]
      BY <3>1
    <3> QED BY <3>1, <3>2, <3>3, <3>4, <3>5
  <2>2. ASSUME NEW c \in Consumers, handle(c) PROVE QueueInv'
    <3> DEFINE m == holding[c][1]
    <3>1. m \in MessageIds /\ holding' = [holding EXCEPT ![c] = <<m, TRUE>>]
      BY <2>2, HeldIsDelivery DEF handle
    <3>2. Handled(m) /\ UNCHANGED <<ready, inFlight, attempts, dlq, puts>>
      BY <2>2 DEF handle
    <3> HIDE DEF m
    <3>3. /\ done' = done \cup {m} /\ effects' \in [MessageIds -> Nat]
          /\ \A k \in MessageIds : effects'[k] = IF k \in done' THEN 1 ELSE 0
      BY <3>1, <3>2 DEF Handled
    <3>4. \A k \in MessageIds : (Owned(k) <=> Owned(k)') /\ (Parked(k) <=> Parked(k)')
      BY <3>2 DEF Owned, Parked
    <3>5. OnlyDoneIsAcked' /\ holding' \in [Consumers -> {<<>>} \cup (MessageIds \X BOOLEAN)]
      BY <3>1, <3>3
    <3> QED BY <3>1, <3>2, <3>3, <3>4, <3>5
  <2>3. ASSUME NEW c \in Consumers, ack(c) PROVE QueueInv'
    <3> DEFINE m == holding[c][1]
               S == {f \in Range(inFlight) : f.id # m}
    <3>1. /\ m \in done /\ holding' = [holding EXCEPT ![c] = <<>>]
          /\ inFlight' = Kept(inFlight, S)
          /\ UNCHANGED <<ready, attempts, dlq, done, effects, puts>>
      BY <2>3 DEF ack
    <3>2. \A i \in DOMAIN inFlight : inFlight[i].id # m => inFlight[i] \in S
      BY DEF Range
    <3> HIDE DEF m, S
    <3>3. /\ inFlight' \in Seq(Delivery)
          /\ \A i \in DOMAIN inFlight :
                inFlight[i].id # m => \E j \in DOMAIN inFlight' : inFlight'[j] = inFlight[i]
      BY <3>1, <3>2, KeptElements
    <3>4. \A k \in MessageIds : k # m /\ Owned(k) => Owned(k)'
      BY <3>1, <3>3 DEF Owned
    <3>5. \A k \in MessageIds : Parked(k) <=> Parked(k)'
      BY <3>1 DEF Parked
    <3>6. OnlyDoneIsAcked' /\ holding' \in [Consumers -> {<<>>} \cup (MessageIds \X BOOLEAN)]
      BY <3>1
    <3> QED BY <3>1, <3>3, <3>4, <3>5, <3>6
  <2>4. ASSUME NEW c \in Consumers, ConsumerDies(c) PROVE QueueInv'
    <3>1. holding' = [holding EXCEPT ![c] = <<>>]
          /\ UNCHANGED <<ready, inFlight, attempts, dlq, done, effects, puts>>
      BY <2>4 DEF ConsumerDies
    <3>2. \A k \in MessageIds : (Owned(k) <=> Owned(k)') /\ (Parked(k) <=> Parked(k)')
      BY <3>1 DEF Owned, Parked
    <3> QED BY <3>1, <3>2
  <2>5. CASE Tick
    <3>1. /\ inFlight' = [i \in DOMAIN inFlight |->
                            [inFlight[i] EXCEPT !.left = IF @ > 0 THEN @ - 1 ELSE 0]]
          /\ UNCHANGED <<ready, attempts, dlq, done, effects, holding, puts>>
      BY <2>5 DEF Tick
    <3>2. /\ inFlight' \in Seq(Delivery) /\ DOMAIN inFlight' = DOMAIN inFlight
          /\ \A i \in DOMAIN inFlight : inFlight'[i].id = inFlight[i].id
      <4>1. \A i \in DOMAIN inFlight : inFlight[i] \in Delivery
        OBVIOUS
      <4>2. \A i \in DOMAIN inFlight : inFlight'[i] \in Delivery /\ inFlight'[i].id = inFlight[i].id
        BY <4>1, <3>1 DEF Delivery
      <4>3. DOMAIN inFlight = 1..Len(inFlight) /\ Len(inFlight) \in Nat
        OBVIOUS
      <4>4. inFlight' \in [1..Len(inFlight) -> Delivery]
        BY <4>2, <4>3, <3>1
      <4> QED BY <4>2, <4>3, <4>4, <3>1
    <3>3. \A k \in MessageIds : (Owned(k) <=> Owned(k)') /\ (Parked(k) <=> Parked(k)')
      BY <3>1, <3>2 DEF Owned, Parked
    <3> QED BY <3>1, <3>2, <3>3
  <2>6. CASE UNCHANGED queueVars
    <3>1. \A k \in MessageIds : (Owned(k) <=> Owned(k)') /\ (Parked(k) <=> Parked(k)')
      BY <2>6 DEF queueVars, Owned, Parked
    <3> QED BY <2>6, <3>1 DEF queueVars
  <2> QED BY <2>1, <2>2, <2>3, <2>4, <2>5, <2>6, ReceiveKeeps DEF QueueNext, Settle
<1> QED BY <1>1, <1>2, PTL DEF QueueSpec

(* INV-53, MessagesAccounted: however often a message is redelivered, put    *)
(* again or acknowledged late, it has one effect, or is owned or parked.     *)
THEOREM MessagesAreAccounted == QueueSpec => []MessagesAccounted
<1>1. QueueInv => MessagesAccounted
  BY DEF QueueInv, AllAccounted, MessagesAccounted
<1> QED BY <1>1, QueueInvariant, PTL

-----------------------------------------------------------------------------
(* Conformance.  While no two runs overlap the one under way has the file in *)
(* memory.  A run that has refused nothing has the records of all stages it  *)
(* is through with at the end of its ledger, and W9 is the last of them.     *)
Digest == Runs \X Nat
Evidence == [sequence : Nat, previous : Digest \cup {Genesis}, digest : Digest,
          element : STRING, stage : 0..9]
Result == [findings : SUBSET {"partial", "blocked"}, failed : SUBSET (0..9)]

ConformanceTypeOK ==
    /\ onDisk \in Seq(Evidence) /\ cutShort \in BOOLEAN /\ overlapped \in BOOLEAN
    /\ phase \in [Runs -> {"new", "running", "ended", "dead"}]
    /\ records \in [Runs -> Seq(Evidence)]
    /\ results \in [Runs -> Seq(Result)]
    /\ stage \in [Runs -> 1..Len(Stages)]

\* the records of K components, of the last one J stages, at the end of a chain
EndsWith(chain, K, J) ==
    LET n == Len(Stages)
        start == Len(chain) - ((K - 1) * n + J)
    IN  /\ start >= 0
        /\ \A k \in 1..K, j \in DOMAIN Stages :
              k < K \/ j <= J =>
                /\ chain[start + (k - 1) * n + j].element = Components[k]
                /\ chain[start + (k - 1) * n + j].stage = Stages[j]

Untroubled(r) == \A i \in DOMAIN results[r] : results[r][i].failed = {}

RunIsSound(r) ==
    /\ phase[r] = "new" => results[r] = <<>> /\ stage[r] = 1
    /\ phase[r] = "running" =>
          /\ Len(results[r]) \in 1..Len(Components)
          /\ Untroubled(r) => EndsWith(records[r], Len(results[r]), stage[r] - 1)
    /\ phase[r] = "ended" /\ Untroubled(r) =>
          verify(records[r]) /\ ClosesWith(records[r])

AloneUnlessOverlapped ==
    ~ overlapped =>
        \A r, q \in Runs : phase[r] = "running" /\ phase[q] = "running" => r = q

ConformanceInv ==
    /\ ConformanceTypeOK /\ AloneUnlessOverlapped /\ EvidenceChains
    /\ \A r \in Runs : RunIsSound(r)

(* The place of a stage among the records of K components, of the last J.   *)
LEMMA PlaceOfStage ==
    ASSUME NEW n \in Nat, NEW K \in Nat, NEW k \in 1..K, NEW j \in 1..n, NEW J \in 0..n,
           k < K \/ j <= J
    PROVE  (k - 1) * n + j \in 1..((K - 1) * n + J)
<1>1. \A a, b \in Nat : a <= b => a * n <= b * n
  OBVIOUS
<1>2. (k - 1) * n \in Nat /\ (K - 1) * n \in Nat /\ k * n = (k - 1) * n + n
  OBVIOUS
<1>3. CASE k < K
  <2>1. k \in Nat /\ K - 1 \in Nat /\ k <= K - 1
    BY <1>3
  <2>2. k * n <= (K - 1) * n
    BY <1>1, <2>1
  <2>3. k * n \in Nat
    BY <1>2
  <2> QED BY <1>2, <2>2, <2>3
<1>4. CASE k = K /\ j <= J
  BY <1>2, <1>4
<1> QED BY <1>3, <1>4

(* Appending the record of the next stage.                                  *)
LEMMA StageIsAppended ==
    ASSUME ConformanceAssumption, NEW chain \in Seq(Evidence), NEW e \in Evidence,
           NEW K \in 1..Len(Components), NEW J \in 0..(Len(Stages) - 1),
           EndsWith(chain, K, J), e.element = Components[K], e.stage = Stages[J + 1]
    PROVE  EndsWith(Append(chain, e), K, J + 1)
<1> DEFINE n == Len(Stages)
           m == (K - 1) * n + J
           start == Len(chain) - m
           long == Append(chain, e)
<1>1. n \in Nat /\ DOMAIN Stages = 1..n /\ Len(Components) \in Nat
  BY DEF ConformanceAssumption
<1>2. m \in Nat /\ (K - 1) * n + (J + 1) = m + 1
  BY <1>1
<1>3. /\ Len(long) = Len(chain) + 1 /\ Len(chain) \in Nat /\ long[Len(chain) + 1] = e
      /\ \A i \in 1..Len(chain) : long[i] = chain[i]
  OBVIOUS
<1>4. /\ start >= 0
      /\ \A k \in 1..K, j \in 1..n :
            k < K \/ j <= J =>
              /\ chain[start + (k - 1) * n + j].element = Components[k]
              /\ chain[start + (k - 1) * n + j].stage = Stages[j]
  BY <1>1 DEF EndsWith
<1> HIDE DEF long
<1>5. ASSUME NEW k \in 1..K, NEW j \in 1..n, k < K \/ j <= J + 1
      PROVE  /\ long[start + (k - 1) * n + j].element = Components[k]
             /\ long[start + (k - 1) * n + j].stage = Stages[j]
  <2> DEFINE p == (k - 1) * n + j
  <2>1. CASE k < K \/ j <= J
    <3>1. p \in 1..m
      <4>1. J \in 0..n /\ K \in Nat
        BY <1>1
      <4> HIDE DEF n
      <4> QED BY <1>1, <2>1, <4>1, PlaceOfStage
    <3>2. start + p \in 1..Len(chain)
      <4> HIDE DEF p, m
      <4> QED BY <1>2, <1>3, <1>4, <3>1
    <3>3. start + (k - 1) * n + j = start + p
      BY <1>1, <1>2, <1>3
    <3>4. long[start + p] = chain[start + p]
      BY <1>3, <3>2
    <3>5. /\ chain[start + (k - 1) * n + j].element = Components[k]
          /\ chain[start + (k - 1) * n + j].stage = Stages[j]
      BY <1>4, <2>1
    <3> HIDE DEF p, start
    <3> QED BY <3>3, <3>4, <3>5
  <2>2. CASE k = K /\ j = J + 1
    <3>1. p = m + 1
      BY <1>1, <2>2
    <3>2. start + (k - 1) * n + j = start + p
      BY <1>1, <1>2, <1>3
    <3>3. start + p = Len(chain) + 1
      <4> HIDE DEF p, m
      <4> QED BY <1>2, <1>3, <3>1
    <3> QED BY <1>3, <2>2, <3>2, <3>3
  <2> QED BY <1>1, <1>5, <2>1, <2>2
<1>6. Len(long) - ((K - 1) * n + (J + 1)) = start
  <2> HIDE DEF m
  <2> QED BY <1>2, <1>3
<1> HIDE DEF start
<1>7. EndsWith(long, K, J + 1)
  BY <1>1, <1>4, <1>5, <1>6 DEF EndsWith
<1> QED BY <1>7 DEF long

(* A component that is through with its stages is followed by none of the    *)
(* next one.                                                                *)
LEMMA ComponentIsThrough ==
    ASSUME ConformanceAssumption, NEW chain \in Seq(Evidence), NEW K \in Nat \ {0},
           EndsWith(chain, K, Len(Stages))
    PROVE  EndsWith(chain, K + 1, 0)
<1> DEFINE n == Len(Stages)
<1>1. n \in Nat /\ DOMAIN Stages = 1..n
  BY DEF ConformanceAssumption
<1>2. (K - 1) * n + n = ((K + 1) - 1) * n + 0
  BY <1>1
<1>3. \A k \in 1..(K + 1), j \in 1..n : k < K + 1 \/ j <= 0 => k \in 1..K /\ (k < K \/ j <= n)
  BY <1>1
<1> QED BY <1>1, <1>2, <1>3 DEF EndsWith

(* A record that names the head of a chain continues it.                    *)
LEMMA ChainContinues ==
    ASSUME NEW chain \in Seq(Evidence), verify(chain), NEW e \in Evidence,
           e.sequence = Len(chain), e.previous = head(chain)
    PROVE  verify(Append(chain, e))
<1> DEFINE long == Append(chain, e)
<1>1. /\ DOMAIN long = 1..(Len(chain) + 1) /\ Len(chain) \in Nat
      /\ DOMAIN chain = 1..Len(chain)
      /\ long[Len(chain) + 1] = e /\ \A i \in 1..Len(chain) : long[i] = chain[i]
  OBVIOUS
<1>2. chain = <<>> <=> Len(chain) = 0
  OBVIOUS
<1> HIDE DEF long
<1>3. ASSUME NEW i \in DOMAIN long
      PROVE  /\ long[i].sequence = i - 1
             /\ long[i].previous = IF i = 1 THEN Genesis ELSE long[i - 1].digest
  <2>1. CASE i \in 1..Len(chain)
    BY <1>1, <2>1 DEF verify
  <2>2. CASE i = Len(chain) + 1
    <3>1. i # 1 => i - 1 \in 1..Len(chain) /\ i - 1 = Len(chain)
      BY <1>1, <2>2
    <3> QED BY <1>1, <1>2, <2>2, <3>1 DEF head
  <2> QED BY <1>1, <2>1, <2>2
<1>4. verify(long)
  BY <1>3 DEF verify
<1> QED BY <1>4 DEF long

(* A run of its own component is sound still when nothing of it changed.    *)
LEMMA OthersAreSound ==
    ASSUME NEW q \in Runs, RunIsSound(q), phase'[q] = phase[q], records'[q] = records[q],
           results'[q] = results[q], stage'[q] = stage[q]
    PROVE  RunIsSound(q)'
<1>1. Untroubled(q)' <=> Untroubled(q)
  BY DEF Untroubled
<1> QED BY <1>1 DEF RunIsSound, EndsWith, ClosesWith, verify

(* The record of a stage of the component under way.                        *)
LEMMA RecordIsEvidence ==
    ASSUME ConformanceAssumption, ConformanceInv, NEW r \in Runs, phase[r] = "running"
    PROVE  LET s == Stages[stage[r]]
               e == Record(r, s)
           IN  /\ s \in 0..9 /\ e \in Evidence
               /\ e.sequence = Len(records[r]) /\ e.previous = head(records[r])
               /\ e.element = Components[Len(results[r])] /\ e.stage = s
<1> DEFINE chain == records[r]
           s == Stages[stage[r]]
           K == Len(results[r])
<1>1. /\ chain \in Seq(Evidence) /\ stage[r] \in 1..Len(Stages)
      /\ K \in 1..Len(Components)
  BY DEF ConformanceInv, ConformanceTypeOK, RunIsSound
<1>2. s \in 0..9
  BY <1>1 DEF ConformanceAssumption
<1>3. Components[K] \in STRING
  BY <1>1 DEF ConformanceAssumption
<1>4. head(chain) \in Digest \cup {Genesis}
  <2>1. CASE chain = <<>>
    BY <2>1 DEF head
  <2>2. CASE chain # <<>>
    <3>1. chain[Len(chain)] \in Evidence
      BY <1>1, <2>2
    <3>2. head(chain) = chain[Len(chain)].digest
      BY <2>2 DEF head
    <3> QED BY <3>1, <3>2 DEF Evidence
  <2> QED BY <2>1, <2>2
<1>5. Len(chain) \in Nat /\ <<r, Len(chain)>> \in Digest
  BY <1>1 DEF Digest
<1> QED BY <1>2, <1>3, <1>4, <1>5 DEF Record, Evidence

\* Opening a run keeps the invariant of the workflow.
LEMMA OpenKeeps ==
    ASSUME ConformanceAssumption, ConformanceInv, NEW r \in Runs, Open(r)
    PROVE  ConformanceInv'
<1> USE DEF ConformanceInv, ConformanceTypeOK
<1>1. /\ phase' = [phase EXCEPT ![r] = "running"]
      /\ records' = [records EXCEPT ![r] = onDisk]
      /\ results' = [results EXCEPT ![r] = <<NoResult>>]
      /\ overlapped' = (overlapped \/ \E q \in Runs : phase[q] = "running")
      /\ UNCHANGED <<onDisk, cutShort, stage>> /\ phase[r] = "new"
  BY DEF Open, Loaded
<1>2. NoResult \in Result /\ <<NoResult>> \in Seq(Result)
      /\ Len(<<NoResult>>) = 1 /\ <<NoResult>>[1] = NoResult
  BY DEF NoResult, Result
<1>3. ConformanceTypeOK'
  BY <1>1, <1>2
<1>4. ASSUME ~ overlapped', NEW q \in Runs, phase'[q] = "running"
      PROVE  q = r /\ records'[q] = onDisk
  BY <1>1, <1>4
<1>5. AloneUnlessOverlapped'
  BY <1>4 DEF AloneUnlessOverlapped
<1>6. EvidenceChains'
  BY <1>1, <1>4 DEF EvidenceChains, verify
<1>7. RunIsSound(r)'
  <2>1. phase'[r] = "running" /\ results'[r] = <<NoResult>> /\ stage'[r] = 1
        /\ Len(results'[r]) = 1 /\ records'[r] \in Seq(Evidence)
    BY <1>1, <1>2 DEF RunIsSound
  <2>2. 1 \in 1..Len(Components) /\ Len(Stages) \in Nat
    BY DEF ConformanceAssumption
  <2>3. EndsWith(records'[r], 1, 0)
    <3>1. (1 - 1) * Len(Stages) + 0 = 0 /\ DOMAIN Stages = 1..Len(Stages)
      BY <2>2 DEF ConformanceAssumption
    <3>2. Len(records'[r]) \in Nat
      BY <2>1
    <3> QED BY <2>2, <3>1, <3>2 DEF EndsWith
  <2> QED BY <2>1, <2>2, <2>3 DEF RunIsSound
<1>8. ASSUME NEW q \in Runs PROVE RunIsSound(q)'
  <2>1. CASE q # r
    BY <1>1, <2>1, OthersAreSound
  <2> QED BY <1>7, <2>1
<1> QED BY <1>3, <1>5, <1>6, <1>8

\* A crash keeps the invariant of the workflow.
LEMMA CrashKeeps ==
    ASSUME ConformanceInv, NEW r \in Runs, RunDies(r)
    PROVE  ConformanceInv'
<1> USE DEF ConformanceInv, ConformanceTypeOK
<1>1. /\ phase' = [phase EXCEPT ![r] = "dead"] /\ cutShort' \in {cutShort, TRUE}
      /\ UNCHANGED <<onDisk, records, results, stage, overlapped>>
  BY DEF RunDies
<1>2. ConformanceTypeOK'
  BY <1>1
<1>3. \A q \in Runs : phase'[q] = "running" => phase[q] = "running"
  BY <1>1
<1>4. AloneUnlessOverlapped'
  BY <1>1, <1>3 DEF AloneUnlessOverlapped
<1>5. EvidenceChains'
  BY <1>1, <1>3 DEF EvidenceChains, verify
<1>6. ASSUME NEW q \in Runs PROVE RunIsSound(q)'
  <2>1. CASE q # r
    BY <1>1, <2>1, OthersAreSound
  <2>2. phase'[r] = "dead"
    BY <1>1
  <2> QED BY <2>1, <2>2 DEF RunIsSound
<1> QED BY <1>2, <1>4, <1>5, <1>6

\* A list of results that is extended keeps the earlier ones.
LEMMA ResultFollows ==
    ASSUME NEW old \in Seq(Result)
    PROVE  LET long == Append(old, NoResult)
           IN  /\ long \in Seq(Result) /\ Len(long) = Len(old) + 1
               /\ DOMAIN long = 1..(Len(old) + 1)
               /\ \A i \in 1..Len(old) : long[i] = old[i]
<1>1. NoResult \in Result
  BY DEF NoResult, Result
<1>2. /\ Append(old, NoResult) \in Seq(Result)
      /\ Len(Append(old, NoResult)) = Len(old) + 1
      /\ \A i \in 1..Len(old) : Append(old, NoResult)[i] = old[i]
  BY <1>1, AppendProperties
<1> QED BY <1>2

\* the results of a run once one stage more of its last component is done
AfterStage(old, s, found, ok) == [old EXCEPT ![Len(old)] = Recorded(@, s, found, ok)]

IsRecorded(old, ok, with) ==
    LET longer == Append(with, NoResult)
    IN  /\ with \in Seq(Result) /\ Len(with) = Len(old)
        /\ longer \in Seq(Result) /\ Len(longer) = Len(old) + 1
        /\ (\A i \in DOMAIN with : with[i].failed = {}) =>
              ok /\ \A i \in DOMAIN old : old[i].failed = {}
        /\ (\A i \in DOMAIN longer : longer[i].failed = {}) =>
              \A i \in DOMAIN with : with[i].failed = {}

(* The results of a run after a stage: those of the component under way have *)
(* the one of the stage, and another component may follow.                   *)
LEMMA StageIsRecorded ==
    ASSUME ConformanceAssumption, NEW old \in Seq(Result), Len(old) > 0,
           NEW s \in 0..9, NEW found \in SUBSET {"partial", "blocked"}, NEW ok \in BOOLEAN,
           NEW with, with = AfterStage(old, s, found, ok)
    PROVE  IsRecorded(old, ok, with)
<1> DEFINE K == Len(old)
           new == Recorded(old[K], s, found, ok)
<1>1. K \in 1..K /\ K \in Nat /\ DOMAIN old = 1..K /\ old[K] \in Result
  OBVIOUS
<1>2. \A i \in DOMAIN Stages : Stages[i] \in 0..9
  BY DEF ConformanceAssumption
<1>3. /\ new.findings = old[K].findings \cup found
      /\ new.failed = IF ok THEN old[K].failed
                      ELSE old[K].failed \cup {s} \cup
                           (IF s \in {0, 7} THEN NotReached(s) ELSE {})
      /\ new = [findings |-> new.findings, failed |-> new.failed]
  BY DEF Recorded
<1>4. NotReached(s) \subseteq 0..9
  BY <1>2 DEF NotReached
<1>5. new \in Result
  <2>1. old[K].findings \in SUBSET {"partial", "blocked"} /\ old[K].failed \in SUBSET (0..9)
    BY <1>1 DEF Result
  <2>2. new.findings \in SUBSET {"partial", "blocked"} /\ new.failed \in SUBSET (0..9)
    BY <1>3, <1>4, <2>1
  <2> HIDE DEF new
  <2> QED BY <1>3, <2>2 DEF Result
<1>6. new.failed = {} => ok /\ old[K].failed = {}
  BY <1>3
<1>7. with = [old EXCEPT ![K] = new]
  BY DEF AfterStage
<1> HIDE DEF new
<1>8. /\ with \in Seq(Result) /\ Len(with) = K /\ DOMAIN with = 1..K /\ with[K] = new
      /\ \A i \in 1..K : i # K => with[i] = old[i]
  <2> HIDE DEF K
  <2>1. K \in 1..Len(old) /\ K \in Nat /\ Len(old) = K
    BY <1>1 DEF K
  <2> DEFINE w == [old EXCEPT ![K] = new]
  <2>2. /\ w \in Seq(Result) /\ Len(w) = Len(old)
        /\ \A j \in 1..Len(old) : w[j] = IF j = K THEN new ELSE old[j]
    BY <2>1, <1>5, ExceptSeq
  <2>3. DOMAIN w = 1..Len(w)
    BY <2>2
  <2> HIDE DEF w
  <2>4. with = w
    BY <1>7 DEF w
  <2> QED BY <2>1, <2>2, <2>3, <2>4
<1>9. (\A i \in DOMAIN with : with[i].failed = {}) =>
          ok /\ \A i \in DOMAIN old : old[i].failed = {}
  BY <1>1, <1>6, <1>8
<1> DEFINE long == Append(with, NoResult)
<1>10. /\ long \in Seq(Result) /\ Len(long) = K + 1 /\ DOMAIN long = 1..(K + 1)
       /\ \A i \in 1..K : long[i] = with[i]
  BY <1>8, ResultFollows
<1> HIDE DEF long
<1>11. (\A i \in DOMAIN long : long[i].failed = {}) =>
          \A i \in DOMAIN with : with[i].failed = {}
  <2>1. \A i \in 1..K : i \in 1..(K + 1)
    BY <1>1
  <2> QED BY <2>1, <1>8, <1>10
<1> QED BY <1>8, <1>9, <1>10, <1>11 DEF long, IsRecorded

\* Running a stage keeps the invariant of the workflow.
LEMMA RunStageKeeps ==
    ASSUME ConformanceAssumption, ConformanceInv, NEW r \in Runs, RunStage(r)
    PROVE  ConformanceInv'
<1> DEFINE s == Stages[stage[r]]
           K == Len(results[r])
           e == Record(r, s)
           n == Len(Stages)
           more == K < Len(Components)
<1>1. PICK found \in SUBSET {"partial", "blocked"}, ok \in BOOLEAN :
        LET last == stage[r] = Len(Stages) \/ Halts(s, ok)
            with == [results[r] EXCEPT ![K] = Recorded(@, s, found, ok)]
        IN  /\ phase[r] = "running" /\ Outcome(r, s, found, ok)
            /\ records' = [records EXCEPT ![r] = Append(@, e)]
            /\ onDisk' = IF cutShort THEN onDisk ELSE Append(onDisk, e)
            /\ stage' = [stage EXCEPT ![r] = IF last THEN 1 ELSE @ + 1]
            /\ results' = [results EXCEPT ![r] =
                              IF last /\ more THEN Append(with, NoResult) ELSE with]
            /\ phase' = [phase EXCEPT ![r] = IF last /\ ~ more THEN "ended" ELSE @]
            /\ UNCHANGED <<cutShort, overlapped>>
  BY DEF RunStage
<1> DEFINE last == stage[r] = Len(Stages) \/ Halts(s, ok)
           with == [results[r] EXCEPT ![K] = Recorded(@, s, found, ok)]
           longer == Append(with, NoResult)
           before == \A i \in DOMAIN results[r] : results[r][i].failed = {}
           after == \A i \in DOMAIN with : with[i].failed = {}
           chain == records[r]
           grown == Append(chain, e)
<1>2. /\ onDisk \in Seq(Evidence) /\ cutShort \in BOOLEAN /\ overlapped \in BOOLEAN
      /\ phase \in [Runs -> {"new", "running", "ended", "dead"}]
      /\ records \in [Runs -> Seq(Evidence)]
      /\ results \in [Runs -> Seq(Result)]
      /\ stage \in [Runs -> 1..n]
      /\ K \in 1..Len(Components) /\ AloneUnlessOverlapped /\ EvidenceChains
      /\ before => EndsWith(chain, K, stage[r] - 1)
  BY <1>1 DEF ConformanceInv, ConformanceTypeOK, RunIsSound, Untroubled
<1>3. /\ n \in Nat \ {0} /\ n \in 1..n /\ Stages[n] = 9 /\ Len(Components) \in Nat
      /\ DOMAIN Stages = 1..n /\ DOMAIN Components = 1..Len(Components)
  BY DEF ConformanceAssumption
<1>4. /\ s \in 0..9 /\ e \in Evidence
      /\ e.sequence = Len(chain) /\ e.previous = head(chain)
      /\ e.element = Components[K] /\ e.stage = s
  BY <1>1, RecordIsEvidence
<1>5. /\ with \in Seq(Result) /\ Len(with) = K
      /\ longer \in Seq(Result) /\ Len(longer) = K + 1
      /\ after => ok /\ before
      /\ (\A i \in DOMAIN longer : longer[i].failed = {}) => after
  <2> DEFINE old == results[r]
  <2>1. old \in Seq(Result) /\ Len(old) > 0
    BY <1>2
  <2>2. with = AfterStage(old, s, found, ok)
    BY DEF AfterStage
  <2> HIDE DEF s, with, old
  <2>3. IsRecorded(old, ok, with)
    BY <1>4, <2>1, <2>2, StageIsRecorded, ConformanceAssumption
  <2> QED BY <2>3 DEF old, IsRecorded
<1>6. phase[r] = "running" /\ UNCHANGED <<cutShort, overlapped>>
  BY <1>1
<1>7. records' = [records EXCEPT ![r] = grown] /\ onDisk' = IF cutShort THEN onDisk ELSE Append(onDisk, e)
  BY <1>1
<1>8. stage' = [stage EXCEPT ![r] = IF last THEN 1 ELSE @ + 1]
  BY <1>1
<1>9. results' = [results EXCEPT ![r] = IF last /\ more THEN longer ELSE with]
  BY <1>1
<1>10. phase' = [phase EXCEPT ![r] = IF last /\ ~ more THEN "ended" ELSE @]
  BY <1>1
<1>11. ok => (last <=> stage[r] = n)
  BY DEF Halts
<1>12. (s = 9 /\ ok) => verify(chain)
  <2>1. Outcome(r, s, found, ok)
    BY <1>1
  <2>2. s = 9 => ok = verify(chain)
    <3> HIDE DEF s
    <3> QED BY <2>1 DEF Outcome
  <2> QED BY <2>2
\* where the run stands once it has appended the record
<1>13. after => EndsWith(grown, K, stage[r])
  <2> SUFFICES ASSUME after PROVE EndsWith(grown, K, stage[r])
    OBVIOUS
  <2>1. before
    BY <1>5
  <2> HIDE DEF s, e, n, more, with, before, after
  <2>2. stage[r] \in 1..n
    BY <1>2
  <2> DEFINE J == stage[r] - 1
  <2>3. J \in 0..(Len(Stages) - 1) /\ J + 1 = stage[r]
    BY <1>3, <2>2 DEF n
  <2>4. e.stage = Stages[J + 1] /\ EndsWith(chain, K, J)
    BY <1>2, <1>4, <2>1, <2>3 DEF s
  <2>5. chain \in Seq(Evidence)
    BY <1>2
  <2> HIDE DEF J
  <2>6. EndsWith(Append(chain, e), K, J + 1)
    BY <1>2, <1>4, <2>3, <2>4, <2>5, StageIsAppended
  <2> QED BY <2>3, <2>6
<1>14. after /\ stage[r] = n => EndsWith(grown, K + 1, 0)
  <2>1. grown \in Seq(Evidence)
    <3>1. chain \in Seq(Evidence)
      BY <1>2
    <3> HIDE DEF e
    <3> QED BY <1>4, <3>1
  <2>2. K \in Nat \ {0}
    BY <1>2
  <2> QED BY <1>13, <2>1, <2>2, ComponentIsThrough
<1>15. grown \in Seq(Evidence) /\ (verify(chain) => verify(grown))
  <2>1. chain \in Seq(Evidence)
    BY <1>2
  <2> HIDE DEF e
  <2> QED BY <1>4, <2>1, ChainContinues
<1>16. verify(onDisk) => verify(Append(onDisk, e)) \/ chain # onDisk
  BY <1>15
<1>17. Append(onDisk, e) \in Seq(Evidence)
  <2> HIDE DEF e
  <2> QED BY <1>2, <1>4
<1> HIDE DEF s, K, e, n, more, last, with, longer, before, after, grown
<1>18. ConformanceTypeOK'
  <2>1. stage' \in [Runs -> 1..n]
    BY <1>2, <1>3, <1>8 DEF last
  <2>2. results' \in [Runs -> Seq(Result)]
    BY <1>2, <1>5, <1>9
  <2>3. records' \in [Runs -> Seq(Evidence)] /\ onDisk' \in Seq(Evidence)
    BY <1>2, <1>7, <1>15, <1>17
  <2>4. phase' \in [Runs -> {"new", "running", "ended", "dead"}]
    BY <1>2, <1>10
  <2>5. cutShort' \in BOOLEAN /\ overlapped' \in BOOLEAN
    BY <1>2, <1>6
  <2> QED BY <2>1, <2>2, <2>3, <2>4, <2>5 DEF ConformanceTypeOK, n
<1>19. \A q \in Runs : phase'[q] = "running" => phase[q] = "running"
  BY <1>2, <1>6, <1>10
<1>20. AloneUnlessOverlapped'
  BY <1>2, <1>6, <1>19 DEF AloneUnlessOverlapped
<1>21. EvidenceChains'
  <2> SUFFICES ASSUME ~ overlapped, ~ cutShort
               PROVE  /\ verify(onDisk')
                      /\ \A q \in Runs : phase'[q] = "running" => records'[q] = onDisk'
    BY <1>6 DEF EvidenceChains, verify
  <2>1. chain = onDisk /\ verify(onDisk)
    BY <1>2, <1>6 DEF EvidenceChains
  <2>2. onDisk' = grown
    BY <1>7, <2>1 DEF grown
  <2>3. \A q \in Runs : phase[q] = "running" => q = r
    BY <1>2, <1>6 DEF AloneUnlessOverlapped
  <2>4. records'[r] = grown
    BY <1>2, <1>7
  <2> QED BY <1>15, <1>19, <2>1, <2>2, <2>3, <2>4
<1>22. RunIsSound(r)'
  <2>1. records'[r] = grown
    BY <1>2, <1>7
  <2>2. CASE ~ last
    <3>1. phase'[r] = "running" /\ results'[r] = with /\ stage'[r] = stage[r] + 1
      BY <1>2, <1>6, <1>8, <1>9, <1>10, <2>2
    <3>2. Untroubled(r)' => after
      BY <3>1 DEF Untroubled, after
    <3>3. stage'[r] - 1 = stage[r]
      BY <1>2, <3>1
    <3>4. Untroubled(r)' => EndsWith(records'[r], K, stage'[r] - 1)
      BY <1>13, <2>1, <3>1, <3>2, <3>3
    <3>5. EndsWith(records[r], Len(results[r]), stage[r] - 1)' <=>
             EndsWith(records'[r], K, stage'[r] - 1)
      BY <1>5, <3>1 DEF EndsWith
    <3> QED BY <1>2, <1>5, <3>1, <3>4, <3>5 DEF RunIsSound
  <2>3. CASE last /\ more
    <3>1. phase'[r] = "running" /\ results'[r] = longer /\ stage'[r] = 1
      BY <1>2, <1>6, <1>8, <1>9, <1>10, <2>3
    <3>2. Untroubled(r)' => after
      BY <1>5, <3>1 DEF Untroubled, longer, after
    <3>3. after => stage[r] = n
      BY <1>5, <1>11, <2>3
    <3>4. Untroubled(r)' => EndsWith(records'[r], K + 1, stage'[r] - 1)
      BY <1>14, <2>1, <3>1, <3>2, <3>3
    <3>5. Len(results'[r]) = K + 1
      BY <1>5, <3>1
    <3>6. K + 1 \in 1..Len(Components)
      BY <1>2, <1>3, <2>3 DEF more
    <3>7. Untroubled(r)' => EndsWith(records'[r], Len(results'[r]), stage'[r] - 1)
      BY <3>4, <3>5
    <3> QED BY <3>1, <3>5, <3>6, <3>7 DEF RunIsSound, EndsWith
  <2>4. CASE last /\ ~ more
    <3>1. phase'[r] = "ended" /\ results'[r] = with
      BY <1>2, <1>6, <1>9, <1>10, <2>4
    <3>2. Untroubled(r)' => after
      BY <3>1 DEF Untroubled, after
    <3>3. after => stage[r] = n /\ ok
      BY <1>5, <1>11, <2>4
    <3>4. K = Len(Components)
      <4>1. K \in 1..Len(Components) /\ Len(Components) \in Nat
        BY <1>2, <1>3
      <4>2. ~ (K < Len(Components))
        BY <2>4 DEF more
      <4> HIDE DEF K
      <4> QED BY <4>1, <4>2
    <3>5. Untroubled(r)' => verify(records'[r])
      BY <1>3, <1>12, <1>15, <2>1, <3>2, <3>3 DEF s
    <3>6. EndsWith(grown, K, n) => ClosesWith(grown)
      <4>1. (K - 1) * Len(Stages) + Len(Stages) = Len(Components) * Len(Stages)
        BY <1>2, <1>3, <3>4 DEF n
      <4>2. \A j \in DOMAIN Stages : j <= n
        BY <1>3
      <4> QED BY <1>3, <3>4, <4>1, <4>2 DEF EndsWith, ClosesWith, n
    <3>7. Untroubled(r)' => ClosesWith(records'[r])
      BY <1>13, <2>1, <3>2, <3>3, <3>6
    <3> QED BY <3>1, <3>5, <3>7 DEF RunIsSound, verify, ClosesWith
  <2> QED BY <2>2, <2>3, <2>4
<1>23. ASSUME NEW q \in Runs PROVE RunIsSound(q)'
  <2>1. CASE q # r
    <3>1. RunIsSound(q)
      BY DEF ConformanceInv
    <3>2. /\ phase'[q] = phase[q] /\ records'[q] = records[q]
          /\ results'[q] = results[q] /\ stage'[q] = stage[q]
      BY <1>2, <1>7, <1>8, <1>9, <1>10, <2>1
    <3> QED BY <3>1, <3>2, OthersAreSound
  <2> QED BY <1>22, <2>1
<1> QED BY <1>18, <1>20, <1>21, <1>23 DEF ConformanceInv

\* The invariant of the workflow holds always.
LEMMA ConformanceInvariant == ConformanceSpec => []ConformanceInv
<1>1. ConformanceInit => ConformanceInv
  <2> SUFFICES ASSUME ConformanceInit PROVE ConformanceInv
    OBVIOUS
  <2>1. /\ onDisk = <<>> /\ cutShort = FALSE /\ overlapped = FALSE
        /\ \A r \in Runs : phase[r] = "new" /\ results[r] = <<>> /\ stage[r] = 1
    BY DEF ConformanceInit
  <2>2. ConformanceTypeOK
    <3>1. Len(Stages) \in Nat /\ Len(Stages) # 0
      BY ConformanceAssumption DEF ConformanceAssumption
    <3>2. 1 \in 1..Len(Stages)
      BY <3>1
    <3>3. stage \in [Runs -> 1..Len(Stages)]
      BY <3>2 DEF ConformanceInit
    <3>4. /\ phase \in [Runs -> {"new", "running", "ended", "dead"}]
          /\ records \in [Runs -> Seq(Evidence)] /\ results \in [Runs -> Seq(Result)]
      BY DEF ConformanceInit
    <3>5. onDisk \in Seq(Evidence)
      BY <2>1
    <3>6. cutShort \in BOOLEAN /\ overlapped \in BOOLEAN
      BY <2>1, Zenon
    <3> QED BY <3>3, <3>4, <3>5, <3>6 DEF ConformanceTypeOK
  <2>3. EvidenceChains
    BY <2>1 DEF EvidenceChains, verify
  <2>4. AloneUnlessOverlapped
    BY <2>1 DEF AloneUnlessOverlapped
  <2>5. \A r \in Runs : RunIsSound(r)
    BY <2>1 DEF RunIsSound
  <2> QED BY <2>2, <2>3, <2>4, <2>5 DEF ConformanceInv
<1>2. ConformanceInv /\ [ConformanceNext]_conformanceVars => ConformanceInv'
  <2> SUFFICES ASSUME ConformanceInv, [ConformanceNext]_conformanceVars
               PROVE  ConformanceInv'
    OBVIOUS
  <2>1. ASSUME NEW r \in Runs, Open(r) PROVE ConformanceInv'
    BY <2>1, OpenKeeps, ConformanceAssumption
  <2>2. ASSUME NEW r \in Runs, RunStage(r) PROVE ConformanceInv'
    BY <2>2, RunStageKeeps, ConformanceAssumption
  <2>3. ASSUME NEW r \in Runs, RunDies(r) PROVE ConformanceInv'
    BY <2>3, CrashKeeps
  <2>4. CASE UNCHANGED conformanceVars
    <3>1. /\ UNCHANGED <<onDisk, cutShort, phase, records, results, stage, overlapped>>
      BY <2>4 DEF conformanceVars
    <3>2. \A q \in Runs : RunIsSound(q)'
      BY <3>1, OthersAreSound DEF ConformanceInv
    <3>3. ConformanceTypeOK' /\ AloneUnlessOverlapped' /\ EvidenceChains'
      BY <3>1 DEF ConformanceInv, ConformanceTypeOK, AloneUnlessOverlapped,
                  EvidenceChains, verify
    <3> QED BY <3>2, <3>3 DEF ConformanceInv
  <2> QED BY <2>1, <2>2, <2>3, <2>4 DEF ConformanceNext
<1> QED BY <1>1, <1>2, PTL DEF ConformanceSpec

(* A verdict that lets a release pass rests on a ledger that verifies and    *)
(* has the record of each stage of each component, and on nothing that is    *)
(* blocked; and the evidence file chains as long as runs do not overlap and  *)
(* no record was torn (pk_core workflow.py, gate.py and evidence.py).        *)
THEOREM ReleasesAreBacked == ConformanceSpec => []ReleaseIsBacked
<1>1. ConformanceInv => ReleaseIsBacked
  <2> SUFFICES ASSUME ConformanceInv PROVE ReleaseIsBacked
    OBVIOUS
  <2>1. ASSUME NEW r \in Runs, phase[r] = "ended", verdict(r) # "NO_GO"
        PROVE  /\ \A i \in DOMAIN results[r] :
                     /\ certified(results[r][i])
                     /\ "blocked" \notin results[r][i].findings
                     /\ verdict(r) = "GO" => "partial" \notin results[r][i].findings
               /\ verify(records[r]) /\ ClosesWith(records[r])
    <3>1. Blockers(r) = {} /\ (verdict(r) = "GO" => Conditions(r) = {})
      BY <2>1 DEF verdict
    <3>2. \A i \in DOMAIN results[r] :
             results[r][i].failed = {} /\ "blocked" \notin results[r][i].findings
      BY <3>1 DEF Blockers
    <3>3. Conditions(r) = {} =>
             \A i \in DOMAIN results[r] : "partial" \notin results[r][i].findings
      BY DEF Conditions
    <3>4. verify(records[r]) /\ ClosesWith(records[r])
      BY <2>1, <3>2 DEF ConformanceInv, RunIsSound, Untroubled
    <3> QED BY <3>1, <3>2, <3>3, <3>4 DEF certified
  <2>2. GateIsHonest
    BY <2>1 DEF GateIsHonest
  <2> QED BY <2>2 DEF ReleaseIsBacked, ConformanceInv
<1> QED BY <1>1, ConformanceInvariant, PTL
=============================================================================
