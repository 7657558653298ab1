---------------------------- MODULE TaskRuntime ----------------------------
(***************************************************************************)
(* TaskRuntime of core/reference/pacore/fabric.py: tasks are spawned ready *)
(* and executed by run(), which takes all that are ready, in order of      *)
(* priority and submission.  A task's function may itself use the runtime: *)
(* spawn, cancel, move a payload, or wait for another task, which drains   *)
(* the pending work from inside the drain.  The stack of drains under way  *)
(* is the state that a single control flow hides.                          *)
(*                                                                         *)
(* In the thread profile the turnstile lets one function run at a time, in *)
(* the same order, so both in-process profiles are "serial" here.  Owners, *)
(* results, events and log records are left out.                           *)
(***************************************************************************)
EXTENDS Integers, Sequences

CONSTANTS MaxTasks,    \* bound: how many tasks are ever spawned
          Priority,    \* Task.priority
          Payloads,    \* the quantum payloads
          Profiles     \* the execution profiles in use

ASSUME TaskRuntimeAssumption ==
    /\ MaxTasks \in Nat
    /\ Priority \in [1..MaxTasks -> Int]
    /\ Profiles \subseteq {"serial", "processes"}

VARIABLES profile,   \* TaskRuntime.profile
          spawned,   \* how many tasks there are; a task is known by its seq
          state,     \* Task.state
          overdue,   \* the tasks whose declared cost exceeds timeout_ticks
          holds,     \* Task.payloads
          ownerOf,   \* TaskRuntime._owner_of
          consumed,  \* the payloads that are no longer LIVE
          drains,    \* the calls of run() under way, innermost last
          awaited    \* the tasks some await_task returned the result of

vars == <<profile, spawned, state, overdue, holds, ownerOf, consumed,
          drains, awaited>>

Tasks == 1..MaxTasks
Known == 1..spawned
NoTask == 0

Finished == {"DONE", "FAILED", "CANCELLED", "TIMED_OUT"}
States == {"NONE", "READY", "RUNNING"} \cup Finished

\* todo: what is left of the batch; body: the task whose function executes;
\* awaits: the task await_task asked for; known: how many tasks there were
\* when the drain began
Drains == [todo : SUBSET Tasks, body : Tasks \cup {NoTask},
           awaits : Tasks \cup {NoTask}, known : 0..MaxTasks]

Init ==
    /\ profile \in Profiles
    /\ spawned = 0
    /\ state = [t \in Tasks |-> "NONE"]
    /\ overdue \in SUBSET Tasks
    /\ holds = [t \in Tasks |-> {}]
    /\ ownerOf = [p \in Payloads |-> NoTask]
    /\ consumed = {}
    /\ drains = <<>>
    /\ awaited = {}
-----------------------------------------------------------------------------
Ready == {t \in Known : state[t] = "READY"}
HoldsQuantum(t) == holds[t] \ consumed # {}

Draining == drains # <<>>
Top == drains[Len(drains)]
SetTop(d) == drains' = [drains EXCEPT ![Len(drains)] = d]

\* the program, or the function of a task, is free to make a call
MayCall == Draining => Top.body # NoTask

taskVars == <<profile, spawned, overdue>>
payloadVars == <<holds, ownerOf, consumed>>

Spawn ==
    /\ MayCall /\ spawned < MaxTasks
    /\ spawned' = spawned + 1
    /\ state' = [state EXCEPT ![spawned + 1] = "READY"]
    /\ UNCHANGED <<profile, overdue, drains, awaited>>
    /\ UNCHANGED payloadVars

Cancel(t) ==
    /\ MayCall /\ state[t] \notin Finished
    /\ state' = [state EXCEPT ![t] = "CANCELLED"]
    /\ UNCHANGED <<drains, awaited>> /\ UNCHANGED taskVars /\ UNCHANGED payloadVars

FaultTransfer(t, p) ==  \* slip: the previous holder keeps the handle
    /\ MayCall /\ p \notin consumed /\ p \notin holds[t]
    /\ holds' = [holds EXCEPT ![t] = @ \cup {p}]
    /\ ownerOf' = [ownerOf EXCEPT ![p] = t]
    /\ UNCHANGED <<state, consumed, drains, awaited>> /\ UNCHANGED taskVars

\* transfer_ownership: the handle leaves the task that _owner_of names
Transfer(t, p) ==
    /\ MayCall /\ p \notin consumed /\ p \notin holds[t]
    /\ holds' = [u \in Tasks |->
                    IF u = t THEN holds[u] \cup {p}
                    ELSE IF u = ownerOf[p] THEN holds[u] \ {p} ELSE holds[u]]
    /\ ownerOf' = [ownerOf EXCEPT ![p] = t]
    /\ UNCHANGED <<state, consumed, drains, awaited>> /\ UNCHANGED taskVars

\* release_ownership: nobody asks whether t holds p
Release(t, p) ==
    /\ MayCall
    /\ holds' = [holds EXCEPT ![t] = @ \ {p}]
    /\ consumed' = consumed \cup {p}
    /\ ownerOf' = [ownerOf EXCEPT ![p] = NoTask]
    /\ UNCHANGED <<state, drains, awaited>> /\ UNCHANGED taskVars

(* Draining in process: run(), from the outside or from inside a task.     *)

FaultBeginDrain(awaits) ==  \* slip: only the first priority class is taken
    /\ profile = "serial"
    /\ Ready # {}
    /\ LET urgent == {t \in Ready : \A u \in Ready : Priority[u] <= Priority[t]}
       IN  drains' = Append(drains, [todo |-> urgent, body |-> NoTask,
                                     awaits |-> awaits, known |-> spawned])
    /\ UNCHANGED <<state, awaited>>

\* run() with something to do
BeginDrain(awaits) ==
    /\ profile = "serial"
    /\ Ready # {}
    /\ drains' = Append(drains, [todo |-> Ready, body |-> NoTask,
                                 awaits |-> awaits, known |-> spawned])
    /\ UNCHANGED <<state, awaited>>

FaultAwaitReturns(t) ==  \* slip: a task that timed out is not told apart
    awaited' = IF t = NoTask \/ state'[t] \in {"CANCELLED", "FAILED"}
               THEN awaited ELSE awaited \cup {t}

\* what await_task does after its run(): an exception, or the result
AwaitReturns(t) ==
    awaited' = IF t = NoTask \/ state'[t] \in {"CANCELLED", "TIMED_OUT", "FAILED"}
               THEN awaited ELSE awaited \cup {t}

\* the first of the batch: by priority, then by order of submission
IsFirst(t, batch) ==
    /\ t \in batch
    /\ \A u \in batch : \/ Priority[u] < Priority[t]
                        \/ Priority[u] = Priority[t] /\ t <= u

FaultExecute(t) ==  \* slip: a cancelled task does not give its turn on
    /\ Draining /\ Top.body = NoTask
    /\ IsFirst(t, Top.todo)
    /\ IF state[t] = "CANCELLED"
       THEN UNCHANGED <<drains, state>>
       ELSE IF t \in overdue
       THEN /\ SetTop([Top EXCEPT !.todo = @ \ {t}])
            /\ state' = [state EXCEPT ![t] = "TIMED_OUT"]
       ELSE /\ SetTop([Top EXCEPT !.todo = @ \ {t}, !.body = t])
            /\ state' = [state EXCEPT ![t] = "RUNNING"]
    /\ UNCHANGED awaited /\ UNCHANGED taskVars /\ UNCHANGED payloadVars

\* _execute up to the call of the function
Execute(t) ==
    /\ Draining /\ Top.body = NoTask
    /\ IsFirst(t, Top.todo)
    /\ IF state[t] = "CANCELLED"
       THEN SetTop([Top EXCEPT !.todo = @ \ {t}]) /\ UNCHANGED state
       ELSE IF t \in overdue
       THEN /\ SetTop([Top EXCEPT !.todo = @ \ {t}])
            /\ state' = [state EXCEPT ![t] = "TIMED_OUT"]
       ELSE /\ SetTop([Top EXCEPT !.todo = @ \ {t}, !.body = t])
            /\ state' = [state EXCEPT ![t] = "RUNNING"]
    /\ UNCHANGED awaited /\ UNCHANGED taskVars /\ UNCHANGED payloadVars

\* the function returns or raises; whatever the state was, it is overwritten
BodyEnds ==
    /\ Draining /\ Top.body # NoTask
    /\ \E outcome \in {"DONE", "FAILED"} :
          state' = [state EXCEPT ![Top.body] = outcome]
    /\ SetTop([Top EXCEPT !.body = NoTask])
    /\ UNCHANGED awaited /\ UNCHANGED taskVars /\ UNCHANGED payloadVars

EndDrain ==
    /\ Draining /\ Top.body = NoTask /\ Top.todo = {}
    /\ UNCHANGED state
    /\ AwaitReturns(Top.awaits)
    /\ drains' = SubSeq(drains, 1, Len(drains) - 1)
    /\ UNCHANGED taskVars /\ UNCHANGED payloadVars

(* Draining in other processes: the batch is checked, shipped, harvested.  *)

\* one payload, or one function that raises, and nothing is harvested
RunInProcesses(awaits) ==
    /\ profile = "processes"
    /\ Ready # {}
    /\ \A t \in Ready : ~ HoldsQuantum(t)
    /\ state' = [t \in Tasks |-> IF t \in Ready THEN "DONE" ELSE state[t]]
    /\ AwaitReturns(awaits)
    /\ UNCHANGED drains

\* run() with nothing to do
RunNothing(awaits) ==
    /\ Ready = {}
    /\ UNCHANGED <<state, drains>>
    /\ AwaitReturns(awaits)

(* The calls that drain: run, barrier, await_all, pipeline_stage and       *)
(* wait_event with no task to wait for, await_task with one.               *)
Drain(awaits) ==
    /\ MayCall
    /\ BeginDrain(awaits) \/ RunInProcesses(awaits) \/ RunNothing(awaits)
    /\ UNCHANGED taskVars /\ UNCHANGED payloadVars

Await(t) ==
    \/ state[t] \notin Finished /\ Drain(t)
    \/ /\ MayCall /\ state[t] \in Finished
       /\ UNCHANGED <<state, drains>>
       /\ AwaitReturns(t)
       /\ UNCHANGED taskVars /\ UNCHANGED payloadVars

Call ==
    \/ Spawn
    \/ Drain(NoTask)
    \/ \E t \in Known :
          \/ Cancel(t)
          \/ Await(t)
          \/ \E p \in Payloads : Transfer(t, p) \/ Release(t, p)

Advance ==
    \/ \E t \in Tasks : Execute(t)
    \/ BodyEnds
    \/ EndDrain

Next == Call \/ Advance

Spec == Init /\ [][Next]_vars

\* the runtime goes on, and the function of a task ends
Fairness == WF_vars(Advance)
FairSpec == Spec /\ Fairness
-----------------------------------------------------------------------------
TypeOK ==
    /\ profile \in Profiles
    /\ spawned \in 0..MaxTasks
    /\ state \in [Tasks -> States]
    /\ overdue \subseteq Tasks
    /\ holds \in [Tasks -> SUBSET Payloads]
    /\ ownerOf \in [Payloads -> Tasks \cup {NoTask}]
    /\ consumed \subseteq Payloads
    /\ drains \in Seq(Drains)
    /\ awaited \subseteq Tasks

(* A payload that is still alive is in the hands of exactly the task that   *)
(* _owner_of names, through every transfer, cancellation and release, even  *)
(* one made for a task that does not hold it.                               *)
OneHolder ==
    \A p \in Payloads \ consumed : \A t \in Tasks :
        p \in holds[t] <=> ownerOf[p] = t

(* No function is entered while it executes, however deep the drains nest,  *)
(* and a task is RUNNING only while its function executes.                  *)
NoReentry ==
    /\ \A i, j \in DOMAIN drains :
          drains[i].body = drains[j].body /\ drains[i].body # NoTask => i = j
    /\ \A t \in Known :
          state[t] = "RUNNING" => \E i \in DOMAIN drains : drains[i].body = t

(* A drain forgets nothing: what was ready when it began, and is still      *)
(* ready, is still to be executed by it.  So nothing that was pending when  *)
(* a barrier or an await began is pending when it returns.                  *)
NothingForgotten ==
    \A i \in DOMAIN drains : \A t \in 1..drains[i].known :
        state[t] = "READY" => t \in drains[i].todo

(* await_task returns a result only of a task that is done, or of one whose *)
(* function is executing around the call.                                   *)
AwaitsAreAnswered ==
    [][\A t \in awaited' \ awaited :
          state'[t] = "DONE" \/ \E i \in DOMAIN drains : drains[i].body = t]_vars

(* Draining from inside a drain terminates: every run() returns.            *)
DrainsReturn == Draining ~> ~ Draining

(* PA_LCTL_FABRIC_SPEC.md: "`run()` selects every `READY` task".            *)
RunsOnlyReady ==
    [][\A t \in Tasks :
          state[t] # "RUNNING" /\ state'[t] = "RUNNING" => state[t] = "READY"]_vars
=============================================================================
