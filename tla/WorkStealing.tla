---------------------------- MODULE WorkStealing ----------------------------
(***************************************************************************)
(* WorkStealing and ElasticWorkerGroup of fabric.py over one federation:   *)
(* the deques are made for the workers there are when the stealing starts; *)
(* the elastic group then grows and shrinks under it. Workers are numbered *)
(* in the order of their ids, new ones from First up. An operation that    *)
(* raises for a worker without a deque or outside the federation changes   *)
(* nothing, but for steal_specific, which has removed the task by then.    *)
(* The anti-thrash guard only reports and is left out, and so is the       *)
(* strict mode of attempt_steal, which raises where the walk goes past a   *)
(* task that holds unknown quantum state.                                  *)
(***************************************************************************)
EXTENDS Naturals, Sequences, FiniteSets, Functions, SequencesExt

CONSTANTS
    Tasks,
    Group,    \* worker -> group; a group lies in one domain
    Domain,   \* worker -> domain
    Trust,    \* worker -> trust domain
    Elastic,  \* the group that grows and shrinks
    First,    \* the first worker not there at the start
    MinSize,
    MaxSize

Workers == DOMAIN Group
Original == {w \in Workers : w < First}
Nil == "none"

ASSUME StealingAssumption ==
    /\ Workers \subseteq Nat
    /\ \A w \in Workers \ Original : Group[w] = Elastic
    /\ \A a, b \in Workers : Group[a] = Group[b] =>
          Domain[a] = Domain[b]

VARIABLES
    members,  \* workers in the federation now
    fresh,    \* the next worker grow() adds
    deques,   \* original worker -> tasks, the oldest first
    movable,  \* tasks declared movable
    payload,  \* task -> none, or a LIVE payload, unknown or known
    settled,  \* tasks no longer PENDING or READY
    taken,    \* tasks handed out to be executed
    last,     \* history: the last operation that took or moved a task
    dropped   \* history: tasks stolen by name for a worker without a deque

stealingVars ==
    <<members, fresh, deques, movable, payload, settled, taken, last, dropped>>

Queued == UNION {Range(deques[w]) : w \in Original}

Stealable(t) == t \in movable \ settled /\ payload[t] # "unknown"

\* fault: the walk leaves the domain out
FaultLevels == <<"worker_group", "federation">>

StealLevels == <<"worker_group", "domain", "federation">>

Scope(thief, level) ==
    CASE level = "worker_group" -> {w \in members : Group[w] = Group[thief]}
      [] level = "domain" -> {w \in members : Domain[w] = Domain[thief]}
      [] OTHER -> members

Others(thief, i) == Scope(thief, StealLevels[i]) \ {thief}

\* the deepest deque first, then the id
Before(v, w) ==
    \/ Len(deques[v]) > Len(deques[w])
    \/ Len(deques[v]) = Len(deques[w]) /\ v < w

Promising(victims) ==
    {v \in victims : \E t \in Range(deques[v]) : Stealable(t)}

FirstVictim(victims, v) ==
    v \in victims /\ \A w \in victims \ {v} : Before(v, w)

Oldest(v, i) ==
    /\ i \in DOMAIN deques[v] /\ Stealable(deques[v][i])
    /\ \A j \in DOMAIN deques[v] : j < i => ~ Stealable(deques[v][j])

\* fault: the newest task is taken off the deque, whichever was picked
FaultWithout(v, i) == [deques EXCEPT ![v] = Front(@)]

Without(v, i) == [deques EXCEPT ![v] = RemoveAt(@, i)]

Nothing == [kind |-> "nothing", thief |-> 0, victim |-> 0, task |-> Nil]

Push(w, t) ==
    /\ w \in Original
    /\ t \notin Queued \cup taken \cup dropped
    /\ deques' = [deques EXCEPT ![w] = Append(@, t)]
    /\ last' = Nothing
    /\ UNCHANGED <<members, fresh, movable, payload, settled, taken, dropped>>

PopLocal(w) ==
    /\ deques[w] # <<>>
    /\ LET t == Last(deques[w])
       IN  /\ taken' = taken \cup {t}
           /\ last' = [kind |-> "local", thief |-> w, victim |-> w, task |-> t]
    /\ deques' = [deques EXCEPT ![w] = Front(@)]
    /\ UNCHANGED <<members, fresh, movable, payload, settled, dropped>>

Victims(thief, level) == Promising(Others(thief, level) \cap Original)

\* the levels at which a victim has something
Fruitful(thief) == {i \in DOMAIN StealLevels : Victims(thief, i) # {}}

\* the levels with a worker that has no deque, which raise when they are reached
Raising(thief) == {i \in DOMAIN StealLevels : Others(thief, i) \ Original # {}}

(* The walk outward: the first level at which a victim has something.       *)
Steal(thief, level, victim, i) ==
    /\ level \in Fruitful(thief)
    /\ \A j \in Fruitful(thief) : level <= j
    /\ \A j \in Raising(thief) : level < j
    /\ FirstVictim(Victims(thief, level), victim)
    /\ Oldest(victim, i)
    /\ deques' = Without(victim, i)
    /\ taken' = taken \cup {deques[victim][i]}
    /\ last' = [kind |-> "stolen", thief |-> thief, victim |-> victim,
                task |-> deques[victim][i]]

FindNothing(thief) ==
    /\ \A i \in Fruitful(thief) : \E j \in Raising(thief) : j <= i
    /\ last' = [Nothing EXCEPT
           !.kind = IF Raising(thief) = {} THEN "idle" ELSE "raised",
           !.thief = thief]
    /\ UNCHANGED <<deques, taken>>

AttemptSteal(thief) ==
    /\ thief \in members /\ deques[thief] = <<>>
    /\ \/ \E level \in DOMAIN StealLevels, victim \in Original :
            \E i \in DOMAIN deques[victim] : Steal(thief, level, victim, i)
       \/ FindNothing(thief)
    /\ UNCHANGED <<members, fresh, movable, payload, settled, dropped>>

\* the default MigrationRules
Permits(thief, victim, t) ==
    payload[t] = Nil /\ t \in movable /\ Trust[thief] = Trust[victim]

StealSpecific(thief, victim, i) ==
    LET t == deques[victim][i]
    IN  /\ {thief, victim} \subseteq members
        /\ payload[t] # "unknown" /\ Permits(thief, victim, t)
        /\ IF thief \in Original
           THEN /\ deques' = [Without(victim, i) EXCEPT ![thief] = Append(@, t)]
                /\ last' = [kind |-> "moved", thief |-> thief,
                            victim |-> victim, task |-> t]
                /\ UNCHANGED dropped
           ELSE /\ deques' = Without(victim, i) /\ dropped' = dropped \cup {t}
                /\ last' = [Nothing EXCEPT !.kind = "raised"]
        /\ UNCHANGED <<members, fresh, movable, payload, settled, taken>>

\* the payload of a task is measured, consumed or discarded
PayloadEnds(t) ==
    /\ payload[t] # Nil
    /\ payload' = [payload EXCEPT ![t] = Nil]
    /\ last' = Nothing
    /\ UNCHANGED <<members, fresh, deques, movable, settled, taken, dropped>>

\* the runtime runs or cancels a task; where it is queued does not change
Settle(t) ==
    /\ t \notin settled
    /\ settled' = settled \cup {t}
    /\ last' = Nothing
    /\ UNCHANGED <<members, fresh, deques, movable, payload, taken, dropped>>

Size == Cardinality({w \in members : Group[w] = Elastic})

Grow ==
    /\ Size < MaxSize /\ fresh \in Workers
    /\ members' = members \cup {fresh} /\ fresh' = fresh + 1
    /\ last' = Nothing
    /\ UNCHANGED <<deques, movable, payload, settled, taken, dropped>>

Shrink ==
    /\ Size > MinSize
    /\ LET group == {w \in members : Group[w] = Elastic}
       IN  members' = members \ {CHOOSE w \in group : \A v \in group : v <= w}
    /\ last' = Nothing
    /\ UNCHANGED <<fresh, deques, movable, payload, settled, taken, dropped>>

StealingInit ==
    /\ members = Original /\ fresh = First
    /\ deques = [w \in Original |-> <<>>]
    /\ movable \in SUBSET Tasks
    /\ payload \in [Tasks -> {Nil, "unknown", "known"}]
    /\ settled = {} /\ taken = {} /\ dropped = {} /\ last = Nothing

StealingNext ==
    \/ \E w \in Original, t \in Tasks : Push(w, t)
    \/ \E w \in Original : PopLocal(w)
    \/ \E thief \in Original : AttemptSteal(thief)
    \/ \E thief \in Workers, victim \in Original :
          \E i \in DOMAIN deques[victim] : StealSpecific(thief, victim, i)
    \/ \E t \in Tasks : PayloadEnds(t) \/ Settle(t)
    \/ Grow
    \/ Shrink

StealingSpec == StealingInit /\ [][StealingNext]_stealingVars
-----------------------------------------------------------------------------
\* how far apart two workers are: 1 group, 2 domain, 3 federation
Distance(v, w) ==
    CASE Group[v] = Group[w] -> 1
      [] Group[v] # Group[w] /\ Domain[v] = Domain[w] -> 2
      [] OTHER -> 3

Within(thief, d) == {w \in (members \cap Original) \ {thief} : Distance(thief, w) <= d}

(* A thief goes away with nothing only when nothing in the federation can   *)
(* be stolen; what it steals is no unknown quantum state, comes from a      *)
(* nearest worker that has something, and is no younger there than another  *)
(* task that could have been stolen.                                        *)
StealsAreSound ==
    [][/\ last'.kind = "idle" =>
             Promising(Within(last'.thief, 3)) = {}
       /\ last'.kind = "stolen" =>
             /\ payload[last'.task] # "unknown"
             /\ Promising(Within(last'.thief,
                    Distance(last'.thief, last'.victim) - 1)) = {}
             /\ \A i, j \in DOMAIN deques[last'.victim] :
                   deques[last'.victim][j] = last'.task /\ i < j
                      => ~ Stealable(deques[last'.victim][i])]_stealingVars

OnePlace ==
    /\ \A v, w \in Original : v # w => Range(deques[v]) \cap Range(deques[w]) = {}
    /\ \A w \in Original : IsInjective(deques[w])
    /\ Queued \cap taken = {}

(* A task is in one place at most, and a task that was pushed is never      *)
(* lost, also while workers come and go, unless it was stolen by name for a *)
(* worker that has no deque.                                                *)
TasksAreKept ==
    [][/\ Queued \cup taken \cup dropped
              \subseteq (Queued \cup taken \cup dropped)'
       /\ OnePlace']_stealingVars

(* Every theft between workers obeys the migration rules of the federation: *)
(* PA_LCTL_FABRIC_SPEC.md section 9.3 lists a refusal by MigrationRules     *)
(* among those of attempt_steal, and says steal_specific applies the same   *)
(* rules.                                                                   *)
MigrationsPermitted ==
    [][last'.kind = "stolen" =>
          Permits(last'.thief, last'.victim, last'.task)]_stealingVars
=============================================================================
