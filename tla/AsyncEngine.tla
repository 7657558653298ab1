---------------------------- MODULE AsyncEngine ----------------------------
(***************************************************************************)
(* AsyncEngine of core/reference/pacore/fabric.py: futures with a          *)
(* happens-before relation, resolved by drain() in repeated passes.  The   *)
(* thunk of a future and the callbacks that its resolution runs are        *)
(* foreign code: they may submit and cancel futures, add dependencies,     *)
(* drain again from inside the drain, and raise.  The stack of drains      *)
(* under way holds the futures that a drain took out of the pending list.  *)
(*                                                                         *)
(* Values, control events, the clock and the timer wheel are left out.     *)
(***************************************************************************)
EXTENDS Naturals, Sequences, FiniteSets

CONSTANTS MaxFutures,  \* bound: how many futures are ever submitted
          MaxAdded     \* bound: how many pairs add_happens_before is given

ASSUME AsyncAssumption == MaxFutures \in Nat /\ MaxAdded \in Nat

VARIABLES submitted,    \* AsyncEngine._n; a future is known by its number
          state,        \* AsyncFuture.state
          after,        \* the dependencies a future was submitted with
          added,        \* the pairs given to add_happens_before since
          pending,      \* AsyncEngine._pending
          drains,       \* the calls of drain() under way, innermost last
          completions   \* AsyncEngine.completion_queue

engineVars == <<submitted, state, after, added, pending, drains, completions>>

Futures == 1..MaxFutures
Known == 1..submitted
None == 0

Done == {"DONE", "FAILED", "CANCELLED"}
States == {"NONE", "PENDING"} \cup Done

\* remaining, still and progress are the local variables of drain(); fut is
\* the future whose thunk or callbacks execute
Drains == [remaining : Seq(Futures), still : Seq(Futures), progress : BOOLEAN,
           at : {"next", "thunk", "callbacks"}, fut : Futures \cup {None}]

EngineInit ==
    /\ submitted = 0
    /\ state = [f \in Futures |-> "NONE"]
    /\ after = [f \in Futures |-> {}]
    /\ added = {}
    /\ pending = <<>>
    /\ drains = <<>>
    /\ completions = <<>>
-----------------------------------------------------------------------------
Elems(s) == {s[i] : i \in DOMAIN s}

\* some predecessor in the happens-before relation is unresolved
Blocked(f) ==
    \E d \in Known : state[d] = "PENDING" /\ (d \in after[f] \/ <<d, f>> \in added)

Draining == drains # <<>>
Top == drains[Len(drains)]
SetTop(d) == drains' = [drains EXCEPT ![Len(drains)] = d]
PopTop == drains' = SubSeq(drains, 1, Len(drains) - 1)

(* Calls, by the program or by foreign code inside a drain.                *)

MayCall == Draining => Top.at # "next"

FaultSubmit(deps) ==  \* slip: the thunk is entered where it is run, too
    /\ submitted < MaxFutures
    /\ submitted' = submitted + 1
    /\ state' = [state EXCEPT ![submitted + 1] = "PENDING"]
    /\ after' = [after EXCEPT ![submitted + 1] = deps]
    /\ pending' = Append(pending, submitted + 1)
    /\ IF Draining THEN SetTop([Top EXCEPT !.still = Append(@, submitted + 1)])
                   ELSE UNCHANGED drains
    /\ UNCHANGED <<added, completions>>

Submit(deps) ==
    /\ submitted < MaxFutures
    /\ submitted' = submitted + 1
    /\ state' = [state EXCEPT ![submitted + 1] = "PENDING"]
    /\ after' = [after EXCEPT ![submitted + 1] = deps]
    /\ pending' = Append(pending, submitted + 1)
    /\ UNCHANGED <<added, drains, completions>>

\* AsyncFuture.cancel: neither the thunk nor the callbacks are touched
CancelFuture(f) ==
    /\ state[f] = "PENDING"
    /\ state' = [state EXCEPT ![f] = "CANCELLED"]
    /\ UNCHANGED <<submitted, after, added, pending, drains, completions>>

AddHappensBefore(a, b) ==
    /\ a \notin after[b] /\ Cardinality(added) < MaxAdded
    /\ added' = added \cup {<<a, b>>}
    /\ UNCHANGED <<submitted, state, after, pending, drains, completions>>

PopCompletion ==
    /\ completions # <<>>
    /\ completions' = Tail(completions)
    /\ UNCHANGED <<submitted, state, after, added, pending, drains>>

BeginDrain ==
    /\ pending # <<>>
    /\ drains' = Append(drains, [remaining |-> pending, still |-> <<>>,
                                 progress |-> FALSE, at |-> "next", fut |-> None])
    /\ pending' = <<>>
    /\ UNCHANGED <<submitted, state, after, added, completions>>

(* The loop of drain().                                                    *)

InLoop == Draining /\ Top.at = "next"

PutOff ==
    /\ InLoop /\ Top.remaining # <<>>
    /\ Blocked(Head(Top.remaining))
    /\ SetTop([Top EXCEPT !.remaining = Tail(@),
                          !.still = Append(@, Head(Top.remaining))])
    /\ UNCHANGED <<submitted, state, after, added, pending, completions>>

\* a cancelled future is run like any other
RunThunk ==
    /\ InLoop /\ Top.remaining # <<>>
    /\ ~ Blocked(Head(Top.remaining))
    /\ SetTop([Top EXCEPT !.remaining = Tail(@), !.at = "thunk",
                          !.fut = Head(Top.remaining)])
    /\ UNCHANGED <<submitted, state, after, added, pending, completions>>

\* the thunk returns or raises: set_result, or set_error
Resolve ==
    /\ Draining /\ Top.at = "thunk"
    /\ state[Top.fut] = "PENDING"
    /\ \E outcome \in {"DONE", "FAILED"} :
          state' = [state EXCEPT ![Top.fut] = outcome]
    /\ SetTop([Top EXCEPT !.at = "callbacks"])
    /\ UNCHANGED <<submitted, after, added, pending, completions>>

\* the callbacks have returned
Complete ==
    /\ Draining /\ Top.at = "callbacks"
    /\ completions' = Append(completions, Top.fut)
    /\ SetTop([Top EXCEPT !.at = "next", !.fut = None, !.progress = TRUE])
    /\ UNCHANGED <<submitted, state, after, added, pending>>

\* the future was cancelled meanwhile, or a callback raises: set_error raises
\* in the exception handler, and with the drain goes all that it still held
Escape ==
    /\ Draining
    /\ \/ Top.at = "thunk" /\ state[Top.fut] # "PENDING"
       \/ Top.at = "callbacks"
    /\ PopTop
    /\ UNCHANGED <<submitted, state, after, added, pending, completions>>

FaultNextPass ==  \* slip: nobody asks whether the last pass achieved anything
    /\ InLoop /\ Top.remaining = <<>> /\ Top.still # <<>>
    /\ SetTop([Top EXCEPT !.remaining = Top.still, !.still = <<>>, !.progress = FALSE])
    /\ UNCHANGED <<submitted, state, after, added, pending, completions>>

NextPass ==
    /\ InLoop /\ Top.remaining = <<>> /\ Top.still # <<>> /\ Top.progress
    /\ SetTop([Top EXCEPT !.remaining = Top.still, !.still = <<>>, !.progress = FALSE])
    /\ UNCHANGED <<submitted, state, after, added, pending, completions>>

\* the pending list is overwritten with what could not be resolved
EndDrain ==
    /\ InLoop /\ Top.remaining = <<>> /\ (Top.still = <<>> \/ ~ Top.progress)
    /\ pending' = Top.still
    /\ PopTop
    /\ UNCHANGED <<submitted, state, after, added, completions>>

CallEngine ==
    /\ MayCall
    /\ \/ \E deps \in SUBSET Known : Submit(deps)
       \/ \E f \in Known : CancelFuture(f)
       \/ \E a, b \in Known : AddHappensBefore(a, b)
       \/ PopCompletion
       \/ BeginDrain

\* foreign code returns or raises
ForeignEnds ==
    \/ Resolve
    \/ Complete
    \/ Escape

RunEngine ==
    \/ PutOff
    \/ RunThunk
    \/ ForeignEnds
    \/ NextPass
    \/ EndDrain

EngineNext == CallEngine \/ RunEngine

EngineSpec == EngineInit /\ [][EngineNext]_engineVars

\* the engine goes on, and a thunk or callback makes finitely many calls
EngineFairness == WF_engineVars(RunEngine) /\ SF_engineVars(ForeignEnds)
EngineFairSpec == EngineSpec /\ EngineFairness
-----------------------------------------------------------------------------
EngineTypeOK ==
    /\ submitted \in 0..MaxFutures
    /\ state \in [Futures -> States]
    /\ after \in [Futures -> SUBSET Futures]
    /\ added \in SUBSET (Futures \X Futures)
    /\ pending \in Seq(Futures)
    /\ drains \in Seq(Drains)
    /\ completions \in Seq(Futures)

(* The lists of futures that are still to be run: the pending one and those *)
(* of every drain under way.                                                *)
Waiting(i) == drains[i].remaining \o drains[i].still

(* A thunk is in one list at most, and once, and never in a list while it   *)
(* runs or after: however drains and submissions nest, it is run once.      *)
RunOnce ==
    /\ \A i, j \in DOMAIN pending : pending[i] = pending[j] => i = j
    /\ \A k \in DOMAIN drains :
          /\ \A i, j \in DOMAIN Waiting(k) : Waiting(k)[i] = Waiting(k)[j] => i = j
          /\ Elems(Waiting(k)) \cap Elems(pending) = {}
          /\ drains[k].fut \notin Elems(pending)
          /\ \A l \in DOMAIN drains :
                /\ k # l => Elems(Waiting(k)) \cap Elems(Waiting(l)) = {}
                /\ drains[l].fut \notin Elems(Waiting(k))
    /\ \A f \in Futures : state[f] \in {"DONE", "FAILED"} =>
          /\ f \notin Elems(pending)
          /\ \A k \in DOMAIN drains : f \notin Elems(Waiting(k))

(* A future that has run had all the futures it was submitted after         *)
(* resolved or cancelled before it.                                         *)
Causal ==
    \A f \in Futures : state[f] \in {"DONE", "FAILED"} =>
        \A d \in after[f] : state[d] # "PENDING"

(* A resolved future stays as it is: a cancellation is never overwritten by *)
(* a late result, a result never by a second one.                           *)
ResolvedStays ==
    [][\A f \in Futures : state[f] \in Done => state'[f] = state[f]]_engineVars

(* When a drain gives up, all that it gives back really waits for somebody. *)
GivesUpOnlyBlocked ==
    (InLoop /\ ~ Top.progress) => \A f \in Elems(Top.still) : Blocked(f)

(* Every drain ends, also one of futures that wait for each other.          *)
DrainsEnd == Draining ~> ~ Draining

(* The docstring of drain: "Resolve every pending future in deterministic   *)
(* dependency order."  An unresolved future is kept for the next drain.     *)
NoneForgotten ==
    \A f \in Futures : state[f] = "PENDING" =>
        \/ f \in Elems(pending)
        \/ \E k \in DOMAIN drains :
              f = drains[k].fut \/ f \in Elems(Waiting(k))
=============================================================================
