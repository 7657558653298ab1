----------------------------- MODULE TimerWheel -----------------------------
(***************************************************************************)
(* TimerWheel of fabric.py. advance(n) moves the clock tick by tick; at    *)
(* each tick it takes the due entries of the slot, in the order they were  *)
(* scheduled, removes each from the wheel and calls it. A callback may     *)
(* schedule, may advance the wheel itself, and may raise, which leaves     *)
(* every advance() in progress. frames are those, the innermost first.     *)
(***************************************************************************)
EXTENDS Naturals, Sequences, FiniteSetsExt

CONSTANTS
    Slots,      \* slots of the wheel
    MaxTimers,  \* bound: timers scheduled
    MaxTicks,   \* bound: ticks of one advance()
    MaxNow,     \* bound: no advance() begins at this tick or later
    MaxNested   \* bound: advance() calls in progress

ASSUME WheelAssumption ==
    /\ Slots \in Nat \ {0}
    /\ {MaxTimers, MaxTicks, MaxNow, MaxNested} \subseteq Nat

VARIABLES
    now,
    wheel,   \* slot -> ids of the entries in it
    tick,    \* id -> fire_tick
    frames,  \* per advance() in progress: ticks left, due ids left
    busy,    \* a callback is running, and may call the wheel
    called,  \* history: id -> tick at which it was called
    zero,    \* history: ids scheduled with delay 0
    spoiled, \* history: ticks in which a callback raised
    nested   \* history: a callback has advanced the wheel

wheelVars == <<now, wheel, tick, frames, busy, called, zero, spoiled, nested>>

Schedule(delay) ==
    LET id == Len(tick) + 1
    IN  /\ frames = <<>> \/ busy
        /\ delay < Slots /\ Len(tick) < MaxTimers
        /\ tick' = Append(tick, now + delay)
        /\ called' = Append(called, 0)
        /\ wheel' = [wheel EXCEPT ![(now + delay) % Slots] = @ \cup {id}]
        /\ zero' = IF delay = 0 THEN zero \cup {id} ELSE zero
        /\ UNCHANGED <<now, frames, busy, spoiled, nested>>

Advance(n) ==
    /\ frames = <<>> \/ busy
    /\ now < MaxNow /\ Len(frames) < MaxNested
    /\ frames' = <<[left |-> n, due |-> {}]>> \o frames
    /\ busy' = FALSE
    /\ nested' = (nested \/ frames # <<>>)
    /\ UNCHANGED <<now, wheel, tick, called, zero, spoiled>>

\* fault: entries are removed from the slot while it is gone through
FaultDue(t) ==
    LET due == {id \in wheel[t % Slots] : tick[id] = t}
    IN  {id \in due : Cardinality({other \in due : other < id}) % 2 = 0}

Due(t) == {id \in wheel[t % Slots] : tick[id] = t}

Running == frames # <<>> /\ ~ busy

NextTick ==
    /\ Running /\ Head(frames).due = {} /\ Head(frames).left > 0
    /\ now' = now + 1
    /\ frames' = <<[left |-> Head(frames).left - 1, due |-> Due(now + 1)]>>
                     \o Tail(frames)
    /\ UNCHANGED <<wheel, tick, busy, called, zero, spoiled, nested>>

Call ==
    /\ Running /\ Head(frames).due # {}
    /\ LET id == Min(Head(frames).due)
           slot == tick[id] % Slots
       IN  /\ wheel' = [wheel EXCEPT ![slot] = @ \ {id}]
           /\ called' = [called EXCEPT ![id] = now]
           /\ frames' = [frames EXCEPT ![1].due = @ \ {id}]
    /\ busy' = TRUE
    /\ UNCHANGED <<now, tick, zero, spoiled, nested>>

CallbackReturns ==
    /\ busy /\ busy' = FALSE
    /\ UNCHANGED <<now, wheel, tick, frames, called, zero, spoiled, nested>>

\* entries some advance() has taken from the slot and not called yet
Taken == UNION {frames[i].due : i \in DOMAIN frames}

CallbackRaises ==
    /\ busy /\ busy' = FALSE
    /\ spoiled' = spoiled \cup {tick[id] : id \in Taken}
    /\ frames' = <<>>
    /\ UNCHANGED <<now, wheel, tick, called, zero, nested>>

(* An inner advance() that ends returns into the callback that called it.   *)
AdvanceReturns ==
    /\ Running /\ Head(frames).due = {} /\ Head(frames).left = 0
    /\ frames' = Tail(frames)
    /\ busy' = (Len(frames) > 1)
    /\ UNCHANGED <<now, wheel, tick, called, zero, spoiled, nested>>

WheelInit ==
    /\ now = 0 /\ wheel = [s \in 0..Slots - 1 |-> {}]
    /\ tick = <<>> /\ frames = <<>> /\ busy = FALSE
    /\ called = <<>> /\ zero = {} /\ spoiled = {} /\ nested = FALSE

WheelNext ==
    \/ \E delay \in 0..Slots - 1 : Schedule(delay)
    \/ \E n \in 1..MaxTicks : Advance(n)
    \/ NextTick
    \/ Call
    \/ CallbackReturns
    \/ CallbackRaises
    \/ AdvanceReturns

WheelSpec == WheelInit /\ [][WheelNext]_wheelVars
-----------------------------------------------------------------------------
(* No timer is called before its tick, and one is called late only if a     *)
(* callback has advanced the wheel; when the clock has passed the tick of a *)
(* timer it has been called and is off the wheel, unless its delay was 0,   *)
(* or a callback that raised took the call away.                            *)
TimersFireOnTime ==
    \A id \in DOMAIN tick :
        /\ called[id] # 0 => called[id] >= tick[id]
                             /\ (nested \/ called[id] = tick[id])
                             /\ id \notin wheel[tick[id] % Slots]
        /\ tick[id] <= now /\ id \notin zero \cup Taken /\ tick[id] \notin spoiled
              => called[id] # 0
=============================================================================
