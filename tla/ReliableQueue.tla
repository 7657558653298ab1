--------------------------- MODULE ReliableQueue ---------------------------
(***************************************************************************)
(* ReliableQueue and IdempotentConsumer of pk_components/                   *)
(* inv53_message_reliability: messages that are taken, that come back when *)
(* nobody acknowledges them in time, and that are parked after too many    *)
(* attempts.  Consumers take, handle and acknowledge; one may be so slow   *)
(* that its message has gone to another, and may die at any point.  They   *)
(* share the record of what is done.  A publisher may put an id again.     *)
(*                                                                         *)
(* Of the time that receive is given the model keeps how long each         *)
(* delivery still has.                                                     *)
(***************************************************************************)
EXTENDS Naturals, SequencesExt, Lists

CONSTANTS MessageIds, Consumers,
          Visibility,   \* visibility
          MaxDeliveries,  \* max_attempts
          MaxPuts       \* bound: how often each message is published

ASSUME QueueAssumption ==
    /\ Visibility \in Nat \ {0} /\ MaxDeliveries \in Nat /\ MaxPuts \in Nat

VARIABLES ready,     \* ids in the order they are handed out
          inFlight,  \* deliveries that await an ack: [id, left], oldest entry first
          attempts,
          dlq,       \* ids that are parked
          done,      \* ids the consumers have handled
          effects,   \* how often each id had its effect
          holding,   \* the delivery each consumer works on: <<>>, or its id and whether handled
          puts       \* how often each id was published

queueVars == <<ready, inFlight, attempts, dlq, done, effects, holding, puts>>

QueueInit ==
    /\ ready = <<>> /\ inFlight = <<>> /\ dlq = <<>>
    /\ attempts = [m \in MessageIds |-> 0]
    /\ done = {}
    /\ effects = [m \in MessageIds |-> 0]
    /\ holding = [c \in Consumers |-> <<>>]
    /\ puts = [m \in MessageIds |-> 0]

put(m) ==
    /\ puts[m] < MaxPuts
    /\ puts' = [puts EXCEPT ![m] = @ + 1]
    /\ ready' = Append(ready, m)
    /\ UNCHANGED <<inFlight, attempts, dlq, done, effects, holding>>

Expired == Kept(inFlight, {f \in Range(inFlight) : f.left = 0})
Unexpired == Kept(inFlight, {f \in Range(inFlight) : f.left > 0})

\* what is ready once _expire has put back what was not acknowledged
FaultBacklog == ready  \* slip: a delivery that expired is forgotten

Backlog == ready \o [i \in DOMAIN Expired |-> Expired[i].id]

\* in_flight[id] = ...: an entry that is there keeps its place
Entered(s, m) ==
    IF \E i \in DOMAIN s : s[i].id = m
    THEN [i \in DOMAIN s |-> IF s[i].id = m THEN [id |-> m, left |-> Visibility] ELSE s[i]]
    ELSE Append(s, [id |-> m, left |-> Visibility])

Attempted(m) == [attempts EXCEPT ![m] = @ + 1]

receive(c) ==
    LET q == Backlog
        May(i) == attempts[q[i]] < MaxDeliveries
    IN  /\ holding[c] = <<>>
        /\ \/ \E i \in DOMAIN q :
                /\ May(i) /\ \A j \in 1..(i - 1) : ~ May(j)
                /\ dlq' = dlq \o SubSeq(q, 1, i - 1)
                /\ ready' = SubSeq(q, i + 1, Len(q))
                /\ attempts' = Attempted(q[i])
                /\ inFlight' = Entered(Unexpired, q[i])
                /\ holding' = [holding EXCEPT ![c] = <<q[i], FALSE>>]
           \/ /\ q # <<>> /\ \A i \in DOMAIN q : ~ May(i)
              /\ dlq' = dlq \o q
              /\ ready' = <<>>
              /\ inFlight' = Unexpired
              /\ UNCHANGED <<attempts, holding>>
        /\ UNCHANGED <<done, effects, puts>>

Handled(m) ==
    IF m \in done THEN UNCHANGED <<effects, done>>
    ELSE effects' = [effects EXCEPT ![m] = @ + 1] /\ done' = done \cup {m}

handle(c) ==
    /\ holding[c] # <<>> /\ ~ holding[c][2]
    /\ Handled(holding[c][1])
    /\ holding' = [holding EXCEPT ![c] = <<@[1], TRUE>>]
    /\ UNCHANGED <<ready, inFlight, attempts, dlq, puts>>

\* the delivery it ends may be the one of another consumer by now
ack(c) ==
    /\ holding[c] # <<>> /\ holding[c][2]
    /\ inFlight' = Kept(inFlight, {f \in Range(inFlight) : f.id # holding[c][1]})
    /\ holding' = [holding EXCEPT ![c] = <<>>]
    /\ UNCHANGED <<ready, attempts, dlq, done, effects, puts>>

\* the consumer dies; another one takes its place
ConsumerDies(c) ==
    /\ holding[c] # <<>>
    /\ holding' = [holding EXCEPT ![c] = <<>>]
    /\ UNCHANGED <<ready, inFlight, attempts, dlq, done, effects, puts>>

Tick ==
    /\ \E i \in DOMAIN inFlight : inFlight[i].left > 0
    /\ inFlight' = [i \in DOMAIN inFlight |->
                      [inFlight[i] EXCEPT !.left = IF @ > 0 THEN @ - 1 ELSE 0]]
    /\ UNCHANGED <<ready, attempts, dlq, done, effects, holding, puts>>

Settle(c) == handle(c) \/ ack(c) \/ ConsumerDies(c)

QueueNext ==
    \/ \E m \in MessageIds : put(m)
    \/ \E c \in Consumers : receive(c) \/ Settle(c)
    \/ Tick

QueueSpec == QueueInit /\ [][QueueNext]_queueVars

Owned(m) ==
    \/ \E i \in DOMAIN ready : ready[i] = m
    \/ \E i \in DOMAIN inFlight : inFlight[i].id = m

Parked(m) == \E i \in DOMAIN dlq : dlq[i] = m

(* A message has its effect once at most, however often it is redelivered,  *)
(* put again or acknowledged late; one that had none is still owned by the  *)
(* queue or was parked after all its attempts.                              *)
MessagesAccounted ==
    \A m \in MessageIds :
        /\ effects[m] <= 1
        /\ puts[m] > 0 => Owned(m) \/ Parked(m) \/ effects[m] = 1
        /\ Parked(m) => attempts[m] = MaxDeliveries
=============================================================================
