------------------------- MODULE ClassicalFeedback -------------------------
(***************************************************************************)
(* ClassicalFeedbackFabric of core/reference/pacore/protocols.py: the      *)
(* classical messages a distributed quantum protocol waits for.  Time is   *)
(* the fabric's own clock; it moves only when a receive delivers a message *)
(* or gives it up.  One process calls the fabric, in any order, on any     *)
(* message, with any latency.                                              *)
(*                                                                         *)
(* Message ids are the positions of the order list.  Endpoints and         *)
(* payloads are left out: the code only copies them.  happens_before is    *)
(* kept as what each edge came from: the dependencies of a send, the       *)
(* message a retry stands for, and the edges a caller declared.            *)
(* The state IN_FLIGHT is declared by the code and never entered.          *)
(***************************************************************************)
EXTENDS Integers, FiniteSets

CONSTANTS Timeout,      \* the fabric's timeout
          MaxRetries,   \* the fabric's max_retries
          Latencies,    \* the latencies a caller passes
          MaxMessages,  \* bound: how many messages are ever created
          MaxSendTime,  \* bound: the latest time a send may name
          MaxDeclared   \* bound: how many edges a caller declares

ASSUME FeedbackAssumption ==
    /\ Timeout \in Nat \ {0}
    /\ MaxRetries \in Nat
    /\ Latencies \subseteq Int
    /\ MaxMessages \in Nat /\ MaxSendTime \in Nat /\ MaxDeclared \in Nat

VARIABLES clock,     \* ClassicalFeedbackFabric.clock
          sent,      \* how many messages exist: _counter
          message,   \* ClassicalFeedbackFabric.messages
          declared,  \* the edges add_happens_before appended
          gate       \* the clock at which assert_ready first let a correction run

feedbackVars == <<clock, sent, message, declared, gate>>

MessageIds == 1..MaxMessages
Never == -1     \* deliver_time None, and the gate of a bit nobody has used
NoMessage == 0  \* a message that is nobody's retry

MessageStates == {"SENT", "DELIVERED", "TIMED_OUT", "DROPPED"}

\* ids above sent are not in the messages dictionary
Unsent == [state |-> "ABSENT", sendTime |-> 0, latency |-> 0, attempts |-> 0,
           dependsOn |-> {}, retryOf |-> NoMessage, deliverTime |-> Never]

MessageRecord ==
    [state : MessageStates \cup {"ABSENT"}, sendTime : Nat, latency : Int,
     attempts : 0..(MaxRetries + 1), dependsOn : SUBSET MessageIds,
     retryOf : MessageIds \cup {NoMessage}, deliverTime : Nat \cup {Never}]

FeedbackInit ==
    /\ clock = 0
    /\ sent = 0
    /\ message = [i \in MessageIds |-> Unsent]
    /\ declared = {}
    /\ gate = [i \in MessageIds |-> Never]
-----------------------------------------------------------------------------
IsSent(i) == i <= sent
Later(s, t) == IF s > t THEN s ELSE t
ArrivalTime(m) == m.sendTime + m.latency
Delivered(i) == IsSent(i) /\ message[i].state = "DELIVERED"

Fresh(sendTime, latency, attempts, deps, origin) ==
    [state |-> "SENT", sendTime |-> sendTime, latency |-> latency,
     attempts |-> attempts, dependsOn |-> deps, retryOf |-> origin,
     deliverTime |-> Never]

Add(m) ==
    /\ sent < MaxMessages
    /\ sent' = sent + 1
    /\ message' = [message EXCEPT ![sent + 1] = m]

FaultSend(deps, latency, time) ==  \* slip: "known" taken for "delivered"
    /\ \A d \in deps : IsSent(d)
    /\ latency >= 0
    /\ time >= clock
    /\ Add(Fresh(time, latency, 1, deps, NoMessage))
    /\ UNCHANGED <<clock, declared, gate>>

Send(deps, latency, time) ==
    /\ \A d \in deps : Delivered(d)
    /\ latency >= 0
    /\ time >= clock
    /\ Add(Fresh(time, latency, 1, deps, NoMessage))
    /\ UNCHANGED <<clock, declared, gate>>

\* receive: delivery; asking again for a delivered message changes nothing
Deliver(i) ==
    /\ IsSent(i) /\ message[i].state = "SENT"
    /\ message[i].latency <= Timeout
    /\ clock' = Later(clock, ArrivalTime(message[i]))
    /\ message' = [message EXCEPT ![i].state = "DELIVERED",
                                  ![i].deliverTime = clock']
    /\ UNCHANGED <<sent, declared, gate>>

\* receive: the message took too long; the call raises
TimeOut(i) ==
    /\ IsSent(i) /\ message[i].state = "SENT"
    /\ message[i].latency > Timeout
    /\ message' = [message EXCEPT ![i].state = "TIMED_OUT"]
    /\ clock' = Later(clock, message[i].sendTime + Timeout)
    /\ UNCHANGED <<sent, declared, gate>>

\* retry: a new message, sent now; its latency and dependencies are not checked
Retry(i, latency) ==
    /\ IsSent(i) /\ message[i].state = "TIMED_OUT"
    /\ message[i].attempts <= MaxRetries
    /\ Add(Fresh(clock, latency, message[i].attempts + 1,
                 message[i].dependsOn, i))
    /\ UNCHANGED <<clock, declared, gate>>

\* retry: the attempts are spent; the message is dropped and the call raises
Exhaust(i) ==
    /\ IsSent(i) /\ message[i].state = "TIMED_OUT"
    /\ message[i].attempts > MaxRetries
    /\ message' = [message EXCEPT ![i].state = "DROPPED"]
    /\ UNCHANGED <<clock, sent, declared, gate>>

\* drop: from any state, a delivered message included
Drop(i) ==
    /\ IsSent(i)
    /\ message[i].state # "DROPPED"
    /\ message' = [message EXCEPT ![i].state = "DROPPED"]
    /\ UNCHANGED <<clock, sent, declared, gate>>

\* assert_ready returns and the caller applies the correction the bit selects;
\* the gate changes no state of the fabric, so its first passage is the one kept
AssertReady(i) ==
    /\ Delivered(i)
    /\ gate[i] = Never
    /\ gate' = [gate EXCEPT ![i] = clock]
    /\ UNCHANGED <<clock, sent, message, declared>>

AddHappensBefore(i, j) ==
    /\ IsSent(i) /\ IsSent(j) /\ i # j
    /\ Cardinality(declared) < MaxDeclared
    /\ declared' = declared \cup {<<i, j>>}
    /\ UNCHANGED <<clock, sent, message, gate>>

FeedbackNext ==
    \/ \E deps \in SUBSET MessageIds, latency \in Latencies, time \in 0..MaxSendTime :
           Send(deps, latency, time)
    \/ \E i \in MessageIds, latency \in Latencies : Retry(i, latency)
    \/ \E i \in MessageIds :
          \/ Deliver(i)
          \/ TimeOut(i)
          \/ Exhaust(i)
          \/ Drop(i)
          \/ AssertReady(i)
    \/ \E i, j \in MessageIds : AddHappensBefore(i, j)

FeedbackSpec == FeedbackInit /\ [][FeedbackNext]_feedbackVars
-----------------------------------------------------------------------------
FeedbackTypeOK ==
    /\ clock \in Nat
    /\ sent \in 0..MaxMessages
    /\ message \in [MessageIds -> MessageRecord]
    /\ declared \subseteq MessageIds \X MessageIds
    /\ gate \in [MessageIds -> Nat \cup {Never}]

Messages == 1..sent

(* A dependent message is sent only after each bit it depends on was        *)
(* delivered, and never at an earlier time.  retry copies the dependencies  *)
(* without looking at them again, and a send may name a future time, so     *)
(* this rests on every message's history and not on the guard of send.      *)
CausalTimes ==
    \A i \in Messages : \A d \in message[i].dependsOn :
        /\ d < i
        /\ message[d].deliverTime # Never
        /\ message[d].deliverTime <= message[i].sendTime

(* A retry is sent only when the message it stands for has been given up:   *)
(* its timeout has passed on the fabric's clock, it has not been delivered  *)
(* and never will be, and the attempts of a chain of retries are counted    *)
(* and stay within max_retries.                                             *)
RetriesFollowTimeouts ==
    \A i \in Messages :
        LET o == message[i].retryOf
        IN  IF o = NoMessage
            THEN message[i].attempts = 1
            ELSE /\ o < i
                 /\ message[o].state \in {"TIMED_OUT", "DROPPED"}
                 /\ message[o].deliverTime = Never
                 /\ message[o].sendTime + Timeout <= message[i].sendTime
                 /\ message[i].attempts = message[o].attempts + 1
                 /\ message[i].attempts <= MaxRetries + 1

(* A correction never runs ahead of the classical bit that selects it: by   *)
(* the time assert_ready let it through, the bit had arrived, and so had    *)
(* every bit that one depends on.                                           *)
CorrectionsFollowBits ==
    \A i \in Messages : gate[i] # Never =>
        /\ gate[i] >= ArrivalTime(message[i])
        /\ message[i].latency <= Timeout
        /\ \A d \in message[i].dependsOn : gate[i] >= ArrivalTime(message[d])

(* Classical dependencies hold in time, for messages and for corrections.   *)
FeedbackIsCausal == CausalTimes /\ CorrectionsFollowBits

(* What happened is never rewritten: the clock does not go back, a delivery *)
(* time once recorded stays, and a message that was given up or dropped is  *)
(* never in flight or delivered again.                                      *)
HistoryIsKept ==
    [][/\ clock' >= clock
       /\ \A i \in Messages :
            /\ message[i].deliverTime # Never =>
                   message'[i].deliverTime = message[i].deliverTime
            /\ message[i].state \in {"TIMED_OUT", "DROPPED"} =>
                   message'[i].state \in {message[i].state, "DROPPED"}]_feedbackVars
=============================================================================
