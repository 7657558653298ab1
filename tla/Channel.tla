------------------------------ MODULE Channel ------------------------------
(***************************************************************************)
(* Channel and select of core/reference/pacore/fabric.py: bounded channels *)
(* between threads, built on one condition variable each.  A thread inside *)
(* send or receive may wait on the condition, be notified, run into its    *)
(* timeout, and must look again each time it gets the lock back; try_send, *)
(* try_receive and select look first under one acquisition of the lock and *)
(* act under a later one.                                                  *)
(*                                                                         *)
(* Every critical section is one step.  A call that raises leaves the      *)
(* thread idle.  Metrics and log records are left out.                     *)
(***************************************************************************)
EXTENDS Naturals, Sequences, FiniteSets

CONSTANTS Threads,      \* the threads that share the channels
          NumChannels,  \* channels are named 1..NumChannels, in select's order
          Capacity,     \* capacity of each channel
          MaxItems      \* bound: how many items are ever offered

ASSUME ChannelAssumption ==
    /\ NumChannels \in Nat /\ MaxItems \in Nat
    /\ Capacity \in Nat \ {0}

VARIABLES queue,      \* Channel._q
          closed,     \* Channel._closed
          cancelled,  \* Channel._cancelled
          waiting,    \* the threads in the wait set of Channel._cv
          call,       \* what each thread is doing
          offered,    \* how many items were handed to send so far
          concluded   \* whether a select found every channel closed and empty

channelVars == <<queue, closed, cancelled, waiting, call, offered, concluded>>

Channels == 1..NumChannels
Items == 1..MaxItems

Idle == [op |-> "none"]

\* timed: the call has a timeout; expired: it has passed
Transfers ==
    [op : {"send"}, on : Channels, item : Items, timed : BOOLEAN,
     at : {"enter", "wait", "expired"}]
    \cup
    [op : {"receive"}, on : Channels, timed : BOOLEAN,
     at : {"enter", "wait", "expired"}]

\* next is the channel a select peeks at next
Selects == [op : {"select"}, next : 1..(NumChannels + 1)]

ChannelInit ==
    /\ queue = [c \in Channels |-> <<>>]
    /\ closed = [c \in Channels |-> FALSE]
    /\ cancelled = [c \in Channels |-> FALSE]
    /\ waiting = [c \in Channels |-> {}]
    /\ call = [t \in Threads |-> Idle]
    /\ offered = 0
    /\ concluded = FALSE
-----------------------------------------------------------------------------
Full(c) == Len(queue[c]) >= Capacity
Empty(c) == queue[c] = <<>>

NotifyAll(c) == waiting' = [waiting EXCEPT ![c] = {}]

Return(t) == call' = [call EXCEPT ![t] = Idle]

(* Calls: what a thread decides before it takes the lock of send or receive. *)

Enter(t, transfer) ==
    /\ call[t] = Idle
    /\ call' = [call EXCEPT ![t] = transfer]
    /\ UNCHANGED <<queue, closed, cancelled, waiting, concluded>>

Offer(t, c, timed) ==
    /\ offered < MaxItems
    /\ offered' = offered + 1
    /\ Enter(t, [op |-> "send", on |-> c, item |-> offered + 1,
                 timed |-> timed, at |-> "enter"])

CallSend(t, c) == \E timed \in BOOLEAN : Offer(t, c, timed)

\* the probe of try_send; the send that follows has timeout 0
CallTrySend(t, c) ==
    /\ ~ closed[c] /\ ~ Full(c)
    /\ Offer(t, c, TRUE)

Request(t, c, timed) ==
    /\ Enter(t, [op |-> "receive", on |-> c, timed |-> timed, at |-> "enter"])
    /\ UNCHANGED offered

CallReceive(t, c) == \E timed \in BOOLEAN : Request(t, c, timed)

\* the probe of try_receive; the receive that follows has timeout 0
CallTryReceive(t, c) ==
    /\ ~ Empty(c)
    /\ Request(t, c, TRUE)

CallSelect(t) ==
    /\ Enter(t, [op |-> "select", next |-> 1])
    /\ UNCHANGED offered

(* Critical sections of send and receive.                                  *)

Sending(t) == call[t].op = "send"
Receiving(t) == call[t].op = "receive"
Transferring(t) == Sending(t) \/ Receiving(t)

\* the predicate of wait_for, and the condition under which send need not wait
MayGoOn(t) ==
    LET c == call[t].on
    IN  closed[c] \/ IF Sending(t) THEN ~ Full(c) ELSE ~ Empty(c)

HasLock(t) == Transferring(t) /\ t \notin waiting[call[t].on]

\* nothing to do yet: the thread joins the wait set of the condition
Wait(t) ==
    /\ HasLock(t)
    /\ ~ MayGoOn(t)
    /\ call[t].at # "expired"
    /\ call' = [call EXCEPT ![t].at = "wait"]
    /\ waiting' = [waiting EXCEPT ![call[t].on] = @ \cup {t}]
    /\ UNCHANGED <<queue, closed, cancelled, offered, concluded>>

\* the timeout passes; the thread leaves the wait set and asks for the lock
Expire(t) ==
    /\ Transferring(t)
    /\ call[t].timed
    /\ t \in waiting[call[t].on]
    /\ call' = [call EXCEPT ![t].at = "expired"]
    /\ waiting' = [waiting EXCEPT ![call[t].on] = @ \ {t}]
    /\ UNCHANGED <<queue, closed, cancelled, offered, concluded>>

\* wait_for returned false: ChannelTimeoutError
TimeOut(t) ==
    /\ HasLock(t)
    /\ ~ MayGoOn(t)
    /\ call[t].at = "expired"
    /\ Return(t)
    /\ UNCHANGED <<queue, closed, cancelled, waiting, offered, concluded>>

FaultPut(t) ==  \* slip: what woke the thread is not asked
    /\ HasLock(t) /\ Sending(t)
    /\ MayGoOn(t)
    /\ call[t].at = "enter" => ~ closed[call[t].on]
    /\ queue' = [queue EXCEPT ![call[t].on] = Append(@, call[t].item)]
    /\ NotifyAll(call[t].on)
    /\ Return(t)
    /\ UNCHANGED <<closed, cancelled, offered, concluded>>

Put(t) ==
    /\ HasLock(t) /\ Sending(t)
    /\ MayGoOn(t)
    /\ ~ closed[call[t].on]
    /\ queue' = [queue EXCEPT ![call[t].on] = Append(@, call[t].item)]
    /\ NotifyAll(call[t].on)
    /\ Return(t)
    /\ UNCHANGED <<closed, cancelled, offered, concluded>>

FaultTake(t) ==  \* slip: taking an item wakes nobody
    /\ HasLock(t) /\ Receiving(t)
    /\ ~ Empty(call[t].on)
    /\ ~ cancelled[call[t].on]
    /\ queue' = [queue EXCEPT ![call[t].on] = Tail(@)]
    /\ Return(t)
    /\ UNCHANGED <<closed, cancelled, waiting, offered, concluded>>

\* a closed channel is drained, a cancelled one is not
Take(t) ==
    /\ HasLock(t) /\ Receiving(t)
    /\ ~ Empty(call[t].on)
    /\ ~ cancelled[call[t].on]
    /\ queue' = [queue EXCEPT ![call[t].on] = Tail(@)]
    /\ NotifyAll(call[t].on)
    /\ Return(t)
    /\ UNCHANGED <<closed, cancelled, offered, concluded>>

\* ChannelClosedError
FailClosed(t) ==
    /\ HasLock(t)
    /\ \/ cancelled[call[t].on]
       \/ closed[call[t].on] /\ (Sending(t) \/ Empty(call[t].on))
    /\ Return(t)
    /\ UNCHANGED <<queue, closed, cancelled, waiting, offered, concluded>>

(* The scan of select.                                                     *)

Selecting(t) == call[t].op = "select"

\* a channel that is ready wins; what follows is a receive with timeout 0
Peek(t) ==
    /\ Selecting(t)
    /\ LET c == call[t].next
       IN  /\ c <= NumChannels
           /\ call' = [call EXCEPT ![t] =
                IF Empty(c) THEN [op |-> "select", next |-> c + 1]
                ELSE [op |-> "receive", on |-> c, timed |-> TRUE, at |-> "enter"]]
    /\ UNCHANGED <<queue, closed, cancelled, waiting, offered, concluded>>

\* "every channel is closed and empty", after a scan that found nothing
Conclude(t) ==
    /\ Selecting(t) /\ call[t].next > NumChannels
    /\ \A c \in Channels : closed[c]
    /\ concluded' = TRUE
    /\ Return(t)
    /\ UNCHANGED <<queue, closed, cancelled, waiting, offered>>

\* ChannelTimeoutError, at once when select was given no timeout
GiveUp(t) ==
    /\ Selecting(t) /\ call[t].next > NumChannels
    /\ \E c \in Channels : ~ closed[c]
    /\ Return(t)
    /\ UNCHANGED <<queue, closed, cancelled, waiting, offered, concluded>>

FaultRescan(t) ==  \* slip: the scan starts over without asking what is still open
    /\ Selecting(t) /\ call[t].next > NumChannels
    /\ call' = [call EXCEPT ![t].next = 1]
    /\ UNCHANGED <<queue, closed, cancelled, waiting, offered, concluded>>

Rescan(t) ==
    /\ Selecting(t) /\ call[t].next > NumChannels
    /\ \E c \in Channels : ~ closed[c]
    /\ call' = [call EXCEPT ![t].next = 1]
    /\ UNCHANGED <<queue, closed, cancelled, waiting, offered, concluded>>

(* Closing, by any thread that is not in a call.                           *)

Close(c) ==
    /\ ~ closed[c]
    /\ closed' = [closed EXCEPT ![c] = TRUE]
    /\ NotifyAll(c)
    /\ UNCHANGED <<queue, cancelled, call, offered, concluded>>

CancelChannel(c) ==
    /\ ~ cancelled[c]
    /\ closed' = [closed EXCEPT ![c] = TRUE]
    /\ cancelled' = [cancelled EXCEPT ![c] = TRUE]
    /\ NotifyAll(c)
    /\ UNCHANGED <<queue, call, offered, concluded>>

ChannelCall(t) ==
    \/ \E c \in Channels : \/ CallSend(t, c)
                           \/ CallTrySend(t, c)
                           \/ CallReceive(t, c)
                           \/ CallTryReceive(t, c)
    \/ CallSelect(t)

\* what a thread does inside a call, without waiting for anybody
ChannelAdvance(t) ==
    \/ Wait(t)
    \/ TimeOut(t)
    \/ Put(t)
    \/ Take(t)
    \/ FailClosed(t)
    \/ Peek(t)
    \/ Conclude(t)
    \/ GiveUp(t)
    \/ Rescan(t)

ChannelNext ==
    \/ \E t \in Threads : ChannelCall(t) \/ ChannelAdvance(t) \/ Expire(t)
    \/ \E c \in Channels : Close(c) \/ CancelChannel(c)

ChannelSpec == ChannelInit /\ [][ChannelNext]_channelVars

\* a thread that can run is scheduled
ChannelFairness == \A t \in Threads : WF_channelVars(ChannelAdvance(t))
FairChannelSpec == ChannelSpec /\ ChannelFairness
-----------------------------------------------------------------------------
ChannelTypeOK ==
    /\ queue \in [Channels -> Seq(Items)]
    /\ closed \in [Channels -> BOOLEAN]
    /\ cancelled \in [Channels -> BOOLEAN]
    /\ waiting \in [Channels -> SUBSET Threads]
    /\ call \in [Threads -> {Idle} \cup Transfers \cup Selects]
    /\ offered \in 0..MaxItems
    /\ concluded \in BOOLEAN

Fifo ==
    INSTANCE BoundedFifo
    WITH queue <- queue, closed <- closed, cancelled <- cancelled

(* Whatever the interleaving of waits, timeouts, probes and closes, the     *)
(* channels behave as bounded queues: nothing enters a closed or a full     *)
(* one, nothing leaves a cancelled one, and the order is kept.              *)
ImplementsFifo == Fifo!Spec

(* No wakeup is lost: a thread is in the wait set of a condition only while *)
(* it really has nothing to do.                                             *)
NoLostWakeup ==
    \A c \in Channels : \A t \in waiting[c] :
        /\ Transferring(t) /\ call[t].on = c /\ call[t].at = "wait"
        /\ ~ MayGoOn(t)

(* Closing a channel is enough to get every thread out of it, whether it    *)
(* was waiting, about to wait, or between the probe of try_send and the     *)
(* send, and closing all of them ends every select.                         *)
CloseReleases ==
    \A t \in Threads :
        ((\A c \in Channels : closed[c]) /\ call[t] # Idle) ~> (call[t] = Idle)

(* PA_LCTL_FABRIC_SPEC.md says of select that it "raises                    *)
(* `ChannelClosedError` when every channel is closed and empty".  A         *)
(* cancelled channel is meant to keep what it holds.                        *)
SelectEndsEmpty ==
    concluded => \A c \in Channels : cancelled[c] \/ Empty(c)
=============================================================================
