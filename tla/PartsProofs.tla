---------------------------- MODULE PartsProofs -----------------------------
(***************************************************************************)
(* Proofs about the parts of pacore that MCParts runs side by side.  The   *)
(* engines of fabric.py: supersteps, dataflow rounds, work stealing, the   *)
(* deadlock detector and the timer wheel, for any workers, graphs, names,  *)
(* capacities and bounds, and the collectives for any number of workers.   *)
(* What becomes of state when something fails, the three parts of          *)
(* resilience.py: for any budgets, any contexts, any keys and values, and  *)
(* checkpoints of any number of blocks.                                    *)
(***************************************************************************)
EXTENDS BSPEngine, Dataflow, WorkStealing, DeadlockDetector, Supervision,
        RecoveryTransaction, CheckpointStore, TimerWheel, Collectives,
        DataFacts, SequenceTheorems, FiniteSetTheorems, TLAPS

-----------------------------------------------------------------------------
Message == [call : Nat, number : Nat]
Computation == [message : Message, at : Nat]

MessagesOf(computations) ==
    [k \in DOMAIN computations |-> computations[k].message]

(* What a worker has computed on and what waits in its inbox are what it    *)
(* was sent, and what waits was sent by calls that have ended.              *)
BSPInv ==
    /\ calls \in Nat
    /\ inboxes \in [BSPWorkers -> Seq(Message)]
    /\ sent \in [BSPWorkers -> Seq(Message)]
    /\ computed \in [BSPWorkers -> Seq(Computation)]
    /\ \A w \in BSPWorkers :
          /\ MessagesOf(computed[w]) \o inboxes[w] = sent[w]
          /\ \A k \in DOMAIN inboxes[w] : inboxes[w][k].call <= calls
          /\ \A k \in DOMAIN computed[w] :
                computed[w][k].message.call < computed[w][k].at

\* The messages of a list of computations are a list of messages.
LEMMA MessagesOfType ==
    ASSUME NEW c \in Seq(Computation)
    PROVE  MessagesOf(c) \in Seq(Message) /\ Len(MessagesOf(c)) = Len(c)
<1>1. ASSUME NEW k \in 1..Len(c) PROVE c[k].message \in Message
  <2>1. c[k] \in Computation
    BY ElementOfSeq
  <2> QED BY <2>1 DEF Computation
<1>2. DOMAIN c = 1..Len(c) /\ Len(c) \in Nat
  BY LenProperties
<1>3. MessagesOf(c) \in [1..Len(c) -> Message]
  BY <1>1, <1>2 DEF MessagesOf
<1> QED BY <1>2, <1>3

\* The messages of two lists together are those of the one, then of the
\* other.
LEMMA MessagesOfConcat ==
    ASSUME NEW c \in Seq(Computation), NEW d \in Seq(Computation)
    PROVE  MessagesOf(c \o d) = MessagesOf(c) \o MessagesOf(d)
<1> DEFINE e == c \o d
           mc == MessagesOf(c)
           md == MessagesOf(d)
           me == MessagesOf(e)
<1>1. /\ e \in Seq(Computation) /\ Len(e) = Len(c) + Len(d)
      /\ \A k \in 1..Len(c) : e[k] = c[k]
      /\ \A k \in (Len(c) + 1)..Len(e) : e[k] = d[k - Len(c)]
  OBVIOUS
<1>2. Len(c) \in Nat /\ Len(d) \in Nat
  OBVIOUS
<1> HIDE DEF e
<1>3. /\ \A k \in 1..Len(c) : mc[k] = c[k].message
      /\ \A k \in 1..Len(d) : md[k] = d[k].message
      /\ \A k \in 1..Len(e) : me[k] = e[k].message
  BY <1>1, LenProperties DEF MessagesOf
<1>4. /\ mc \in Seq(Message) /\ Len(mc) = Len(c)
      /\ md \in Seq(Message) /\ Len(md) = Len(d)
      /\ me \in Seq(Message) /\ Len(me) = Len(e)
  BY <1>1, MessagesOfType
<1> HIDE DEF mc, md, me
<1>5. /\ mc \o md \in Seq(Message) /\ Len(mc \o md) = Len(c) + Len(d)
      /\ \A k \in 1..Len(c) : (mc \o md)[k] = mc[k]
      /\ \A k \in (Len(c) + 1)..(Len(c) + Len(d)) : (mc \o md)[k] = md[k - Len(c)]
  BY <1>2, <1>4
<1>6. \A k \in 1..Len(me) : me[k] = (mc \o md)[k]
  <2> SUFFICES ASSUME NEW k \in 1..Len(me) PROVE me[k] = (mc \o md)[k]
    OBVIOUS
  <2>1. CASE k <= Len(c)
    <3>1. k \in 1..Len(c) /\ k \in 1..Len(e)
      BY <2>1, <1>1, <1>2, <1>4
    <3> QED BY <3>1, <1>1, <1>3, <1>5
  <2>2. CASE ~ k <= Len(c)
    <3>1. /\ k \in (Len(c) + 1)..Len(e) /\ k \in 1..Len(e)
          /\ k - Len(c) \in 1..Len(d) /\ k \in (Len(c) + 1)..(Len(c) + Len(d))
      BY <2>2, <1>1, <1>2, <1>4
    <3> QED BY <3>1, <1>1, <1>3, <1>5
  <2> QED BY <2>1, <2>2
<1>7. me = mc \o md
  BY <1>1, <1>4, <1>5, <1>6, SeqEqual
<1> QED BY <1>7 DEF me, mc, md, e

\* Finitely many messages are delivered.
LEMMA DeliveredType ==
    ASSUME NEW participants \in SUBSET BSPWorkers,
           NEW plan \in BoundedSeq(BSPWorkers, MaxPlan), BSPAssumption,
           NEW end \in Ends(participants, plan)
    PROVE  IsFiniteSet(DOMAIN Delivered(plan, end))
<1>1. PICK m \in 0..MaxPlan : plan \in [1..m -> BSPWorkers]
  BY DEF BoundedSeq, SeqOf
<1>2. plan \in Seq(BSPWorkers) /\ m \in Nat
  BY <1>1 DEF BSPAssumption
<1>3. PICK m1 \in Nat : DOMAIN Delivered(plan, end) = 1..m1
  <2>1. CASE end.at = "compute"
    BY <2>1 DEF Delivered
  <2>2. CASE end.at = "plan"
    <3>1. end.i \in 1..m
      BY <2>2, <1>1 DEF Ends
    <3>2. SubSeq(plan, 1, end.i - 1) \in Seq(BSPWorkers)
      BY <3>1, <1>1, <1>2
    <3> QED BY <3>2, <2>2 DEF Delivered
  <2>3. CASE end.at \notin {"compute", "plan"}
    BY <2>3, <1>1, <1>2 DEF Delivered
  <2> QED BY <2>1, <2>2, <2>3
<1> QED BY <1>3, FS_Interval

\* A superstep keeps the invariant.
LEMMA SuperstepStep ==
    ASSUME BSPInv, BSPAssumption, NEW participants \in SUBSET BSPWorkers,
           NEW plan \in BoundedSeq(BSPWorkers, MaxPlan),
           NEW end \in Ends(participants, plan), Superstep(participants, plan, end)
    PROVE  BSPInv'
<1> DEFINE returned == Returned(participants, end)
           new(w) == MessagesTo(w, Delivered(plan, end))
           done(w) == [k \in DOMAIN inboxes[w] |->
                         [message |-> inboxes[w][k], at |-> calls + 1]]
<1>1. /\ calls' = calls + 1
      /\ inboxes' = [w \in BSPWorkers |->
             (IF w \in returned THEN <<>> ELSE inboxes[w]) \o new(w)]
      /\ sent' = [w \in BSPWorkers |-> sent[w] \o new(w)]
      /\ computed' = [w \in BSPWorkers |->
             IF w \in returned THEN computed[w] \o done(w) ELSE computed[w]]
  BY DEF Superstep, Emptied
<1>2. ASSUME NEW w \in BSPWorkers
      PROVE  new(w) \in Seq(Message) /\ \A k \in DOMAIN new(w) : new(w)[k].call = calls + 1
  <2> DEFINE count == Cardinality({i \in DOMAIN Delivered(plan, end) :
                                       Delivered(plan, end)[i] = w})
  <2>1. count \in Nat
    BY DeliveredType, FS_Subset, FS_CardinalityType
  <2> HIDE DEF count
  <2>2. new(w) = [k \in 1..count |-> [call |-> calls + 1, number |-> k]]
    BY DEF MessagesTo, count
  <2>3. new(w) \in [1..count -> Message]
    BY <2>1, <2>2 DEF Message, BSPInv
  <2> QED BY <2>1, <2>2, <2>3
<1>3. ASSUME NEW w \in BSPWorkers
      PROVE  /\ done(w) \in Seq(Computation)
             /\ MessagesOf(done(w)) = inboxes[w]
             /\ \A k \in DOMAIN done(w) : done(w)[k].message.call < done(w)[k].at
  <2>1. inboxes[w] \in Seq(Message) /\ calls \in Nat
    BY DEF BSPInv
  <2> DEFINE d == done(w)
             n == Len(inboxes[w])
  <2>2. d \in [1..n -> Computation] /\ n \in Nat
    <3>1. DOMAIN inboxes[w] = 1..n /\ n \in Nat
      BY <2>1, LenProperties
    <3>2. \A k \in 1..n : inboxes[w][k] \in Message
      BY <2>1, ElementOfSeq
    <3> QED BY <2>1, <3>1, <3>2 DEF Computation
  <2> HIDE DEF d, n
  <2>3a. d \in Seq(Computation) /\ Len(d) = n
    BY <2>2
  <2>3. done(w) \in Seq(Computation) /\ Len(done(w)) = Len(inboxes[w])
    BY <2>3a DEF d, n
  <2>4. MessagesOf(done(w)) \in Seq(Message)
        /\ Len(MessagesOf(done(w))) = Len(inboxes[w])
    BY <2>3, MessagesOfType
  <2>5. \A k \in 1..Len(inboxes[w]) : MessagesOf(done(w))[k] = inboxes[w][k]
    BY <2>1 DEF MessagesOf
  <2>6. MessagesOf(done(w)) = inboxes[w]
    BY <2>1, <2>4, <2>5, SeqEqual
  <2>7. ASSUME NEW k \in DOMAIN inboxes[w]
        PROVE  done(w)[k].message.call < done(w)[k].at
    <3>1. inboxes[w][k] \in Message /\ inboxes[w][k].call <= calls
      BY <2>1 DEF BSPInv
    <3>2. inboxes[w][k].call \in Nat
      BY <3>1 DEF Message
    <3>3. done(w)[k] = [message |-> inboxes[w][k], at |-> calls + 1]
      OBVIOUS
    <3> QED BY <2>1, <3>1, <3>2, <3>3
  <2> QED BY <2>3, <2>6, <2>7
<1> HIDE DEF new, done, returned
<1>4. ASSUME NEW w \in BSPWorkers
      PROVE  /\ inboxes'[w] \in Seq(Message) /\ sent'[w] \in Seq(Message)
             /\ computed'[w] \in Seq(Computation)
             /\ MessagesOf(computed'[w]) \o inboxes'[w] = sent'[w]
             /\ \A k \in DOMAIN inboxes'[w] : inboxes'[w][k].call <= calls'
             /\ \A k \in DOMAIN computed'[w] :
                   computed'[w][k].message.call < computed'[w][k].at
  <2>1. /\ inboxes[w] \in Seq(Message) /\ sent[w] \in Seq(Message)
        /\ computed[w] \in Seq(Computation) /\ calls \in Nat
        /\ MessagesOf(computed[w]) \o inboxes[w] = sent[w]
        /\ \A k \in DOMAIN inboxes[w] : inboxes[w][k].call <= calls
        /\ \A k \in DOMAIN computed[w] :
              computed[w][k].message.call < computed[w][k].at
    BY DEF BSPInv
  <2>2. /\ new(w) \in Seq(Message)
        /\ \A k \in DOMAIN new(w) : new(w)[k].call = calls + 1
    BY <1>2
  <2>3. MessagesOf(computed[w]) \in Seq(Message)
    BY <2>1, MessagesOfType
  <2>4. CASE w \in returned
    <3>1. /\ inboxes'[w] = new(w) /\ sent'[w] = sent[w] \o new(w)
          /\ computed'[w] = computed[w] \o done(w)
      BY <1>1, <2>2, <2>4
    <3>2. computed'[w] \in Seq(Computation) /\ sent'[w] \in Seq(Message)
      BY <3>1, <2>1, <2>2, <1>3
    <3>3. MessagesOf(computed'[w]) = MessagesOf(computed[w]) \o inboxes[w]
      BY <3>1, <2>1, <1>3, MessagesOfConcat
    <3>4. \A k \in DOMAIN computed'[w] :
              computed'[w][k].message.call < computed'[w][k].at
      <4> DEFINE d == done(w)
      <4>1. /\ d \in Seq(Computation)
            /\ \A k \in DOMAIN d : d[k].message.call < d[k].at
        BY <1>3
      <4> HIDE DEF d
      <4>2. computed'[w] = computed[w] \o d
        BY <3>1 DEF d
      <4>3. ASSUME NEW k \in DOMAIN (computed[w] \o d)
            PROVE  (computed[w] \o d)[k].message.call < (computed[w] \o d)[k].at
        <5>1. CASE k <= Len(computed[w])
          <6>1. k \in DOMAIN computed[w] /\ (computed[w] \o d)[k] = computed[w][k]
            BY <5>1, <2>1, <4>1
          <6> QED BY <6>1, <2>1
        <5>2. CASE ~ k <= Len(computed[w])
          <6>1. /\ k - Len(computed[w]) \in DOMAIN d
                /\ (computed[w] \o d)[k] = d[k - Len(computed[w])]
            BY <5>2, <2>1, <4>1
          <6> QED BY <6>1, <4>1
        <5> QED BY <5>1, <5>2
      <4> QED BY <4>2, <4>3
    <3>5. \A k \in DOMAIN inboxes'[w] : inboxes'[w][k].call <= calls'
      BY <3>1, <2>1, <2>2, <1>1
    <3> QED BY <3>1, <3>2, <3>3, <3>4, <3>5, <2>1, <2>2
  <2>5. CASE w \notin returned
    <3>1. /\ inboxes'[w] = inboxes[w] \o new(w) /\ sent'[w] = sent[w] \o new(w)
          /\ computed'[w] = computed[w]
      BY <1>1, <2>5
    <3>2. inboxes'[w] \in Seq(Message) /\ sent'[w] \in Seq(Message)
      BY <3>1, <2>1, <2>2
    <3>3. MessagesOf(computed[w]) \o (inboxes[w] \o new(w))
              = (MessagesOf(computed[w]) \o inboxes[w]) \o new(w)
      <4> DEFINE m == MessagesOf(computed[w])
                 i == inboxes[w]
                 n == new(w)
      <4>1. m \in Seq(Message) /\ i \in Seq(Message) /\ n \in Seq(Message)
        BY <2>1, <2>2, <2>3
      <4> HIDE DEF m, i, n
      <4>2. m \o (i \o n) = (m \o i) \o n
        BY <4>1, ConcatAssociative
      <4> QED BY <4>2 DEF m, i, n
    <3>4. ASSUME NEW k \in DOMAIN (inboxes[w] \o new(w))
          PROVE  (inboxes[w] \o new(w))[k].call <= calls + 1
      <4>1. CASE k <= Len(inboxes[w])
        <5>1. k \in DOMAIN inboxes[w] /\ (inboxes[w] \o new(w))[k] = inboxes[w][k]
          BY <4>1, <2>1, <2>2
        <5>2. inboxes[w][k].call \in Nat
          <6>1. inboxes[w][k] \in Message
            BY <5>1, <2>1
          <6> QED BY <6>1 DEF Message
        <5> QED BY <5>1, <5>2, <2>1
      <4>2. CASE ~ k <= Len(inboxes[w])
        <5>1. /\ k - Len(inboxes[w]) \in DOMAIN new(w)
              /\ (inboxes[w] \o new(w))[k] = new(w)[k - Len(inboxes[w])]
          BY <4>2, <2>1, <2>2
        <5> QED BY <5>1, <2>1, <2>2
      <4> QED BY <4>1, <4>2
    <3> QED BY <3>1, <3>2, <3>3, <3>4, <2>1, <1>1
  <2> QED BY <2>4, <2>5
<1>5. /\ inboxes' \in [BSPWorkers -> Seq(Message)]
      /\ sent' \in [BSPWorkers -> Seq(Message)]
      /\ computed' \in [BSPWorkers -> Seq(Computation)]
  BY <1>1, <1>4
<1>6. calls' \in Nat
  BY <1>1 DEF BSPInv
<1> QED BY <1>4, <1>5, <1>6 DEF BSPInv

\* The invariant of the engine holds always.
LEMMA BSPInvariant == BSPSpec => []BSPInv
<1>1. BSPInit => BSPInv
  BY DEF BSPInit, BSPInv, MessagesOf
<1>2. BSPInv /\ [BSPNext]_bspVars => BSPInv'
  <2>1. BSPInv /\ BSPNext => BSPInv'
    BY SuperstepStep, BSPAssumption DEF BSPNext
  <2>2. BSPInv /\ UNCHANGED bspVars => BSPInv'
    BY DEF BSPInv, bspVars
  <2> QED BY <2>1, <2>2
<1> QED BY <1>1, <1>2, PTL DEF BSPSpec

(* Every message is handed over once, in order, in a later superstep.       *)
THEOREM MessagesArriveOnce == BSPSpec => []MessagesOnce
<1>1. BSPInv => MessagesOnce
  BY DEF BSPInv, MessagesOnce, MessagesOf
<1> QED BY <1>1, BSPInvariant, PTL
-----------------------------------------------------------------------------
Token == [number : Nat, quantum : BOOLEAN]

DataflowTypeOK ==
    /\ queue \in [Channels -> Seq(Token)]
    /\ fed \in [Sources -> Nat]
    /\ turn \in 0..(Len(Order) + 1)
    /\ admitted \in BOOLEAN
    /\ raises \in Nat
    /\ halved \in BOOLEAN /\ mixed \in BOOLEAN

(* A node that was admitted can still take its inputs and send its results. *)
AdmittedInv ==
    admitted =>
        /\ turn \in DOMAIN Order
        /\ Available(Order[turn]) /\ Accepted(Order[turn])

(* Until something fires or happens outside, the nodes a round has passed   *)
(* cannot fire.                                                             *)
RoundInv ==
    ~ touched /\ ~ fires =>
        \A i \in DOMAIN Order : i < turn => ~ MayFire(Order[i])

DataflowInv == DataflowTypeOK /\ AdmittedInv /\ RoundInv /\ ~ halved

\* The order of evaluation is a list of nodes.
LEMMA OrderFacts ==
    /\ Len(Order) \in Nat /\ DOMAIN Order = 1..Len(Order)
    /\ \A i \in DOMAIN Order : Order[i] \in Nodes
<1>1. Order \in Seq(Nodes)
  BY DataflowAssumption DEF DataflowAssumption
<1> QED BY <1>1, LenProperties, ElementOfSeq

\* Nodes read and write channels, and no node writes a source.
LEMMA PortFacts ==
    ASSUME NEW n \in Nodes
    PROVE  /\ Range(Inputs[n]) \subseteq Channels /\ Range(Inputs[n]) # {}
           /\ Range(Outputs[n]) \subseteq Channels
           /\ Range(Outputs[n]) \cap Sources = {}
           /\ Range(Inputs[n]) \cap Sinks = {}
<1>1. /\ Inputs[n] \in Seq(Channels) /\ Outputs[n] \in Seq(Channels)
      /\ Inputs[n] # <<>>
  BY DataflowAssumption DEF DataflowAssumption
<1>2. /\ Range(Inputs[n]) \subseteq Channels
      /\ Range(Outputs[n]) \subseteq Channels
  BY <1>1, RangeOfSeq
<1>3. Range(Inputs[n]) # {}
  <2>1. 1 \in DOMAIN Inputs[n]
    BY <1>1, EmptySeq, LenProperties
  <2> QED BY <2>1 DEF Range
<1> QED BY <1>2, <1>3 DEF Sources, Sinks

\* What may fire depends on the flow only.
LEMMA SameFlow ==
    ASSUME UNCHANGED flow
    PROVE  /\ \A n : MayFire(n)' = MayFire(n)
           /\ \A n : Available(n)' = Available(n)
           /\ \A n : Accepted(n)' = Accepted(n)
  BY DEF flow, MayFire, Available, OwnershipHolds, Peeked, Backpressure, Accepted

(* What the threads outside do leaves every admitted node able to fire.     *)
LEMMA OutsideStep ==
    ASSUME DataflowInv, Outside, queue' \in [Channels -> Seq(Token)],
           fed' \in [Sources -> Nat],
           \A n \in Nodes : Available(n) => Available(n)',
           \A n \in Nodes : Accepted(n) => Accepted(n)'
    PROVE  DataflowInv'
  BY OrderFacts
  DEF DataflowInv, DataflowTypeOK, AdmittedInv, RoundInv, Outside, runState

\* Each action of the dataflow keeps its invariant: a feed, ...
LEMMA FeedStep ==
    ASSUME DataflowInv, NEW c \in Sources, NEW isQuantum \in BOOLEAN, Feed(c, isQuantum)
    PROVE  DataflowInv'
<1>1. c \in Channels /\ fed[c] + 1 \in Nat
  BY DEF Sources, DataflowInv, DataflowTypeOK
<1> DEFINE token == [number |-> fed[c] + 1, quantum |-> isQuantum]
<1>2. token \in Token
  BY <1>1 DEF Token
<1>3. /\ queue' = [queue EXCEPT ![c] = Append(queue[c], token)]
      /\ fed' = [fed EXCEPT ![c] = @ + 1] /\ UNCHANGED closed /\ Outside
  BY DEF Feed
<1> HIDE DEF token
<1>4. queue' \in [Channels -> Seq(Token)] /\ fed' \in [Sources -> Nat]
  BY <1>1, <1>2, <1>3 DEF DataflowInv, DataflowTypeOK
<1>5. Append(queue[c], token) # <<>>
  BY <1>1, <1>2 DEF DataflowInv, DataflowTypeOK
<1>6. ASSUME NEW n \in Nodes PROVE Available(n) => Available(n)'
  BY <1>1, <1>3, <1>5, PortFacts DEF Available, DataflowInv, DataflowTypeOK
<1>7. ASSUME NEW n \in Nodes PROVE Accepted(n) => Accepted(n)'
  BY <1>1, <1>3, PortFacts DEF Accepted, DataflowInv, DataflowTypeOK
<1> QED BY <1>3, <1>4, <1>6, <1>7, OutsideStep

\* ... a drain, ...
LEMMA DrainStep ==
    ASSUME DataflowInv, NEW c \in Sinks, Drain(c)
    PROVE  DataflowInv'
<1>1. c \in Channels /\ queue[c] \in Seq(Token) /\ queue[c] # <<>>
  BY DEF Sinks, DataflowInv, DataflowTypeOK, Drain
<1>2. /\ queue' = [queue EXCEPT ![c] = Tail(queue[c])]
      /\ UNCHANGED <<closed, fed>> /\ Outside
  BY DEF Drain
<1>3. Tail(queue[c]) \in Seq(Token) /\ Len(Tail(queue[c])) = Len(queue[c]) - 1
  BY <1>1
<1>4. queue' \in [Channels -> Seq(Token)] /\ fed' \in [Sources -> Nat]
  BY <1>1, <1>2, <1>3 DEF DataflowInv, DataflowTypeOK
<1>5. ASSUME NEW n \in Nodes PROVE Available(n) => Available(n)'
  BY <1>1, <1>2, PortFacts DEF Available, DataflowInv, DataflowTypeOK
<1>6. ASSUME NEW n \in Nodes PROVE Accepted(n) => Accepted(n)'
  <2> SUFFICES ASSUME Accepted(n), NEW d \in Range(Outputs[n])
               PROVE  Len(queue'[d]) < Capacity[d] /\ d \notin closed'
    BY <1>2 DEF Accepted
  <2>1. /\ Len(queue[d]) < Capacity[d] /\ d \notin closed /\ d \in Channels
        /\ Capacity[d] \in Nat
    BY PortFacts, DataflowAssumption DEF Accepted, DataflowAssumption
  <2>2. CASE d = c
    <3>1. Len(queue'[d]) = Len(queue[c]) - 1 /\ Len(queue[c]) \in Nat
      BY <2>2, <1>1, <1>2, <1>3 DEF DataflowInv, DataflowTypeOK
    <3> QED BY <3>1, <2>1, <2>2, <1>2
  <2>3. CASE d # c
    BY <2>1, <2>3, <1>1, <1>2 DEF DataflowInv, DataflowTypeOK
  <2> QED BY <2>2, <2>3
<1> QED BY <1>2, <1>4, <1>5, <1>6, OutsideStep

\* ... the end of a source, ...
LEMMA CloseSourceStep ==
    ASSUME DataflowInv, NEW c \in Sources, CloseSource(c)
    PROVE  DataflowInv'
<1>1. /\ UNCHANGED <<queue, fed>> /\ closed' = closed \cup {c} /\ Outside
  BY DEF CloseSource
<1>2. ASSUME NEW n \in Nodes PROVE Available(n) => Available(n)'
  BY <1>1 DEF Available
<1>3. ASSUME NEW n \in Nodes PROVE Accepted(n) => Accepted(n)'
  BY <1>1, PortFacts DEF Accepted
<1> QED BY <1>1, <1>2, <1>3, OutsideStep DEF DataflowInv, DataflowTypeOK

\* ... what else happens outside a run, ...
LEMMA OtherOutsideStep ==
    ASSUME DataflowInv, Outside, UNCHANGED <<queue, closed, fed>>
    PROVE  DataflowInv'
<1>1. ASSUME NEW n \in Nodes
      PROVE  (Available(n) => Available(n)') /\ (Accepted(n) => Accepted(n)')
  BY DEF Available, Accepted
<1> QED BY <1>1, OutsideStep DEF DataflowInv, DataflowTypeOK

\* ... the start of a run, ...
LEMMA RunStep ==
    ASSUME DataflowInv, Run
    PROVE  DataflowInv'
<1>1. /\ turn = 0 /\ turn' = 1 /\ UNCHANGED flow
      /\ UNCHANGED <<admitted, raises, halved, mixed>>
  BY DEF Run
<1>2. ~ admitted
  BY <1>1, OrderFacts DEF DataflowInv, AdmittedInv
<1>3. DataflowTypeOK'
  BY <1>1, OrderFacts DEF DataflowInv, DataflowTypeOK, flow
<1>4. RoundInv'
  BY <1>1, OrderFacts DEF RoundInv
<1> QED BY <1>1, <1>2, <1>3, <1>4 DEF DataflowInv, AdmittedInv

\* ... the evaluation of a node, ...
LEMMA EvaluateStep ==
    ASSUME DataflowInv, Evaluate
    PROVE  DataflowInv'
<1>1. /\ turn \in DOMAIN Order /\ UNCHANGED flow
      /\ UNCHANGED <<fires, touched, raises, halved, mixed>>
  BY DEF Evaluate
<1>2. CASE MayFire(Order[turn])
  <2>1. admitted' /\ admitted' = TRUE /\ turn' = turn
    BY <1>2 DEF Evaluate
  <2>2. Available(Order[turn]) /\ Accepted(Order[turn])
    BY <1>2 DEF MayFire, Backpressure, Accepted
  <2>3. Available(Order[turn])' /\ Accepted(Order[turn])'
    BY <1>1, <2>1, <2>2, SameFlow DEF Available, Accepted, flow
  <2>4. AdmittedInv'
    BY <1>1, <2>1, <2>3 DEF AdmittedInv
  <2>5. \A i \in DOMAIN Order : MayFire(Order[i])' = MayFire(Order[i])
    BY <1>1, SameFlow
  <2>6. RoundInv'
    BY <1>1, <2>1, <2>5 DEF DataflowInv, RoundInv
  <2>7. DataflowTypeOK'
    BY <1>1, <2>1 DEF DataflowInv, DataflowTypeOK, flow
  <2> QED BY <1>1, <2>4, <2>6, <2>7 DEF DataflowInv
<1>3. CASE ~ MayFire(Order[turn])
  <2>1. ~ admitted /\ UNCHANGED admitted /\ turn' = turn + 1
    BY <1>3 DEF Evaluate
  <2>2. \A i \in DOMAIN Order : MayFire(Order[i])' = MayFire(Order[i])
    BY <1>1, SameFlow
  <2>3. RoundInv'
    <3> SUFFICES ASSUME ~ touched, ~ fires, NEW i \in DOMAIN Order, i < turn'
                 PROVE  ~ MayFire(Order[i])
      BY <1>1, <2>2 DEF RoundInv
    <3>1. i < turn \/ i = turn
      BY <2>1, <1>1, OrderFacts
    <3> QED BY <3>1, <1>3 DEF DataflowInv, RoundInv
  <2>4. DataflowTypeOK'
    BY <1>1, <2>1, OrderFacts DEF DataflowInv, DataflowTypeOK, flow
  <2> QED BY <1>1, <2>1, <2>3, <2>4 DEF DataflowInv, AdmittedInv
<1> QED BY <1>2, <1>3

\* Firing leaves lists of tokens behind.
LEMMA ConsumedType ==
    ASSUME DataflowTypeOK, NEW n \in Nodes
    PROVE  Consumed(n) \in [Channels -> Seq(Token)]
  BY DEF Consumed, DataflowTypeOK

\* A node whose inputs have tokens peeks at the number of one.
LEMMA PeekedFacts ==
    ASSUME DataflowTypeOK, NEW n \in Nodes, Available(n)
    PROVE  Numbers(n) # {} /\ Numbers(n) \subseteq Nat
<1>1. ASSUME NEW c \in Range(Inputs[n]) PROVE Head(queue[c]) \in Peeked(n)
  BY DEF Peeked, Available
<1>2. Peeked(n) # {}
  BY <1>1, PortFacts
<1>3. Peeked(n) \subseteq Token
  BY PortFacts DEF Peeked, DataflowTypeOK
<1> QED BY <1>2, <1>3 DEF Numbers, Token

\* ... a firing, ...
LEMMA FireStep ==
    ASSUME DataflowInv, Fire
    PROVE  DataflowInv'
<1> DEFINE n == Order[turn]
           made == [number |-> CHOOSE k \in Numbers(n) : TRUE,
                      quantum |-> \E t \in Peeked(n) : t.quantum]
<1>1. n \in Nodes /\ turn \in DOMAIN Order /\ Available(n) /\ Accepted(n)
  BY OrderFacts DEF DataflowInv, AdmittedInv, Fire
<1>2. /\ queue' = [c \in Channels |->
             IF c \in Range(Outputs[n]) THEN Append(Consumed(n)[c], made)
             ELSE Consumed(n)[c]]
      /\ admitted' = FALSE /\ turn' = turn + 1 /\ fires' = TRUE
      /\ UNCHANGED <<halved, fed, raises>>
      /\ mixed' = (mixed \/ Cardinality(Numbers(n)) > 1)
  BY <1>1 DEF Fire
<1>3. made \in Token
  <2>1. (CHOOSE k \in Numbers(n) : TRUE) \in Nat
    BY <1>1, PeekedFacts DEF DataflowInv
  <2> QED BY <2>1 DEF Token
<1> HIDE DEF made, n
<1>4. queue' \in [Channels -> Seq(Token)]
  BY <1>1, <1>2, <1>3, ConsumedType DEF DataflowInv
<1>5. DataflowTypeOK'
  <2>1. turn' \in 0..(Len(Order) + 1)
    BY <1>1, <1>2, OrderFacts
  <2>2. mixed' \in BOOLEAN
    BY <1>2
  <2>3. admitted' \in BOOLEAN /\ UNCHANGED <<halved, fed, raises>>
    BY <1>2
  <2> QED BY <1>4, <2>1, <2>2, <2>3 DEF DataflowInv, DataflowTypeOK
<1> QED BY <1>2, <1>5 DEF DataflowInv, AdmittedInv, RoundInv

\* ... a function that raises, ...
LEMMA FunctionRaisesStep ==
    ASSUME DataflowInv, FunctionRaises
    PROVE  DataflowInv'
<1>1. Order[turn] \in Nodes
  BY OrderFacts DEF DataflowInv, AdmittedInv, FunctionRaises
<1>2. /\ queue' = Consumed(Order[turn]) /\ turn' = 0 /\ admitted' = FALSE
      /\ raises' = raises + 1 /\ UNCHANGED <<fed, halved, mixed>>
  BY DEF FunctionRaises, Leave
<1>3. queue' \in [Channels -> Seq(Token)]
  BY <1>1, <1>2, ConsumedType DEF DataflowInv
<1>4. DataflowTypeOK'
  <2>1. turn' \in 0..(Len(Order) + 1)
    BY <1>2, OrderFacts
  <2>2. raises' \in Nat
    <3>1. raises \in Nat
      BY DEF DataflowInv, DataflowTypeOK
    <3> QED BY <1>2, <3>1
  <2>3. admitted' \in BOOLEAN /\ UNCHANGED <<fed, halved, mixed>>
    BY <1>2
  <2> QED BY <1>3, <2>1, <2>2, <2>3 DEF DataflowInv, DataflowTypeOK
<1>5. RoundInv'
  BY <1>2, OrderFacts DEF RoundInv
<1> QED BY <1>2, <1>4, <1>5 DEF DataflowInv, AdmittedInv

\* ... and the end of a round.
LEMMA EndOfRoundStep ==
    ASSUME DataflowInv, EndOfRound
    PROVE  DataflowInv'
<1>1. /\ turn = Len(Order) + 1 /\ UNCHANGED <<flow, raises, halved, mixed>>
      /\ turn' \in {0, 1}
  BY DEF EndOfRound, Leave
<1>2. ~ admitted'
  BY <1>1, OrderFacts DEF EndOfRound, Leave, DataflowInv, AdmittedInv
<1>3. admitted' \in BOOLEAN
  BY DEF EndOfRound, Leave, DataflowInv, DataflowTypeOK
<1>4. DataflowTypeOK'
  <2>1. turn' \in 0..(Len(Order) + 1)
    BY <1>1, OrderFacts
  <2> QED BY <1>1, <1>3, <2>1 DEF DataflowInv, DataflowTypeOK, flow
<1>5. RoundInv'
  BY <1>1, OrderFacts DEF RoundInv
<1> QED BY <1>1, <1>2, <1>4, <1>5 DEF DataflowInv, AdmittedInv

\* The invariant of the dataflow holds always.
LEMMA DataflowInvariant == DataflowSpec => []DataflowInv
<1>1. DataflowInit => DataflowInv
  <2> SUFFICES ASSUME DataflowInit PROVE DataflowInv
    OBVIOUS
  <2>1. DataflowTypeOK
    <3>1. turn \in 0..(Len(Order) + 1)
      BY OrderFacts DEF DataflowInit
    <3>2. queue \in [Channels -> Seq(Token)]
      BY DEF DataflowInit
    <3> QED BY <3>1, <3>2 DEF DataflowInit, DataflowTypeOK
  <2>2. AdmittedInv /\ RoundInv /\ ~ halved
    BY OrderFacts DEF DataflowInit, AdmittedInv, RoundInv
  <2> QED BY <2>1, <2>2 DEF DataflowInv
<1>2. DataflowInv /\ [DataflowNext]_dataflowVars => DataflowInv'
  <2> SUFFICES ASSUME DataflowInv, [DataflowNext]_dataflowVars PROVE DataflowInv'
    OBVIOUS
  <2>1. ASSUME NEW c \in Sources, NEW isQuantum \in BOOLEAN, Feed(c, isQuantum)
        PROVE  DataflowInv'
    BY <2>1, FeedStep
  <2>2. ASSUME NEW c \in Sources, CloseSource(c) PROVE DataflowInv'
    BY <2>2, CloseSourceStep
  <2>3. ASSUME NEW c \in Sinks, Drain(c) PROVE DataflowInv'
    BY <2>3, DrainStep
  <2>4. ASSUME NEW w, FailWorker(w) PROVE DataflowInv'
    BY <2>4, OtherOutsideStep DEF FailWorker
  <2>5. ASSUME NEW n \in Timed, PassDeadline(n) PROVE DataflowInv'
    BY <2>5, OtherOutsideStep DEF PassDeadline
  <2>6. ASSUME NEW t \in 1..MaxTokens, Spend(t) PROVE DataflowInv'
    BY <2>6, OtherOutsideStep DEF Spend
  <2>7. CASE UNCHANGED dataflowVars
    <3>1. UNCHANGED <<flow, turn, admitted, fires, touched, raises, halved, mixed>>
      BY <2>7 DEF dataflowVars, runState, flow
    <3>2. /\ \A i \in DOMAIN Order : MayFire(Order[i])' = MayFire(Order[i])
          /\ Available(Order[turn])' = Available(Order[turn])
          /\ Accepted(Order[turn])' = Accepted(Order[turn])
      BY <3>1, SameFlow DEF Available, Accepted, flow
    <3>3. AdmittedInv' /\ RoundInv'
      BY <3>1, <3>2 DEF DataflowInv, AdmittedInv, RoundInv
    <3>4. DataflowTypeOK'
      BY <3>1 DEF DataflowInv, DataflowTypeOK, flow
    <3> QED BY <3>1, <3>3, <3>4 DEF DataflowInv
  <2> QED
    BY <2>1, <2>2, <2>3, <2>4, <2>5, <2>6, <2>7, RunStep, EvaluateStep, FireStep,
       FunctionRaisesStep, EndOfRoundStep
    DEF DataflowNext
<1> QED BY <1>1, <1>2, PTL DEF DataflowSpec

(* run() that stops early has looked at every node and none could fire.     *)
THEOREM RunStopsStuck == DataflowSpec => RunStopsOnlyWhenStuck
<1>1. DataflowInv /\ [DataflowNext]_dataflowVars =>
          [stopped' = "quiet" /\ stopped # "quiet" /\ ~ touched =>
              \A n \in Nodes : ~ MayFire(n)]_dataflowVars
  <2> SUFFICES ASSUME DataflowInv, DataflowNext, stopped' = "quiet",
                      stopped # "quiet", ~ touched, NEW n \in Nodes
               PROVE  ~ MayFire(n)
    OBVIOUS
  <2>1. EndOfRound
    BY DEF DataflowNext, Feed, CloseSource, Drain, FailWorker, PassDeadline, Spend,
           Outside, runState, Run, Evaluate, Fire, FunctionRaises, Leave
  <2>2. turn = Len(Order) + 1 /\ ~ fires
    BY <2>1 DEF EndOfRound, RoundIsQuiet, Leave
  <2>3. PICK i \in DOMAIN Order : n = Order[i]
    BY DEF Nodes, Range
  <2>4. i < turn
    BY <2>2, <2>3, OrderFacts
  <2> QED BY <2>2, <2>3, <2>4 DEF DataflowInv, RoundInv
<1> QED BY <1>1, DataflowInvariant, PTL DEF DataflowSpec, RunStopsOnlyWhenStuck

(* fired counts what each node has fired: the tokens that wait at an input  *)
(* of a node are the next ones it needs, and there are as many as what      *)
(* feeds the channel has made and the node has not taken.                   *)
Aligned(fired) ==
    \A n \in Nodes : \A c \in Range(Inputs[n]) :
        /\ \A i \in 1..Len(queue[c]) : queue[c][i].number = fired[n] + i
        /\ c \in Sources => fed[c] = fired[n] + Len(queue[c])
        /\ \A m \in Nodes : c \in Range(Outputs[m]) =>
                fired[m] = fired[n] + Len(queue[c])

AlignmentInv ==
    raises = 0 => ~ mixed /\ \E fired \in [Nodes -> Nat] : Aligned(fired)

\* A channel has one reader and one writer.
LEMMA OneEnd ==
    ASSUME NEW m \in Nodes, NEW n \in Nodes, NEW c,
           \/ c \in Range(Inputs[m]) /\ c \in Range(Inputs[n])
           \/ c \in Range(Outputs[m]) /\ c \in Range(Outputs[n])
    PROVE  m = n
  BY DataflowAssumption DEF DataflowAssumption

\* A feed, a drain and a firing keep the tokens aligned.
LEMMA AlignedFeed ==
    ASSUME DataflowInv, AlignmentInv, NEW c \in Sources, NEW isQuantum \in BOOLEAN,
           Feed(c, isQuantum)
    PROVE  AlignmentInv'
<1>1. UNCHANGED <<raises, mixed>>
  BY DEF Feed, Outside, runState
<1> SUFFICES ASSUME raises = 0, NEW fired \in [Nodes -> Nat], Aligned(fired)
             PROVE  Aligned(fired)'
  BY <1>1 DEF AlignmentInv
<1> DEFINE token == [number |-> fed[c] + 1, quantum |-> isQuantum]
<1>2. /\ queue' = [queue EXCEPT ![c] = Append(queue[c], token)]
      /\ fed' = [fed EXCEPT ![c] = @ + 1]
      /\ queue \in [Channels -> Seq(Token)] /\ fed \in [Sources -> Nat]
      /\ c \in Channels
  BY DEF Feed, DataflowInv, DataflowTypeOK, Sources
<1>3. token \in Token /\ token.number = fed[c] + 1
  BY <1>2 DEF Token
<1> HIDE DEF token
<1> SUFFICES ASSUME NEW n \in Nodes, NEW d \in Range(Inputs[n])
             PROVE  /\ \A i \in 1..Len(queue'[d]) : queue'[d][i].number = fired[n] + i
                    /\ d \in Sources => fed'[d] = fired[n] + Len(queue'[d])
                    /\ \A m \in Nodes : d \in Range(Outputs[m]) =>
                            fired[m] = fired[n] + Len(queue'[d])
  BY DEF Aligned
<1>4. d \in Channels /\ \A m \in Nodes : c \notin Range(Outputs[m])
  BY PortFacts
<1>5. /\ \A i \in 1..Len(queue[d]) : queue[d][i].number = fired[n] + i
      /\ d \in Sources => fed[d] = fired[n] + Len(queue[d])
      /\ \A m \in Nodes : d \in Range(Outputs[m]) =>
              fired[m] = fired[n] + Len(queue[d])
  BY DEF Aligned
<1>6. CASE d # c
  BY <1>2, <1>4, <1>5, <1>6
<1>7. CASE d = c
  <2> DEFINE q == queue[c]
  <2>1. q \in Seq(Token) /\ queue'[c] = Append(q, token)
    BY <1>2
  <2>2. fed[c] = fired[n] + Len(q) /\ \A i \in 1..Len(q) : q[i].number = fired[n] + i
    BY <1>5, <1>7
  <2> HIDE DEF q
  <2>3. /\ Len(Append(q, token)) = Len(q) + 1 /\ Len(q) \in Nat
        /\ \A i \in 1..Len(q) : Append(q, token)[i] = q[i]
        /\ Append(q, token)[Len(q) + 1] = token
    BY <2>1, <1>3
  <2>4. fired[n] \in Nat /\ fed[c] \in Nat /\ fed'[c] = fed[c] + 1
    BY <1>2
  <2>5. ASSUME NEW i \in 1..(Len(q) + 1) PROVE Append(q, token)[i].number = fired[n] + i
    <3>1. CASE i \in 1..Len(q)
      BY <3>1, <2>2, <2>3
    <3>2. CASE i = Len(q) + 1
      BY <3>2, <2>2, <2>3, <2>4, <1>3
    <3> QED BY <3>1, <3>2, <2>3
  <2> QED BY <1>4, <1>7, <2>1, <2>2, <2>3, <2>4, <2>5
<1> QED BY <1>6, <1>7

\* (the drain)
LEMMA AlignedDrain ==
    ASSUME DataflowInv, AlignmentInv, NEW c \in Sinks, Drain(c)
    PROVE  AlignmentInv'
<1>1. UNCHANGED <<raises, mixed, fed>>
  BY DEF Drain, Outside, runState
<1> SUFFICES ASSUME raises = 0, NEW fired \in [Nodes -> Nat], Aligned(fired)
             PROVE  Aligned(fired)'
  BY <1>1 DEF AlignmentInv
<1>2. /\ queue' = [queue EXCEPT ![c] = Tail(@)]
      /\ queue \in [Channels -> Seq(Token)]
  BY DEF Drain, DataflowInv, DataflowTypeOK
<1>3. ASSUME NEW n \in Nodes, NEW d \in Range(Inputs[n]) PROVE queue'[d] = queue[d]
  BY <1>2, PortFacts
<1> QED BY <1>1, <1>3 DEF Aligned

\* (the firing)
LEMMA AlignedFire ==
    ASSUME DataflowInv, AlignmentInv, Fire
    PROVE  AlignmentInv'
<1> SUFFICES ASSUME NEW n \in Nodes, n = Order[turn] PROVE AlignmentInv'
  BY OrderFacts DEF DataflowInv, AdmittedInv, Fire
<1> DEFINE made == [number |-> CHOOSE k \in Numbers(n) : TRUE,
                      quantum |-> \E t \in Peeked(n) : t.quantum]
<1>1. n \in Nodes /\ Available(n) /\ Accepted(n)
  BY OrderFacts DEF DataflowInv, AdmittedInv, Fire
<1>2. /\ queue' = [c \in Channels |->
             IF c \in Range(Outputs[n]) THEN Append(Consumed(n)[c], made)
             ELSE Consumed(n)[c]]
      /\ UNCHANGED <<fed, raises>>
      /\ mixed' = (mixed \/ Cardinality(Numbers(n)) > 1)
  BY <1>1 DEF Fire
<1> SUFFICES ASSUME raises = 0
             PROVE  ~ mixed' /\ \E g \in [Nodes -> Nat] : Aligned(g)'
  BY <1>2 DEF AlignmentInv
<1>3. PICK fired \in [Nodes -> Nat] : ~ mixed /\ Aligned(fired)
  BY DEF AlignmentInv
<1> DEFINE next == fired[n] + 1
           after == [fired EXCEPT ![n] = next]
<1>4. queue \in [Channels -> Seq(Token)]
  BY DEF DataflowInv, DataflowTypeOK
<1>5. \A c \in Range(Inputs[n]) :
          queue[c] # <<>> /\ queue[c] \in Seq(Token) /\ c \in Channels
  BY <1>1, <1>4, PortFacts DEF Available
<1>6. ASSUME NEW c \in Range(Inputs[n])
      PROVE  Head(queue[c]).number = next
  <2>1. 1 \in 1..Len(queue[c]) /\ Head(queue[c]) = queue[c][1]
    BY <1>5
  <2>2. queue[c][1].number = fired[n] + 1
    BY <1>1, <1>3, <2>1 DEF Aligned
  <2> QED BY <2>1, <2>2
<1>7. Numbers(n) = {next}
  <2>1. Peeked(n) # {}
    BY <1>1, <1>5, PortFacts DEF Peeked
  <2>2. \A t \in Peeked(n) : t.number = next
    BY <1>6 DEF Peeked
  <2> HIDE DEF next
  <2> QED BY <2>1, <2>2 DEF Numbers
<1>8. ~ mixed'
  <2>1. Cardinality({next}) = 1
    BY FS_Singleton
  <2>2. Cardinality(Numbers(n)) = 1
    BY <1>7, <2>1
  <2>3. ~ (Cardinality(Numbers(n)) > 1)
    BY <2>2
  <2> QED BY <1>2, <1>3, <2>3
<1>9. made.number = next /\ made \in Token
  <2>1. (CHOOSE k \in Numbers(n) : TRUE) = next
    BY <1>7
  <2>2. next \in Nat
    BY <1>1
  <2> HIDE DEF next
  <2> QED BY <2>1, <2>2 DEF Token
<1> HIDE DEF made, next
<1>10. next = fired[n] + 1 /\ fired[n] \in Nat /\ next \in Nat
  BY <1>1 DEF next
<1>11. /\ after \in [Nodes -> Nat] /\ after[n] = next
       /\ \A m \in Nodes \ {n} : after[m] = fired[m]
  BY <1>10
<1> HIDE DEF after
<1>12. ASSUME NEW p \in Nodes, NEW c \in Range(Inputs[p])
       PROVE  /\ \A i \in 1..Len(queue'[c]) : queue'[c][i].number = after[p] + i
              /\ c \in Sources => fed'[c] = after[p] + Len(queue'[c])
              /\ \A m \in Nodes : c \in Range(Outputs[m]) =>
                      after[m] = after[p] + Len(queue'[c])
  <2>1. c \in Channels /\ queue[c] \in Seq(Token)
    BY <1>4, PortFacts
  <2>2. /\ \A i \in 1..Len(queue[c]) : queue[c][i].number = fired[p] + i
        /\ c \in Sources => fed[c] = fired[p] + Len(queue[c])
        /\ \A m \in Nodes : c \in Range(Outputs[m]) =>
                fired[m] = fired[p] + Len(queue[c])
    BY <1>3 DEF Aligned
  <2>3. \A m \in Nodes : fired[m] \in Nat
    OBVIOUS
  <2>4. CASE p = n
    <3> DEFINE q == queue[c]
               r == Tail(queue[c])
    <3>1. queue[c] # <<>> /\ Len(queue[c]) > 0
      BY <2>1, <2>4, <1>5
    <3>2. c \notin Range(Outputs[n])
      <4>1. c \in Range(Outputs[n]) => fired[n] = fired[n] + Len(queue[c])
        BY <1>1, <2>2, <2>4
      <4>2. Len(queue[c]) \in Nat
        BY <2>1
      <4> QED BY <4>1, <4>2, <3>1, <1>10
    <3>3. queue'[c] = r
      BY <1>2, <2>1, <2>4, <3>1, <3>2 DEF Consumed
    <3>4. /\ Len(r) = Len(q) - 1 /\ Len(q) \in Nat
          /\ \A i \in 1..(Len(q) - 1) : r[i] = q[i + 1]
      BY <2>1, <3>1
    <3> HIDE DEF r, q
    <3>5. after[p] = fired[p] + 1
      BY <2>4, <1>10, <1>11
    <3>6. \A i \in 1..Len(q) : q[i].number = fired[p] + i
      BY <2>2 DEF q
    <3>7. \A i \in 1..Len(r) : r[i].number = after[p] + i
      <4> SUFFICES ASSUME NEW i \in 1..Len(r) PROVE r[i].number = after[p] + i
        OBVIOUS
      <4>1. i + 1 \in 1..Len(q) /\ r[i] = q[i + 1]
        BY <3>4
      <4>2. r[i].number = fired[p] + (i + 1)
        BY <4>1, <3>6
      <4> QED BY <4>2, <3>5, <2>3, <3>4
    <3>8. c \in Sources => fed'[c] = after[p] + Len(r)
      <4>1. c \in Sources => fed[c] = fired[p] + Len(q)
        BY <2>2 DEF q
      <4> QED BY <4>1, <1>2, <3>4, <3>5, <2>3
    <3>9. ASSUME NEW m \in Nodes, c \in Range(Outputs[m])
          PROVE  after[m] = after[p] + Len(r)
      <4>1. m # n /\ after[m] = fired[m]
        BY <3>2, <3>9, <1>11
      <4>2. fired[m] = fired[p] + Len(q)
        BY <2>2, <3>9 DEF q
      <4> QED BY <4>1, <4>2, <3>4, <3>5, <2>3
    <3> QED BY <3>3, <3>7, <3>8, <3>9
  <2>5. CASE p # n
    <3>1. c \notin Range(Inputs[n])
      BY <2>5, <1>1, OneEnd
    <3>2. Consumed(n)[c] = queue[c] /\ after[p] = fired[p]
      BY <2>1, <2>5, <3>1, <1>11 DEF Consumed
    <3>3. CASE c \in Range(Outputs[n])
      <4> DEFINE q == queue[c]
                 r == Append(queue[c], made)
      <4>1. queue'[c] = r
        BY <1>2, <2>1, <3>2, <3>3
      <4>2. /\ Len(r) = Len(q) + 1 /\ Len(q) \in Nat
            /\ \A i \in 1..Len(q) : r[i] = q[i]
            /\ r[Len(q) + 1] = made
        BY <2>1, <1>9
      <4>3. fired[n] = fired[p] + Len(q) /\ \A i \in 1..Len(q) : q[i].number = fired[p] + i
        BY <1>1, <2>2, <3>3
      <4> HIDE DEF q, r
      <4>4. ASSUME NEW i \in 1..(Len(q) + 1) PROVE r[i].number = fired[p] + i
        <5>1. CASE i \in 1..Len(q)
          BY <5>1, <4>2, <4>3
        <5>2. CASE i = Len(q) + 1
          BY <5>2, <4>2, <4>3, <1>9, <1>10, <2>3
        <5> QED BY <5>1, <5>2, <4>2
      <4>5. c \notin Sources
        BY <3>3, <1>1, PortFacts
      <4>6. ASSUME NEW m \in Nodes, c \in Range(Outputs[m])
            PROVE  after[m] = fired[p] + (Len(q) + 1)
        <5>1. m = n
          BY <4>6, <3>3, <1>1, OneEnd
        <5>2. after[m] = fired[n] + 1
          BY <5>1, <1>10, <1>11
        <5> QED BY <5>2, <4>2, <4>3, <2>3
      <4> QED BY <4>1, <4>2, <4>4, <4>5, <4>6, <3>2
    <3>4. CASE c \notin Range(Outputs[n])
      <4>1. queue'[c] = queue[c]
        BY <1>2, <2>1, <3>2, <3>4
      <4>2. \A m \in Nodes : c \in Range(Outputs[m]) => after[m] = fired[m]
        BY <3>4, <1>11
      <4> QED BY <4>1, <4>2, <2>2, <3>2, <1>2
    <3> QED BY <3>3, <3>4
  <2> QED BY <2>4, <2>5
<1>13. Aligned(after)'
  BY <1>12 DEF Aligned
<1> QED BY <1>8, <1>11, <1>13

\* Every step keeps the tokens aligned.
LEMMA AlignmentStep ==
    ASSUME DataflowInv, AlignmentInv, [DataflowNext]_dataflowVars
    PROVE  AlignmentInv'
<1>1. ASSUME UNCHANGED <<queue, fed, raises, mixed>> PROVE AlignmentInv'
  BY <1>1 DEF AlignmentInv, Aligned
<1>2. ASSUME NEW c \in Sources, NEW isQuantum \in BOOLEAN, Feed(c, isQuantum)
      PROVE  AlignmentInv'
  BY <1>2, AlignedFeed
<1>3. ASSUME NEW c \in Sinks, Drain(c) PROVE AlignmentInv'
  BY <1>3, AlignedDrain
<1>4. CASE Fire
  BY <1>4, AlignedFire
<1>5. CASE FunctionRaises
  <2>1. raises' # 0
    BY <1>5 DEF FunctionRaises, DataflowInv, DataflowTypeOK
  <2> QED BY <2>1 DEF AlignmentInv
<1>6. ASSUME NEW c \in Sources, CloseSource(c) PROVE AlignmentInv'
  BY <1>1, <1>6 DEF CloseSource, Outside, runState
<1>7. ASSUME NEW w, FailWorker(w) PROVE AlignmentInv'
  BY <1>1, <1>7 DEF FailWorker, Outside, runState
<1>8. ASSUME NEW n, PassDeadline(n) PROVE AlignmentInv'
  BY <1>1, <1>8 DEF PassDeadline, Outside, runState
<1>9. ASSUME NEW t, Spend(t) PROVE AlignmentInv'
  BY <1>1, <1>9 DEF Spend, Outside, runState
<1>10. CASE Run
  BY <1>1, <1>10 DEF Run, flow
<1>11. CASE Evaluate
  BY <1>1, <1>11 DEF Evaluate, flow
<1>12. CASE EndOfRound
  BY <1>1, <1>12 DEF EndOfRound, flow
<1>13. CASE UNCHANGED dataflowVars
  BY <1>1, <1>13 DEF dataflowVars, runState
<1> QED
  BY <1>2, <1>3, <1>4, <1>5, <1>6, <1>7, <1>8, <1>9, <1>10, <1>11, <1>12, <1>13
  DEF DataflowNext

(* An admitted firing is never refused half way, and combines only tokens   *)
(* of one number, as long as no function has raised.                        *)
THEOREM FiringsWhole == DataflowSpec => []FiringsAreWhole
<1>1. DataflowInit => AlignmentInv
  <2> SUFFICES ASSUME DataflowInit PROVE AlignmentInv
    OBVIOUS
  <2> DEFINE none == [n \in Nodes |-> 0]
  <2>1. ~ mixed /\ queue = [c \in Channels |-> <<>>] /\ fed = [c \in Sources |-> 0]
    BY DEF DataflowInit
  <2>2. Aligned(none)
    BY <2>1, PortFacts DEF Aligned
  <2> QED BY <2>1, <2>2 DEF AlignmentInv
<1>2. DataflowInv /\ AlignmentInv => FiringsAreWhole
  BY DEF DataflowInv, AlignmentInv, FiringsAreWhole
<1> QED BY <1>1, <1>2, AlignmentStep, DataflowInvariant, PTL DEF DataflowSpec
-----------------------------------------------------------------------------
\* Without its element at i a list has the others.
LEMMA RemoveAtFacts ==
    ASSUME NEW S, NEW s \in Seq(S), NEW i \in DOMAIN s
    PROVE  /\ RemoveAt(s, i) \in Seq(S)
           /\ Range(s) = Range(RemoveAt(s, i)) \cup {s[i]}
           /\ IsInjective(s) => /\ IsInjective(RemoveAt(s, i))
                                /\ s[i] \notin Range(RemoveAt(s, i))
<1> DEFINE n == Len(s)
           a == SubSeq(s, 1, i - 1)
           b == SubSeq(s, i + 1, n)
           r == RemoveAt(s, i)
<1>1. n \in Nat /\ DOMAIN s = 1..n /\ i \in 1..n /\ \A k \in 1..n : s[k] \in S
  BY LenProperties, ElementOfSeq
<1>2. /\ a \in Seq(S) /\ Len(a) = i - 1 /\ \A k \in 1..(i - 1) : a[k] = s[k]
      /\ b \in Seq(S) /\ Len(b) = n - i /\ \A k \in 1..(n - i) : b[k] = s[k + i]
  BY <1>1
<1>3. r = a \o b
  BY DEF RemoveAt
<1> HIDE DEF a, b, r, n
<1>4. /\ r \in Seq(S) /\ Len(r) = n - 1
      /\ \A k \in 1..(i - 1) : r[k] = s[k]
      /\ \A k \in i..(n - 1) : r[k] = s[k + 1]
  <2>1. /\ a \o b \in Seq(S) /\ Len(a \o b) = Len(a) + Len(b)
        /\ \A k \in 1..Len(a) : (a \o b)[k] = a[k]
        /\ \A k \in (Len(a) + 1)..(Len(a) + Len(b)) : (a \o b)[k] = b[k - Len(a)]
    <3>1. a \in Seq(S) /\ b \in Seq(S)
      BY <1>2
    <3> HIDE <1>2
    <3>2. a \o b \in Seq(S)
      BY <3>1
    <3>3. Len(a \o b) = Len(a) + Len(b) /\ Len(a) \in Nat /\ Len(b) \in Nat
      BY <3>1
    <3>4. \A k \in 1..Len(a) : (a \o b)[k] = a[k]
      BY <3>1, <3>3
    <3>5. \A k \in (Len(a) + 1)..(Len(a) + Len(b)) : (a \o b)[k] = b[k - Len(a)]
      BY <3>1, <3>3
    <3> QED BY <3>2, <3>3, <3>4, <3>5
  <2>2. r \in Seq(S) /\ Len(r) = n - 1
    BY <1>1, <1>2, <1>3, <2>1
  <2>3. ASSUME NEW k \in 1..(i - 1) PROVE r[k] = s[k]
    BY <1>1, <1>2, <1>3, <2>1, <2>3
  <2>4. ASSUME NEW k \in i..(n - 1) PROVE r[k] = s[k + 1]
    <3>1. k \in (Len(a) + 1)..(Len(a) + Len(b)) /\ k - Len(a) \in 1..(n - i)
      BY <1>1, <1>2
    <3>2. r[k] = b[k - Len(a)]
      BY <1>3, <2>1, <3>1
    <3>3. b[k - Len(a)] = s[(k - Len(a)) + i]
      BY <1>2, <3>1
    <3>4. (k - Len(a)) + i = k + 1
      BY <1>1, <1>2
    <3> QED BY <3>2, <3>3, <3>4
  <2> QED BY <2>2, <2>3, <2>4
<1>5. DOMAIN r = 1..(n - 1)
  BY <1>4, LenProperties
<1>6. Range(s) \subseteq Range(r) \cup {s[i]}
  <2> SUFFICES ASSUME NEW k \in 1..n, k # i PROVE s[k] \in Range(r)
    BY <1>1 DEF Range
  <2>1. CASE k < i
    <3>1. k \in 1..(i - 1) /\ k \in DOMAIN r
      BY <2>1, <1>1, <1>5
    <3> QED BY <3>1, <1>4 DEF Range
  <2>2. CASE k > i
    <3>1. k - 1 \in i..(n - 1) /\ k - 1 \in DOMAIN r /\ (k - 1) + 1 = k
      BY <2>2, <1>1, <1>5
    <3>2. r[k - 1] = s[k]
      BY <3>1, <1>4
    <3> QED BY <3>1, <3>2 DEF Range
  <2> QED BY <2>1, <2>2, <1>1
<1>7. ASSUME NEW k \in DOMAIN r
      PROVE  \E j \in 1..n : j # i /\ r[k] = s[j] /\ j = IF k < i THEN k ELSE k + 1
  <2>1. CASE k < i
    BY <2>1, <1>1, <1>4, <1>5
  <2>2. CASE ~ k < i
    <3>1. k + 1 \in 1..n /\ k + 1 # i /\ k \in i..(n - 1)
      BY <2>2, <1>1, <1>5
    <3> QED BY <3>1, <2>2, <1>4
  <2> QED BY <2>1, <2>2
<1>8. Range(r) \subseteq Range(s)
  BY <1>7, <1>1 DEF Range
<1>9. s[i] \in Range(s)
  BY DEF Range
<1>10. ASSUME IsInjective(s) PROVE IsInjective(r) /\ s[i] \notin Range(r)
  <2>1. \A j, k \in 1..n : s[j] = s[k] => j = k
    BY <1>10, <1>1 DEF IsInjective
  <2>2. s[i] \notin Range(r)
    BY <1>7, <2>1, <1>1 DEF Range
  <2>3. ASSUME NEW j \in DOMAIN r, NEW k \in DOMAIN r, r[j] = r[k] PROVE j = k
    <3>1. PICK x \in 1..n : r[j] = s[x] /\ x = IF j < i THEN j ELSE j + 1
      BY <1>7
    <3>2. PICK y \in 1..n : r[k] = s[y] /\ y = IF k < i THEN k ELSE k + 1
      BY <1>7
    <3>3. x = y
      BY <3>1, <3>2, <2>1, <2>3
    <3> QED BY <3>1, <3>2, <3>3, <1>1, <1>5
  <2> QED BY <2>2, <2>3 DEF IsInjective
<1> QED BY <1>4, <1>6, <1>8, <1>9, <1>10 DEF r

\* A list that is extended has one element more.
LEMMA AppendFacts ==
    ASSUME NEW S, NEW s \in Seq(S), NEW t \in S
    PROVE  /\ Append(s, t) \in Seq(S)
           /\ Range(Append(s, t)) = Range(s) \cup {t}
           /\ IsInjective(s) /\ t \notin Range(s) => IsInjective(Append(s, t))
<1> DEFINE r == Append(s, t)
           n == Len(s)
<1>1. /\ n \in Nat /\ DOMAIN s = 1..n
      /\ r \in Seq(S) /\ Len(r) = n + 1
      /\ \A k \in 1..n : r[k] = s[k]
      /\ r[n + 1] = t
  OBVIOUS
<1> HIDE DEF r, n
<1>2. DOMAIN r = 1..(n + 1) /\ DOMAIN r = DOMAIN s \cup {n + 1}
  <2>1. DOMAIN r = 1..(n + 1)
    BY <1>1, LenProperties
  <2> QED BY <2>1, <1>1
<1>3. Range(r) = Range(s) \cup {t}
  BY <1>1, <1>2 DEF Range
<1>4. ASSUME IsInjective(s), t \notin Range(s) PROVE IsInjective(r)
  <2> SUFFICES ASSUME NEW j \in DOMAIN r, NEW k \in DOMAIN r, r[j] = r[k] PROVE j = k
    BY DEF IsInjective
  <2>1. \A x \in DOMAIN s : s[x] # t
    BY <1>4 DEF Range
  <2>2. \A x, y \in DOMAIN s : s[x] = s[y] => x = y
    BY <1>4 DEF IsInjective
  <2> QED BY <2>1, <2>2, <1>1, <1>2
<1> QED BY <1>1, <1>3, <1>4 DEF r

(* What the deques d hold, and that no task is in them twice.               *)
Spread(d) == UNION {Range(d[w]) : w \in Original}

Separate(d) ==
    /\ d \in [Original -> Seq(Tasks)]
    /\ \A v, w \in Original : v # w => Range(d[v]) \cap Range(d[w]) = {}
    /\ \A w \in Original : IsInjective(d[w])

(* e is d with the task t, at position i of v's deque, taken off it; and     *)
(* with the task t put at the end of v's deque.                             *)
TakenOff(d, e, v, i, t) ==
    /\ Separate(d) /\ v \in Original /\ i \in DOMAIN d[v]
    /\ t = d[v][i] /\ e = [d EXCEPT ![v] = RemoveAt(d[v], i)]

PutOnto(d, e, v, t) ==
    /\ Separate(d) /\ v \in Original /\ t \in Tasks \ Spread(d)
    /\ e = [d EXCEPT ![v] = Append(d[v], t)]

\* A task taken off a deque is in none.
LEMMA TakeOff ==
    ASSUME NEW d, NEW e, NEW v, NEW i, NEW t, TakenOff(d, e, v, i, t)
    PROVE  /\ Separate(e)
           /\ Spread(d) = Spread(e) \cup {t}
           /\ t \notin Spread(e) /\ t \in Tasks
<1> DEFINE r == RemoveAt(d[v], i)
<1>0. /\ Separate(d) /\ v \in Original /\ i \in DOMAIN d[v]
      /\ t = d[v][i] /\ e = [d EXCEPT ![v] = r]
  BY DEF TakenOff
<1>1. d \in [Original -> Seq(Tasks)] /\ d[v] \in Seq(Tasks) /\ IsInjective(d[v])
  BY <1>0 DEF Separate
<1>2. /\ r \in Seq(Tasks) /\ Range(d[v]) = Range(r) \cup {t}
      /\ IsInjective(r) /\ t \notin Range(r)
  BY <1>0, <1>1, RemoveAtFacts
<1> HIDE DEF r
<1>3. e[v] = r /\ \A w \in Original \ {v} : e[w] = d[w]
  BY <1>0, <1>1
<1>4. e \in [Original -> Seq(Tasks)]
  BY <1>0, <1>1, <1>2
<1>5. t \in Range(d[v]) /\ t \in Tasks
  BY <1>0, <1>1, ElementOfSeq, LenProperties DEF Range
<1>6. \A w \in Original \ {v} : t \notin Range(d[w])
  BY <1>0, <1>5 DEF Separate
<1>7. Separate(e)
  BY <1>0, <1>2, <1>3, <1>4 DEF Separate
<1>8. Spread(d) = Spread(e) \cup {t}
  BY <1>0, <1>2, <1>3 DEF Spread
<1>9. t \notin Spread(e)
  BY <1>0, <1>2, <1>3, <1>6 DEF Spread
<1> QED BY <1>5, <1>7, <1>8, <1>9

\* A task put onto a deque is in that one only.
LEMMA PutOn ==
    ASSUME NEW d, NEW e, NEW v, NEW t, PutOnto(d, e, v, t)
    PROVE  Separate(e) /\ Spread(e) = Spread(d) \cup {t}
<1> USE DEF PutOnto
<1>1. d \in [Original -> Seq(Tasks)] /\ d[v] \in Seq(Tasks) /\ IsInjective(d[v])
  BY DEF Separate
<1> DEFINE r == Append(d[v], t)
<1>2. \A w \in Original : t \notin Range(d[w])
  BY DEF Spread
<1>3. r \in Seq(Tasks) /\ Range(r) = Range(d[v]) \cup {t} /\ IsInjective(r)
  BY <1>1, <1>2, AppendFacts
<1>4. e[v] = r /\ \A w \in Original \ {v} : e[w] = d[w]
  BY <1>1
<1>5. e \in [Original -> Seq(Tasks)]
  BY <1>1, <1>3
<1> HIDE DEF r
<1>6. Separate(e)
  <2>1. \A w \in Original : IsInjective(e[w])
    BY <1>3, <1>4 DEF Separate
  <2>2. ASSUME NEW w \in Original \ {v} PROVE Range(e[v]) \cap Range(e[w]) = {}
    <3>1. Range(d[v]) \cap Range(d[w]) = {}
      BY DEF Separate
    <3> QED BY <3>1, <1>2, <1>3, <1>4
  <2>3. \A w, x \in Original \ {v} : w # x => Range(e[w]) \cap Range(e[x]) = {}
    BY <1>4 DEF Separate
  <2>4. \A w, x \in Original : w # x => Range(e[w]) \cap Range(e[x]) = {}
    BY <2>2, <2>3
  <2> QED BY <1>5, <2>1, <2>4 DEF Separate
<1>7. Spread(e) = Spread(d) \cup {t}
  BY <1>3, <1>4 DEF Spread
<1> QED BY <1>6, <1>7

KeptInv == Separate(deques) /\ Queued \cap taken = {}

KeptStep ==
    /\ Queued \cup taken \cup dropped \subseteq (Queued \cup taken \cup dropped)'
    /\ OnePlace'

\* The invariant follows from where the tasks are spread.
LEMMA KeptFromSpread ==
    ASSUME NEW d, NEW e, NEW gone, NEW after, NEW lost, NEW lostAfter,
           d = deques, gone = taken, lost = dropped,
           e = deques', after = taken', lostAfter = dropped',
           Separate(e), Spread(e) \cap after = {},
           Spread(d) \cup gone \cup lost \subseteq Spread(e) \cup after \cup lostAfter
    PROVE  KeptInv' /\ KeptStep
<1>1. KeptInv'
  BY DEF KeptInv, Spread, Queued, Separate
<1>2. OnePlace'
  BY DEF OnePlace, Spread, Queued, Separate
<1>3. Queued = Spread(d) /\ Queued' = Spread(e)
  BY DEF Spread, Queued
<1> QED BY <1>1, <1>2, <1>3 DEF KeptStep

\* Each action of the scheduler keeps the tasks: a push, ...
LEMMA PushStep ==
    ASSUME KeptInv, NEW w \in Original, NEW t \in Tasks, Push(w, t)
    PROVE  KeptInv' /\ KeptStep
<1> SUFFICES ASSUME NEW d, NEW e, NEW gone, NEW after, NEW lost, NEW lostAfter,
                    d = deques, gone = taken, lost = dropped,
                    e = deques', after = taken', lostAfter = dropped'
             PROVE  KeptInv' /\ KeptStep
  OBVIOUS
<1>1. /\ e = [d EXCEPT ![w] = Append(d[w], t)]
      /\ t \notin Spread(d) /\ t \notin gone
      /\ after = gone /\ lostAfter = lost
  BY DEF Push, Spread, Queued
<1>2. Separate(d) /\ Spread(d) \cap gone = {}
  BY DEF KeptInv, Spread, Queued
<1>3. Separate(e) /\ Spread(e) = Spread(d) \cup {t}
  <2>1. PutOnto(d, e, w, t)
    BY <1>1, <1>2 DEF PutOnto
  <2> QED BY <2>1, PutOn
<1> QED
  <2>1. /\ Separate(e) /\ Spread(e) \cap after = {}
        /\ Spread(d) \cup gone \cup lost \subseteq Spread(e) \cup after \cup lostAfter
    BY <1>1, <1>2, <1>3
  <2> QED BY <2>1, KeptFromSpread

\* The last element is the one that a local pop takes.
LEMMA FrontIsRemoveAt ==
    ASSUME NEW S, NEW s \in Seq(S), s # <<>>
    PROVE  Front(s) = RemoveAt(s, Len(s)) /\ Last(s) = s[Len(s)] /\ Len(s) \in DOMAIN s
<1>1. Len(s) \in Nat \ {0} /\ DOMAIN s = 1..Len(s)
  BY EmptySeq, LenProperties
<1>2. SubSeq(s, Len(s) + 1, Len(s)) = <<>>
  BY <1>1, SubSeqEmpty
<1>3. SubSeq(s, 1, Len(s) - 1) \in Seq(S)
  BY <1>1
<1>4. SubSeq(s, 1, Len(s) - 1) \o <<>> = SubSeq(s, 1, Len(s) - 1)
  BY <1>3, ConcatEmptySeq
<1> QED BY <1>1, <1>2, <1>4 DEF Front, Last, RemoveAt

\* ... a local pop, ...
LEMMA PopLocalStep ==
    ASSUME KeptInv, NEW w \in Original, PopLocal(w)
    PROVE  KeptInv' /\ KeptStep
<1> SUFFICES ASSUME NEW d, NEW e, NEW gone, NEW after, NEW lost, NEW lostAfter,
                    d = deques, gone = taken, lost = dropped,
                    e = deques', after = taken', lostAfter = dropped'
             PROVE  KeptInv' /\ KeptStep
  OBVIOUS
<1>1. Separate(d) /\ Spread(d) \cap gone = {}
  BY DEF KeptInv, Spread, Queued
<1>2. d[w] \in Seq(Tasks) /\ d[w] # <<>>
  BY <1>1 DEF Separate, PopLocal
<1>3. PICK i, r, t : i = Len(d[w]) /\ r = RemoveAt(d[w], i) /\ t = d[w][i]
  OBVIOUS
<1>4. Front(d[w]) = r /\ Last(d[w]) = t /\ i \in DOMAIN d[w]
  BY <1>2, <1>3, FrontIsRemoveAt
<1>5. e = [d EXCEPT ![w] = r] /\ after = gone \cup {t} /\ lostAfter = lost
  BY <1>4 DEF PopLocal
<1>6. Separate(e) /\ Spread(d) = Spread(e) \cup {t} /\ t \notin Spread(e)
  <2>1. TakenOff(d, e, w, i, t)
    BY <1>1, <1>3, <1>4, <1>5 DEF TakenOff
  <2> QED BY <2>1, TakeOff
<1> QED
  <2>1. /\ Separate(e) /\ Spread(e) \cap after = {}
        /\ Spread(d) \cup gone \cup lost \subseteq Spread(e) \cup after \cup lostAfter
    BY <1>1, <1>5, <1>6
  <2> QED BY <2>1, KeptFromSpread

\* ... a steal, ...
LEMMA StealStep ==
    ASSUME KeptInv, NEW thief, NEW level, NEW v \in Original,
           NEW i \in DOMAIN deques[v], Steal(thief, level, v, i), UNCHANGED dropped
    PROVE  KeptInv' /\ KeptStep
<1> SUFFICES ASSUME NEW d, NEW e, NEW gone, NEW after, NEW lost, NEW lostAfter,
                    d = deques, gone = taken, lost = dropped,
                    e = deques', after = taken', lostAfter = dropped'
             PROVE  KeptInv' /\ KeptStep
  OBVIOUS
<1>1. Separate(d) /\ Spread(d) \cap gone = {} /\ i \in DOMAIN d[v]
  BY DEF KeptInv, Spread, Queued
<1>2. PICK r, t : r = RemoveAt(d[v], i) /\ t = d[v][i]
  OBVIOUS
<1>3. e = [d EXCEPT ![v] = r] /\ after = gone \cup {t} /\ lostAfter = lost
  BY <1>2 DEF Steal, Without
<1>4. Separate(e) /\ Spread(d) = Spread(e) \cup {t} /\ t \notin Spread(e)
  <2>1. TakenOff(d, e, v, i, t)
    BY <1>1, <1>2, <1>3 DEF TakenOff
  <2> QED BY <2>1, TakeOff
<1> QED
  <2>1. /\ Separate(e) /\ Spread(e) \cap after = {}
        /\ Spread(d) \cup gone \cup lost \subseteq Spread(e) \cup after \cup lostAfter
    BY <1>1, <1>3, <1>4
  <2> QED BY <2>1, KeptFromSpread

\* ... what leaves the deques alone, ...
LEMMA SameQueuesStep ==
    ASSUME KeptInv, UNCHANGED <<deques, taken, dropped>>
    PROVE  KeptInv' /\ KeptStep
  BY DEF KeptInv, KeptStep, Separate, Queued, OnePlace

\* ... an attempt, ...
LEMMA AttemptStealStep ==
    ASSUME KeptInv, NEW thief \in Original, AttemptSteal(thief)
    PROVE  KeptInv' /\ KeptStep
<1>1. CASE FindNothing(thief)
  BY <1>1, SameQueuesStep DEF FindNothing, AttemptSteal
<1>2. ASSUME NEW level \in DOMAIN StealLevels, NEW v \in Original,
             NEW i \in DOMAIN deques[v], Steal(thief, level, v, i)
      PROVE  KeptInv' /\ KeptStep
  BY <1>2, StealStep DEF AttemptSteal
<1> QED BY <1>1, <1>2 DEF AttemptSteal

\* ... a steal of one task.
LEMMA StealSpecificStep ==
    ASSUME KeptInv, NEW thief \in Workers, NEW v \in Original,
           NEW i \in DOMAIN deques[v], StealSpecific(thief, v, i)
    PROVE  KeptInv' /\ KeptStep
<1> SUFFICES ASSUME NEW d, NEW e, NEW gone, NEW after, NEW lost, NEW lostAfter,
                    d = deques, gone = taken, lost = dropped,
                    e = deques', after = taken', lostAfter = dropped'
             PROVE  KeptInv' /\ KeptStep
  OBVIOUS
<1>1. Separate(d) /\ Spread(d) \cap gone = {} /\ i \in DOMAIN d[v]
  BY DEF KeptInv, Spread, Queued
<1>2. PICK r, t, without : /\ r = RemoveAt(d[v], i) /\ t = d[v][i]
                           /\ without = [d EXCEPT ![v] = r]
  OBVIOUS
<1>3. /\ Separate(without) /\ Spread(d) = Spread(without) \cup {t}
      /\ t \notin Spread(without) /\ t \in Tasks
  <2>1. TakenOff(d, without, v, i, t)
    BY <1>1, <1>2 DEF TakenOff
  <2> QED BY <2>1, TakeOff
<1>4. CASE thief \in Original
  <2>1. e = [without EXCEPT ![thief] = Append(without[thief], t)] /\ after = gone /\ lostAfter = lost
    BY <1>2, <1>4 DEF StealSpecific, Without
  <2>2. Separate(e) /\ Spread(e) = Spread(without) \cup {t}
    <3>1. PutOnto(without, e, thief, t)
      BY <1>3, <1>4, <2>1 DEF PutOnto
    <3> QED BY <3>1, PutOn
  <2>3. /\ Separate(e) /\ Spread(e) \cap after = {}
        /\ Spread(d) \cup gone \cup lost \subseteq Spread(e) \cup after \cup lostAfter
    BY <1>1, <1>3, <2>1, <2>2
  <2> QED BY <2>3, KeptFromSpread
<1>5. CASE thief \notin Original
  <2>1. e = without /\ lostAfter = lost \cup {t} /\ after = gone
    BY <1>2, <1>5 DEF StealSpecific, Without
  <2>2. /\ Separate(e) /\ Spread(e) \cap after = {}
        /\ Spread(d) \cup gone \cup lost \subseteq Spread(e) \cup after \cup lostAfter
    BY <1>1, <1>3, <2>1
  <2> QED BY <2>2, KeptFromSpread
<1> QED BY <1>4, <1>5

\* Every step keeps the tasks.
LEMMA KeptNext ==
    ASSUME KeptInv, [StealingNext]_stealingVars
    PROVE  KeptInv' /\ KeptStep
<1>1. ASSUME NEW t \in Tasks, PayloadEnds(t) \/ Settle(t)
      PROVE  KeptInv' /\ KeptStep
  BY <1>1, SameQueuesStep DEF PayloadEnds, Settle
<1>2. CASE Grow \/ Shrink
  BY <1>2, SameQueuesStep DEF Grow, Shrink
<1>3. CASE UNCHANGED stealingVars
  BY <1>3, SameQueuesStep DEF stealingVars
<1> QED
  BY <1>1, <1>2, <1>3, PushStep, PopLocalStep, AttemptStealStep, StealSpecificStep
  DEF StealingNext

\* The invariant of the scheduler holds always.
LEMMA KeptInvariant == StealingSpec => []KeptInv
<1>1. StealingInit => KeptInv
  <2> SUFFICES ASSUME StealingInit PROVE KeptInv
    OBVIOUS
  <2>1. deques = [w \in Original |-> <<>>] /\ taken = {}
    BY DEF StealingInit
  <2>2. deques \in [Original -> Seq(Tasks)]
    BY <2>1
  <2>3. \A w \in Original : DOMAIN deques[w] = {}
    BY <2>1
  <2> QED BY <2>1, <2>2, <2>3 DEF KeptInv, Separate, IsInjective, Range
<1> QED BY <1>1, KeptNext, PTL DEF StealingSpec

(* Tasks are neither lost nor in two places.                                *)
THEOREM TasksKept == StealingSpec => TasksAreKept
<1>1. KeptInv /\ [StealingNext]_stealingVars =>
          [/\ Queued \cup taken \cup dropped
                 \subseteq (Queued \cup taken \cup dropped)'
           /\ OnePlace']_stealingVars
  BY KeptNext DEF KeptStep
<1> QED BY <1>1, KeptInvariant, PTL DEF StealingSpec, TasksAreKept

\* What StealsAreSound says of a step.
SoundStep ==
    /\ last'.kind = "idle" => Promising(Within(last'.thief, 3)) = {}
    /\ last'.kind = "stolen" =>
          /\ payload[last'.task] # "unknown"
          /\ Promising(Within(last'.thief,
                 Distance(last'.thief, last'.victim) - 1)) = {}
          /\ \A i, j \in DOMAIN deques[last'.victim] :
                deques[last'.victim][j] = last'.task /\ i < j
                   => ~ Stealable(deques[last'.victim][i])

\* The levels of the walk are the distances: a worker that is no further than
\* a level is in its scope, and one in its scope is no further.
LEMMA LevelsAreDistances ==
    ASSUME NEW thief \in Original, NEW i \in DOMAIN StealLevels,
           NEW w \in (members \cap Original) \ {thief}
    PROVE  w \in Others(thief, i) <=> Distance(thief, w) <= i
<1>1. thief \in Workers /\ w \in Workers
  BY DEF Original
<1>2. Group[thief] = Group[w] => Domain[thief] = Domain[w]
  BY <1>1, StealingAssumption
<1>3. i \in 1..3
  BY DEF StealLevels
<1>4. CASE i = 1
  BY <1>4 DEF Others, Scope, StealLevels, Distance
<1>5. CASE i = 2
  BY <1>2, <1>5 DEF Others, Scope, StealLevels, Distance
<1>6. CASE i = 3
  BY <1>6 DEF Others, Scope, StealLevels, Distance
<1> QED BY <1>3, <1>4, <1>5, <1>6

\* The workers within a distance that have something to steal are the victims
\* of the level.
LEMMA VictimsAreNear ==
    ASSUME NEW thief \in Original, NEW i \in DOMAIN StealLevels
    PROVE  Victims(thief, i) = Promising(Within(thief, i))
<1>1. Others(thief, i) \subseteq members \ {thief}
  BY DEF Others, Scope, StealLevels
<1>2. Others(thief, i) \cap Original = Within(thief, i)
  BY <1>1, LevelsAreDistances DEF Within
<1> QED BY <1>2 DEF Victims

\* A thief that finds nothing, and meets no worker without a deque, ...
LEMMA IdleIsSound ==
    ASSUME NEW thief \in Original, FindNothing(thief)
    PROVE  SoundStep
<1>1. last' = [Nothing EXCEPT
           !.kind = IF Raising(thief) = {} THEN "idle" ELSE "raised",
           !.thief = thief]
  BY DEF FindNothing
<1>2. last'.thief = thief /\ last'.kind # "stolen"
      /\ (last'.kind = "idle" => Raising(thief) = {})
  BY <1>1 DEF Nothing
<1>3. ASSUME Raising(thief) = {} PROVE Promising(Within(thief, 3)) = {}
  <2>1. Fruitful(thief) = {}
    BY <1>3 DEF FindNothing
  <2>2. 3 \in DOMAIN StealLevels
    BY DEF StealLevels
  <2>3. Victims(thief, 3) = {}
    BY <2>1, <2>2 DEF Fruitful
  <2> QED BY <2>2, <2>3, VictimsAreNear
<1> QED BY <1>2, <1>3 DEF SoundStep

\* ... and one that finds something.
LEMMA TheftIsSound ==
    ASSUME KeptInv, NEW thief \in Original, NEW level \in DOMAIN StealLevels,
           NEW victim \in Original, NEW i \in DOMAIN deques[victim],
           Steal(thief, level, victim, i)
    PROVE  SoundStep
<1>1. last' = [kind |-> "stolen", thief |-> thief, victim |-> victim,
               task |-> deques[victim][i]]
  BY DEF Steal
<1>2. last'.kind = "stolen" /\ last'.thief = thief /\ last'.victim = victim
      /\ last'.task = deques[victim][i]
  BY <1>1
<1>3. payload[deques[victim][i]] # "unknown"
  BY DEF Steal, Oldest, Stealable
<1>4. victim \in Victims(thief, level)
  BY DEF Steal, FirstVictim
<1>5. Distance(thief, victim) <= level /\ level \in 1..3
  BY <1>4, VictimsAreNear DEF Promising, Within, StealLevels
<1>6. Promising(Within(thief, Distance(thief, victim) - 1)) = {}
  <2>1. CASE Distance(thief, victim) = 1
    <3>1. \A w : ~ Distance(thief, w) <= 0
      BY DEF Distance
    <3> QED BY <2>1, <3>1 DEF Within, Promising
  <2>2. CASE Distance(thief, victim) \in {2, 3}
    <3>1. PICK d \in {1, 2} : d = Distance(thief, victim) - 1
      BY <2>2
    <3>2. d \in DOMAIN StealLevels /\ d < level
      BY <1>5, <2>2, <3>1 DEF StealLevels
    <3>3. d \notin Fruitful(thief)
      <4>1. ASSUME d \in Fruitful(thief) PROVE level <= d
        BY <4>1 DEF Steal
      <4> QED BY <4>1, <3>1, <3>2, <1>5
    <3>4. Victims(thief, d) = {}
      BY <3>2, <3>3 DEF Fruitful
    <3> QED BY <3>1, <3>2, <3>4, VictimsAreNear
  <2> QED BY <2>1, <2>2 DEF Distance
<1>7. ASSUME NEW m \in DOMAIN deques[victim], NEW j \in DOMAIN deques[victim],
             deques[victim][j] = deques[victim][i], m < j
      PROVE  ~ Stealable(deques[victim][m])
  <2>1. j = i
    BY <1>7 DEF KeptInv, Separate, IsInjective
  <2> QED BY <1>7, <2>1 DEF Steal, Oldest
<1> QED BY <1>2, <1>3, <1>6, <1>7 DEF SoundStep

\* Nothing else is a theft or an idle search.
LEMMA OtherwiseSound ==
    ASSUME last'.kind \notin {"idle", "stolen"}
    PROVE  SoundStep
  BY DEF SoundStep

(* A thief takes the oldest task of a nearest worker that has one, never    *)
(* unknown quantum state, and leaves empty-handed only if there is none.    *)
THEOREM TheftsAreSound == StealingSpec => StealsAreSound
<1>1. ASSUME KeptInv, StealingNext PROVE SoundStep
  <2>1. ASSUME NEW w \in Original, NEW t \in Tasks, Push(w, t) PROVE SoundStep
    BY <2>1, OtherwiseSound DEF Push, Nothing
  <2>2. ASSUME NEW w \in Original, PopLocal(w) PROVE SoundStep
    BY <2>2, OtherwiseSound DEF PopLocal
  <2>3. ASSUME NEW thief \in Original, AttemptSteal(thief) PROVE SoundStep
    BY <1>1, <2>3, IdleIsSound, TheftIsSound DEF AttemptSteal
  <2>4. ASSUME NEW thief \in Workers, NEW victim \in Original,
               NEW i \in DOMAIN deques[victim], StealSpecific(thief, victim, i)
        PROVE  SoundStep
    BY <2>4, OtherwiseSound DEF StealSpecific, Nothing
  <2>5. ASSUME NEW t \in Tasks, PayloadEnds(t) \/ Settle(t) PROVE SoundStep
    BY <2>5, OtherwiseSound DEF PayloadEnds, Settle, Nothing
  <2>6. CASE Grow \/ Shrink
    BY <2>6, OtherwiseSound DEF Grow, Shrink, Nothing
  <2> QED
    BY <1>1, <2>1, <2>2, <2>3, <2>4, <2>5, <2>6 DEF StealingNext
<1>2. KeptInv /\ [StealingNext]_stealingVars =>
          [/\ last'.kind = "idle" =>
                   Promising(Within(last'.thief, 3)) = {}
           /\ last'.kind = "stolen" =>
                 /\ payload[last'.task] # "unknown"
                 /\ Promising(Within(last'.thief,
                        Distance(last'.thief, last'.victim) - 1)) = {}
                 /\ \A i, j \in DOMAIN deques[last'.victim] :
                       deques[last'.victim][j] = last'.task /\ i < j
                          => ~ Stealable(deques[last'.victim][i])]_stealingVars
  BY <1>1 DEF SoundStep
<1> QED BY <1>2, KeptInvariant, PTL DEF StealingSpec, StealsAreSound

-----------------------------------------------------------------------------
(* A failure whose recovery would rebuild unknown quantum state is          *)
(* classified as impossible to recover from, since that rule comes first.   *)
LEMMA RebuildingIsImpossible ==
    ASSUME NEW failure \in Failures, failure.rebuilds
    PROVE  failure.class = "RECOVERY_IMPOSSIBLE"
<1>1. PICK s \in Scenarios, more \in Overrides :
          failure = Failure(s, more @@ DefaultContext(s))
  BY DEF Failures
<1> DEFINE c == more @@ DefaultContext(s)
           firing == {i \in 1..10 : Rules(s, c)[i].if}
<1>2. Unknown(s, c) /\ ~ c.known /\ (c.fromCheckpoint \/ c.duplicates)
  BY <1>1 DEF Failure
<1>3. Impossible(s, c)
  BY <1>2 DEF Impossible
<1>4. /\ Rules(s, c)[1].if
      /\ Rules(s, c)[1].class = "RECOVERY_IMPOSSIBLE"
  BY <1>3 DEF Rules
<1> HIDE DEF c
<1>5. 1 \in firing /\ \A k \in firing : k \in Nat /\ 1 <= k
  BY <1>4
<1>6. Lowest(firing) = 1
  <2> HIDE DEF firing
  <2>1. Lowest(firing) \in firing /\ \A k \in firing : Lowest(firing) <= k
    BY <1>5 DEF Lowest
  <2> QED BY <2>1, <1>5
<1>7. Classify(s, c) = "RECOVERY_IMPOSSIBLE"
  BY <1>6, <1>4 DEF Classify
<1> QED BY <1>1, <1>7 DEF Failure, c

(* The first level that absorbs a failure, if there is one.                 *)
LEMMA LowestLevel ==
    ASSUME NEW S, S \subseteq Levels, S # {}
    PROVE  Lowest(S) \in S /\ \A k \in S : Lowest(S) <= k
<1>1. \E l \in S : \A k \in S : l <= k
  <2>1. CASE 1 \in S
    BY <2>1 DEF Levels
  <2>2. CASE 1 \notin S /\ 2 \in S
    BY <2>2 DEF Levels
  <2>3. CASE 1 \notin S /\ 2 \notin S /\ 3 \in S
    BY <2>3 DEF Levels
  <2>4. CASE 1 \notin S /\ 2 \notin S /\ 3 \notin S
    <3>1. \A k \in S : k = 4
      BY <2>4 DEF Levels
    <3>2. 4 \in S
      <4>1. PICK k \in S : TRUE
        OBVIOUS
      <4> QED BY <4>1, <3>1
    <3> QED BY <3>1, <3>2
  <2> QED BY <2>1, <2>2, <2>3, <2>4
<1> QED BY <1>1 DEF Lowest

(* What a granted recovery says about the levels below and the budget.      *)
LEMMA Granting ==
    ASSUME SupervisionAssumption, NEW subject, NEW class,
           NEW start \in Levels, NEW level \in Absorbing(start, subject, class),
           \A k \in Absorbing(start, subject, class) : level <= k,
           Answer(level, subject, class) \in Recoveries
    PROVE  /\ ~ Exhausted(level, subject)
           /\ \A k \in start..(level - 1) : Exhausted(k, subject)
<1>1. /\ class # "RECOVERY_IMPOSSIBLE" /\ ~ Exhausted(level, subject)
      /\ Remedy(class) \in Recoveries
  BY DEF Answer, Recoveries
<1>2. ASSUME NEW k \in start..(level - 1) PROVE Exhausted(k, subject)
  <2>1. level \in start..4 /\ k \in start..4 /\ ~ level <= k
    BY DEF Absorbing, Levels
  <2>2. Answer(k, subject, class) = "escalate"
    BY <2>1 DEF Absorbing
  <2> QED BY <2>2, <1>1 DEF Answer, Recoveries
<1> QED BY <1>1, <1>2

(* No subject has been granted more recoveries at a level than it has taken *)
(* decisions there, nor more than the level's budget.                       *)
SupervisionInv ==
    /\ attempts \in [Levels -> [Subjects -> Nat]]
    /\ granted \in [Levels -> [Subjects -> Nat]]
    /\ \A l \in Levels, s \in Subjects :
          granted[l][s] <= attempts[l][s] /\ granted[l][s] <= Budget[l]
    /\ HonestReport

\* Handling a failure keeps the invariant.
LEMMA HandleStep ==
    ASSUME SupervisionInv, NEW subject \in Subjects, NEW start \in Levels,
           NEW failure \in Failures, Handle(subject, failure, start)
    PROVE  /\ SupervisionInv'
           /\ \A l \in Levels, s \in Subjects :
                 granted'[l][s] # granted[l][s] =>
                    /\ granted'[l][s] <= Budget[l]
                    /\ \A k \in entry'.start..(l - 1) :
                          attempts[k][s] >= Budget[k]
<1> DEFINE absorbing == Absorbing(start, subject, failure.class)
           level == IF absorbing = {} THEN 4 ELSE Lowest(absorbing)
           action == IF absorbing = {} THEN "abort"
                     ELSE Answer(level, subject, failure.class)
<1> USE SupervisionAssumption
<1>1. absorbing \subseteq Levels /\ level \in Levels
  BY LowestLevel DEF Absorbing, Levels
<1>2. ASSUME action \in Recoveries
      PROVE  /\ ~ Exhausted(level, subject)
             /\ \A k \in start..(level - 1) : Exhausted(k, subject)
             /\ level \in start..level
  <2>1. absorbing # {}
    BY <1>2 DEF Recoveries
  <2>2. level \in absorbing /\ \A k \in absorbing : level <= k
    BY <2>1, <1>1, LowestLevel
  <2>3. level \in start..4
    BY <2>2 DEF Absorbing
  <2>4. Answer(level, subject, failure.class) \in Recoveries
    BY <1>2, <2>1
  <2> HIDE DEF level
  <2> QED BY <2>2, <2>3, <2>4, Granting DEF Levels
<1> HIDE DEF level, action
<1>3. /\ attempts' = [l \in Levels |-> [s \in Subjects |->
             IF s = subject /\ l \in start..level /\ attempts[l][s] <= Budget[l]
             THEN attempts[l][s] + 1 ELSE attempts[l][s]]]
      /\ granted' = [l \in Levels |-> [s \in Subjects |->
             IF s = subject /\ l = level /\ action \in Recoveries
             THEN granted[l][s] + 1 ELSE granted[l][s]]]
      /\ entry' = [start |-> start, detected |-> failure.detected,
                   rebuilds |-> failure.rebuilds,
                   recovered |-> failure.detected /\ action \in Recoveries]
  BY DEF Handle, level, action
<1>4. /\ attempts' \in [Levels -> [Subjects -> Nat]]
      /\ granted' \in [Levels -> [Subjects -> Nat]]
  BY <1>3 DEF SupervisionInv, SupervisionAssumption
<1>5. ASSUME NEW l \in Levels, NEW s \in Subjects
      PROVE  /\ granted'[l][s] <= attempts'[l][s] /\ granted'[l][s] <= Budget[l]
             /\ granted'[l][s] # granted[l][s] =>
                   \A k \in entry'.start..(l - 1) : attempts[k][s] >= Budget[k]
  <2>1. CASE s = subject /\ l = level /\ action \in Recoveries
    <3>1. attempts[l][s] < Budget[l]
      BY <2>1, <1>2 DEF Exhausted, SupervisionInv, SupervisionAssumption
    <3>2. granted'[l][s] = granted[l][s] + 1 /\ attempts'[l][s] = attempts[l][s] + 1
      BY <3>1, <2>1, <1>2, <1>3 DEF SupervisionInv, SupervisionAssumption
    <3>3. \A k \in entry'.start..(l - 1) : attempts[k][s] >= Budget[k]
      BY <2>1, <1>2, <1>3 DEF Exhausted
    <3> QED BY <3>1, <3>2, <3>3 DEF SupervisionInv, SupervisionAssumption
  <2>2. CASE ~ (s = subject /\ l = level /\ action \in Recoveries)
    <3>1. granted'[l][s] = granted[l][s] /\ attempts'[l][s] >= attempts[l][s]
      BY <2>2, <1>3 DEF SupervisionInv
    <3> QED BY <3>1, <1>4 DEF SupervisionInv, SupervisionAssumption
  <2> QED BY <2>1, <2>2
<1>6. HonestReport'
  <2>1. SUFFICES ASSUME failure.detected, action \in Recoveries, failure.rebuilds
                 PROVE  FALSE
    BY <1>3 DEF HonestReport
  <2>2. action = "abort"
    BY <2>1, RebuildingIsImpossible DEF action, Answer
  <2> QED BY <2>1, <2>2 DEF Recoveries
<1> QED BY <1>4, <1>5, <1>6 DEF SupervisionInv

\* The invariant of the supervisor holds always.
LEMMA SupervisionInvariant == SupervisionSpec => []SupervisionInv
<1>1. SupervisionInit => SupervisionInv
  BY SupervisionAssumption
  DEF SupervisionInit, SupervisionInv, HonestReport, SupervisionAssumption
<1>2. SupervisionInv /\ [SupervisionNext]_supervisionVars => SupervisionInv'
  <2>1. SupervisionInv /\ SupervisionNext => SupervisionInv'
    BY HandleStep DEF SupervisionNext
  <2>2. SupervisionInv /\ UNCHANGED supervisionVars => SupervisionInv'
    BY DEF SupervisionInv, supervisionVars, HonestReport
  <2> QED BY <2>1, <2>2
<1> QED BY <1>1, <1>2, PTL DEF SupervisionSpec

(* Nothing is reported as recovered whose recovery would rebuild or         *)
(* duplicate unknown quantum state.                                         *)
LEMMA ReportIsHonest == SupervisionSpec => []HonestReport
<1>1. SupervisionInv => HonestReport
  BY DEF SupervisionInv
<1> QED BY <1>1, SupervisionInvariant, PTL

(* Every recovery stays within its level's budget, and comes after the      *)
(* levels below have used up theirs.                                        *)
LEMMA EscalationEarned == SupervisionSpec => EscalationIsEarned
<1>1. SupervisionInv /\ [SupervisionNext]_supervisionVars =>
          [\A l \in Levels, s \in Subjects :
              granted'[l][s] # granted[l][s] =>
                  /\ granted'[l][s] <= Budget[l]
                  /\ \A k \in entry'.start..(l - 1) :
                        attempts[k][s] >= Budget[k]]_supervisionVars
  BY HandleStep DEF SupervisionNext
<1> QED BY <1>1, SupervisionInvariant, PTL DEF SupervisionSpec, EscalationIsEarned

(* Whatever fails, wherever and however often: what is reported as          *)
(* recovered was detected and rebuilt nothing, and a level recovers within  *)
(* its budget once the levels below have used up theirs.                    *)
THEOREM RecoveriesAreEarned == SupervisionSpec => RecoveryIsEarned
<1> QED BY ReportIsHonest, EscalationEarned DEF RecoveryIsEarned
-----------------------------------------------------------------------------
(* Putting a value into a function, over what is there or under it.         *)
LEMMA PutFunction ==
    ASSUME NEW S, NEW V, NEW f \in [S -> V], NEW k, NEW v \in V
    PROVE  /\ Put(f, k, v) \in [S \cup {k} -> V]
           /\ Put(f, k, v)[k] = v
           /\ \A j \in S \ {k} : Put(f, k, v)[j] = f[j]
           /\ SetDefault(f, k, v) \in [S \cup {k} -> V]
           /\ \A j \in S : SetDefault(f, k, v)[j] = f[j]
           /\ k \notin S => SetDefault(f, k, v)[k] = v
  BY DEF Put, SetDefault, Over

(* What the journal and the live values hold while the transaction is open  *)
(* and after it: a key whose prior value was declared in time has that      *)
(* value in the journal, and a rollback copies the journal.                 *)
TransactionInv ==
    /\ TransactionTypeOK
    /\ \A k \in Touched \ blind : journal[k] = prior[k]
    /\ tstate = "ROLLED_BACK" => \A k \in Touched : live[k] = journal[k]
    /\ tstate # "ROLLED_BACK" =>
          \A k \in DOMAIN updates : live[k] = updates[k]

\* A transaction that was not begun meets the invariant.
LEMMA TransactionInitially == TransactionInit => TransactionInv
<1> SUFFICES ASSUME TransactionInit PROVE TransactionInv
  OBVIOUS
<1>1. /\ DOMAIN journal = {} /\ DOMAIN live = {} /\ DOMAIN updates = {}
      /\ DOMAIN quantum = {}
  BY DEF TransactionInit
<1>2. /\ journal \in [{} -> Values \cup {None}]
      /\ live \in [{} -> Values \cup {None}]
      /\ quantum \in [{} -> BOOLEAN]
  BY DEF TransactionInit
<1> QED
  BY <1>1, <1>2 DEF TransactionInit, TransactionInv, TransactionTypeOK, Touched

\* Each action of a transaction keeps its invariant: begin, ...
LEMMA BeginStep ==
    ASSUME TransactionInv, NEW snapshot \in SUBSET Keys, Begin(snapshot)
    PROVE  TransactionInv'
<1> DEFINE declared == [k \in snapshot |-> prior[k]]
           V == Values \cup {None}
<1>1. /\ declared \in [snapshot -> V] /\ \A k \in snapshot : declared[k] = prior[k]
      /\ journal \in [Touched -> V] /\ live \in [Touched -> V]
  BY DEF TransactionInv, TransactionTypeOK
<1>2. /\ journal' = Over(journal, declared) /\ live' = Over(declared, live)
      /\ updates' = [k \in DOMAIN updates \ snapshot |-> updates[k]]
      /\ tstate = "OPEN" /\ UNCHANGED <<tstate, quantum, prior, blind>>
  BY DEF Begin
<1> HIDE DEF declared
<1>3. /\ journal' \in [Touched \cup snapshot -> V]
      /\ \A k \in Touched : journal'[k] = journal[k]
      /\ \A k \in snapshot \ Touched : journal'[k] = prior[k]
  BY <1>1, <1>2 DEF Over
<1>4. /\ live' \in [Touched \cup snapshot -> V]
      /\ \A k \in snapshot : live'[k] = prior[k]
      /\ \A k \in Touched \ snapshot : live'[k] = live[k]
  <2>1. live' \in [snapshot \cup Touched -> V]
    BY <1>1, <1>2 DEF Over
  <2>2. snapshot \cup Touched = Touched \cup snapshot
    OBVIOUS
  <2> QED BY <1>1, <1>2, <2>1, <2>2 DEF Over
<1>5. Touched' = Touched \cup snapshot
  BY <1>3 DEF Touched
<1>6. TransactionTypeOK'
  BY <1>2, <1>3, <1>4, <1>5 DEF TransactionInv, TransactionTypeOK, Touched
<1>7. \A k \in Touched' \ blind' : journal'[k] = prior'[k]
  BY <1>2, <1>3, <1>5 DEF TransactionInv
<1>8. \A k \in DOMAIN updates' : live'[k] = updates'[k]
  BY <1>2, <1>4 DEF TransactionInv, TransactionTypeOK
<1> QED BY <1>2, <1>6, <1>7, <1>8 DEF TransactionInv

\* ... the record of a key, ...
LEMMA RecordStep ==
    ASSUME TransactionInv, NEW k \in Keys, RecordClassical(k)
    PROVE  TransactionInv'
<1> DEFINE V == Values \cup {None}
<1>1. /\ journal \in [Touched -> V] /\ live \in [Touched -> V] /\ prior[k] \in V
  BY DEF TransactionInv, TransactionTypeOK
<1>2. /\ journal' = SetDefault(journal, k, prior[k])
      /\ live' = Put(live, k, prior[k])
      /\ updates' = [j \in DOMAIN updates \ {k} |-> updates[j]]
      /\ tstate = "OPEN" /\ UNCHANGED <<tstate, quantum, prior, blind>>
  BY DEF RecordClassical
<1>3. /\ journal' \in [Touched \cup {k} -> V]
      /\ \A j \in Touched : journal'[j] = journal[j]
      /\ k \notin Touched => journal'[k] = prior[k]
  BY <1>1, <1>2 DEF Put, SetDefault, Over
<1>4. /\ live' \in [Touched \cup {k} -> V]
      /\ \A j \in Touched \ {k} : live'[j] = live[j]
  BY <1>1, <1>2 DEF Put, SetDefault, Over
<1>5. Touched' = Touched \cup {k}
  BY <1>3 DEF Touched
<1>6. TransactionTypeOK'
  BY <1>2, <1>3, <1>4, <1>5 DEF TransactionInv, TransactionTypeOK, Touched
<1>7. \A j \in Touched' \ blind' : journal'[j] = prior'[j]
  BY <1>2, <1>3, <1>5 DEF TransactionInv
<1>8. \A j \in DOMAIN updates' : live'[j] = updates'[j]
  BY <1>2, <1>4 DEF TransactionInv, TransactionTypeOK
<1> QED BY <1>2, <1>6, <1>7, <1>8 DEF TransactionInv

\* ... a write, ...
LEMMA WriteStep ==
    ASSUME TransactionInv, NEW k \in Keys, NEW v \in Values, Write(k, v)
    PROVE  TransactionInv'
<1> DEFINE V == Values \cup {None}
           before == IF k \in DOMAIN live THEN live[k] ELSE None
<1>1. /\ journal \in [Touched -> V] /\ live \in [Touched -> V]
      /\ before \in V /\ v \in V
  BY DEF TransactionInv, TransactionTypeOK
<1>2. /\ journal' = SetDefault(journal, k, before)
      /\ live' = Put(live, k, v)
      /\ updates' = Put(updates, k, v)
      /\ blind' = blind \cup ({k} \ Touched)
      /\ tstate = "OPEN" /\ UNCHANGED <<tstate, quantum, prior>>
  BY DEF Write, Touched
<1> HIDE DEF before
<1>3. /\ journal' \in [Touched \cup {k} -> V]
      /\ \A j \in Touched : journal'[j] = journal[j]
  BY <1>1, <1>2 DEF Put, SetDefault, Over
<1>4. /\ live' \in [Touched \cup {k} -> V]
      /\ live'[k] = v
      /\ \A j \in Touched \ {k} : live'[j] = live[j]
  BY <1>1, <1>2 DEF Put, SetDefault, Over
<1>5. Touched' = Touched \cup {k}
  BY <1>3 DEF Touched
<1>6. /\ DOMAIN updates' = DOMAIN updates \cup {k}
      /\ updates'[k] = v
      /\ \A j \in DOMAIN updates \ {k} : updates'[j] = updates[j]
  BY <1>2 DEF Put, Over
<1>7. TransactionTypeOK'
  BY <1>2, <1>3, <1>4, <1>5, <1>6 DEF TransactionInv, TransactionTypeOK, Touched
<1>8. \A j \in Touched' \ blind' : journal'[j] = prior'[j]
  BY <1>2, <1>3, <1>5 DEF TransactionInv
<1>9. \A j \in DOMAIN updates' : live'[j] = updates'[j]
  BY <1>2, <1>4, <1>6 DEF TransactionInv, TransactionTypeOK
<1> QED BY <1>2, <1>7, <1>8, <1>9 DEF TransactionInv

\* ... the registration of a quantum value, ...
LEMMA RegisterStep ==
    ASSUME TransactionInv, NEW q \in QuantumKeys, NEW known \in BOOLEAN,
           RegisterQuantum(q, known)
    PROVE  TransactionInv'
<1>1. quantum' \in [DOMAIN quantum \cup {q} -> BOOLEAN]
  BY PutFunction DEF RegisterQuantum, TransactionInv, TransactionTypeOK
<1> QED
  BY <1>1 DEF RegisterQuantum, TransactionInv, TransactionTypeOK, Touched

\* ... commit, ...
LEMMA CommitStep == TransactionInv /\ Commit => TransactionInv'
  BY DEF Commit, TransactionInv, TransactionTypeOK, Touched

\* ... and rollback.
LEMMA RollbackStep ==
    ASSUME TransactionInv, Rollback
    PROVE  TransactionInv'
<1>1. CASE UnknownQuantum # {}
  BY <1>1 DEF Rollback, TransactionInv, TransactionTypeOK, Touched
<1>2. CASE UnknownQuantum = {}
  <2> DEFINE V == Values \cup {None}
  <2>1. /\ tstate' = "ROLLED_BACK" /\ live' = Over(journal, live)
        /\ UNCHANGED <<journal, quantum, prior, blind, updates>>
    BY <1>2 DEF Rollback
  <2>2. journal \in [Touched -> V] /\ live \in [Touched -> V]
    BY DEF TransactionInv, TransactionTypeOK
  <2>3. /\ live' \in [Touched \cup Touched -> V]
        /\ \A k \in Touched : live'[k] = journal[k]
    BY <2>1, <2>2 DEF Over
  <2>4. Touched \cup Touched = Touched /\ Touched' = Touched
    BY <2>1 DEF Touched
  <2> QED BY <2>1, <2>3, <2>4 DEF TransactionInv, TransactionTypeOK, Touched
<1> QED BY <1>1, <1>2

\* The invariant of the transaction holds always.
LEMMA TransactionInvariant == TransactionSpec => []TransactionInv
<1>1. TransactionInv /\ [TransactionNext]_transactionVars => TransactionInv'
  <2>1. TransactionInv /\ TransactionNext => TransactionInv'
    BY BeginStep, RecordStep, WriteStep, RegisterStep, CommitStep, RollbackStep
    DEF TransactionNext
  <2>2. TransactionInv /\ UNCHANGED transactionVars => TransactionInv'
    BY DEF TransactionInv, TransactionTypeOK, Touched, transactionVars
  <2> QED BY <2>1, <2>2
<1> QED BY <1>1, TransactionInitially, PTL DEF TransactionSpec

(* Rolling back restores what was declared in time, whatever was written    *)
(* and declared in between; anything else keeps the last writes.            *)
THEOREM TransactionsRestore == TransactionSpec => []TransactionOutcome
<1>1. TransactionInv => TransactionOutcome
  BY DEF TransactionInv, TransactionOutcome, TransactionTypeOK
<1> QED BY <1>1, TransactionInvariant, PTL
-----------------------------------------------------------------------------
Sums == {<<"sum", b>> : b \in Blocks} \cup {<<"corrupt", 0>>}

(* An entry keeps, block by block, the checksum of the text of what was     *)
(* saved or the mark of a corruption, and quantum state only if it was      *)
(* declared known.                                                          *)
IsIntact(e) ==
    /\ e \in [object : Objects, sums : Seq(Sums), saved : Payloads,
              known : BOOLEAN]
    /\ Len(e.sums) = Len(Text[e.saved])
    /\ \A i \in 1..Len(e.sums) :
          e.sums[i] \in {<<"sum", Text[e.saved][i]>>, <<"corrupt", 0>>}
    /\ Quantum(e.saved) => e.known

CheckpointInv ==
    /\ heap \in [Objects -> Payloads]
    /\ \A id \in DOMAIN store : IsIntact(store[id])
    /\ LoadReturnsSaved

\* A text and its checksums are lists.
LEMMA PayloadFacts ==
    ASSUME NEW p \in Payloads
    PROVE  /\ Text[p] \in Seq(Blocks)
           /\ Checksums(p) \in Seq({<<"sum", b>> : b \in Blocks})
           /\ Len(Checksums(p)) = Len(Text[p])
           /\ \A i \in 1..Len(Text[p]) : Checksums(p)[i] = <<"sum", Text[p][i]>>
<1> DEFINE text == Text[p]
           sums == [i \in DOMAIN text |-> <<"sum", text[i]>>]
<1>1. text \in Seq(Blocks) /\ Checksums(p) = sums
  BY CheckpointAssumption DEF Checksums, CheckpointAssumption
<1> HIDE DEF text
<1>2. sums \in Seq({<<"sum", b>> : b \in Blocks}) /\ Len(sums) = Len(text)
  BY <1>1
<1>3. \A i \in 1..Len(text) : sums[i] = <<"sum", text[i]>>
  BY <1>1
<1> HIDE DEF sums
<1> QED BY <1>1, <1>2, <1>3 DEF text

\* Each action of the store keeps its invariant: a save, ...
LEMMA SaveStep ==
    ASSUME CheckpointInv, NEW id \in CheckpointIds, NEW o \in Objects,
           NEW prep \in BOOLEAN, NEW known \in BOOLEAN, Save(id, o, prep, known)
    PROVE  CheckpointInv'
<1>1. heap[o] \in Payloads
  BY DEF CheckpointInv
<1> DEFINE new == [object |-> o, sums |-> Checksums(heap[o]),
                   saved |-> heap[o], known |-> known]
<1>2. /\ store' = [j \in DOMAIN store \cup {id} |->
                     IF j = id THEN new ELSE store[j]]
      /\ UNCHANGED <<heap, loaded>> /\ (Quantum(heap[o]) => known)
  BY DEF Save
<1>3. IsIntact(new)
  <2>1. /\ Checksums(heap[o]) \in Seq({<<"sum", b>> : b \in Blocks})
        /\ Len(Checksums(heap[o])) = Len(Text[heap[o]])
        /\ \A i \in 1..Len(Text[heap[o]]) :
              Checksums(heap[o])[i] = <<"sum", Text[heap[o]][i]>>
    BY <1>1, PayloadFacts
  <2>2. Checksums(heap[o]) \in Seq(Sums)
    BY <2>1 DEF Sums
  <2> QED BY <1>1, <1>2, <2>1, <2>2 DEF IsIntact
<1> HIDE DEF new
<1>4. \A j \in DOMAIN store' : store'[j] = IF j = id THEN new ELSE store[j]
  BY <1>2
<1>5. DOMAIN store' = DOMAIN store \cup {id}
  BY <1>2
<1> QED BY <1>2, <1>3, <1>4, <1>5 DEF CheckpointInv, LoadReturnsSaved

\* ... a corruption, ...
LEMMA CorruptStep ==
    ASSUME CheckpointInv, NEW id \in DOMAIN store, NEW i \in DOMAIN store[id].sums,
           Corrupt(id, i)
    PROVE  CheckpointInv'
<1> DEFINE sums == store[id].sums
           text == Text[store[id].saved]
           damaged == [sums EXCEPT ![i] = <<"corrupt", 0>>]
<1>1. /\ id \in DOMAIN store /\ i \in DOMAIN sums
      /\ store' = [store EXCEPT ![id].sums = damaged]
      /\ UNCHANGED <<heap, loaded>>
  BY DEF Corrupt
<1>2. sums \in Seq(Sums) /\ Len(sums) = Len(text)
  BY <1>1 DEF CheckpointInv, IsIntact
<1>3. /\ damaged \in Seq(Sums) /\ Len(damaged) = Len(sums)
      /\ \A k \in 1..Len(sums) : damaged[k] \in {sums[k], <<"corrupt", 0>>}
  BY <1>1, <1>2 DEF Sums
<1>4. \A k \in 1..Len(sums) : sums[k] \in {<<"sum", text[k]>>, <<"corrupt", 0>>}
  BY <1>1 DEF CheckpointInv, IsIntact
<1> HIDE DEF damaged
<1>5. /\ store'[id] = [store[id] EXCEPT !.sums = damaged]
      /\ DOMAIN store' = DOMAIN store
      /\ \A j \in DOMAIN store \ {id} : store'[j] = store[j]
  BY <1>1
<1>6. \A j \in DOMAIN store \ {id} : IsIntact(store'[j])
  BY <1>5 DEF CheckpointInv
<1>7. IsIntact(store'[id])
  <2>1. /\ store[id] \in [object : Objects, sums : Seq(Sums),
                            saved : Payloads, known : BOOLEAN]
        /\ Quantum(store[id].saved) => store[id].known
    BY <1>1 DEF CheckpointInv, IsIntact
  <2>2. \A k \in 1..Len(damaged) : damaged[k] \in {<<"sum", text[k]>>, <<"corrupt", 0>>}
    BY <1>3, <1>4
  <2> QED BY <1>2, <1>3, <1>5, <2>1, <2>2 DEF IsIntact
<1> QED BY <1>1, <1>5, <1>6, <1>7 DEF CheckpointInv, LoadReturnsSaved

\* ... and a load.
LEMMA LoadStep ==
    ASSUME CheckpointInv, NEW id \in CheckpointIds, Load(id)
    PROVE  CheckpointInv'
<1> DEFINE e == store[id]
           found == heap[e.object]
           current == Text[found]
           text == Text[e.saved]
<1>1. /\ id \in DOMAIN store /\ Verified(id) /\ UNCHANGED <<heap, store>>
      /\ loaded' = [payload |-> found, saved |-> e.saved, known |-> e.known]
  BY DEF Load
<1>2. /\ found \in Payloads /\ e.saved \in Payloads
      /\ Len(e.sums) = Len(text) /\ e.sums \in Seq(Sums)
      /\ \A i \in 1..Len(e.sums) :
            e.sums[i] \in {<<"sum", text[i]>>, <<"corrupt", 0>>}
      /\ Quantum(e.saved) => e.known
  BY <1>1 DEF CheckpointInv, IsIntact
<1>3. /\ current \in Seq(Blocks) /\ text \in Seq(Blocks)
      /\ Checksums(found) \in Seq({<<"sum", b>> : b \in Blocks})
      /\ Len(Checksums(found)) = Len(current)
      /\ \A i \in 1..Len(current) : Checksums(found)[i] = <<"sum", current[i]>>
  BY <1>2, PayloadFacts
<1>4. /\ Len(Checksums(found)) = Len(e.sums)
      /\ \A i \in DOMAIN Checksums(found) \cap DOMAIN e.sums :
            Checksums(found)[i] = e.sums[i]
  BY <1>1 DEF Verified
<1> HIDE DEF current, text, found, e
<1>5. Len(current) = Len(text)
  BY <1>2, <1>3, <1>4
<1>6. ASSUME NEW i \in 1..Len(current) PROVE current[i] = text[i]
  <2>1. i \in DOMAIN Checksums(found) \cap DOMAIN e.sums /\ i \in 1..Len(e.sums)
    BY <1>2, <1>3, <1>4
  <2>2. <<"sum", current[i]>> = e.sums[i]
    BY <2>1, <1>3, <1>4
  <2>3. <<"sum", current[i]>> \in {<<"sum", text[i]>>, <<"corrupt", 0>>}
    BY <2>1, <2>2, <1>2
  <2> QED BY <2>3
<1>7. current = text
  <2>1. Len(current) \in Nat /\ current = [i \in 1..Len(current) |-> current[i]]
    BY <1>3
  <2>2. text = [i \in 1..Len(current) |-> text[i]]
    BY <1>3, <1>5
  <2> QED BY <2>1, <2>2, <1>6
<1> QED BY <1>1, <1>2, <1>7 DEF CheckpointInv, LoadReturnsSaved, e, current, text

\* The invariant of the checkpoint store holds always.
LEMMA CheckpointInvariant == CheckpointSpec => []CheckpointInv
<1>1. CheckpointInit => CheckpointInv
  BY DEF CheckpointInit, CheckpointInv, LoadReturnsSaved
<1>2. CheckpointInv /\ [CheckpointNext]_checkpointVars => CheckpointInv'
  <2>1. ASSUME CheckpointInv, NEW o \in Objects, NEW content \in Payloads,
               Mutate(o, content)
        PROVE  CheckpointInv'
    BY <2>1 DEF Mutate, CheckpointInv, LoadReturnsSaved
  <2>2. CheckpointInv /\ CheckpointNext => CheckpointInv'
    BY <2>1, SaveStep, CorruptStep, LoadStep DEF CheckpointNext
  <2>3. CheckpointInv /\ UNCHANGED checkpointVars => CheckpointInv'
    BY DEF CheckpointInv, LoadReturnsSaved, checkpointVars
  <2> QED BY <2>2, <2>3
<1> QED BY <1>1, <1>2, PTL DEF CheckpointSpec

(* A load that succeeds returns an object with the text of the one that was *)
(* saved, whatever became of it and of the stored blocks in the meantime.   *)
THEOREM LoadsAreFaithful == CheckpointSpec => []LoadReturnsSaved
<1>1. CheckpointInv => LoadReturnsSaved
  BY DEF CheckpointInv
<1> QED BY <1>1, CheckpointInvariant, PTL

-----------------------------------------------------------------------------
(* TimerWheel.  A timer is on the wheel until it is called, and an advance() *)
(* that is under way has only timers to call whose tick the clock has        *)
(* reached; unless advance() calls are nested it is the tick of the clock.   *)
Frame == [left : Nat, due : SUBSET (Nat \ {0})]

WheelTypeOK ==
    /\ now \in Nat
    /\ tick \in Seq(Nat) /\ called \in Seq(Nat) /\ Len(called) = Len(tick)
    /\ wheel \in [0..(Slots - 1) -> SUBSET (1..Len(tick))]
    /\ frames \in Seq(Frame) /\ busy \in BOOLEAN /\ nested \in BOOLEAN
    /\ zero \in SUBSET Nat /\ spoiled \in SUBSET Nat

OnWheelUntilCalled ==
    \A id \in 1..Len(tick) : called[id] = 0 <=> id \in wheel[tick[id] % Slots]

DueTimersAreDue ==
    \A i \in 1..Len(frames) : \A id \in frames[i].due :
        id \in 1..Len(tick) /\ tick[id] \in 1..now /\ (nested \/ tick[id] = now)

CalledInTime ==
    \A id \in 1..Len(tick) :
        called[id] # 0 => called[id] >= tick[id] /\ (nested \/ called[id] = tick[id])

NoneIsMissed ==
    \A id \in 1..Len(tick) :
        tick[id] <= now /\ called[id] = 0 =>
            id \in zero \/ id \in Taken \/ tick[id] \in spoiled

WheelInv ==
    /\ WheelTypeOK /\ OnWheelUntilCalled /\ DueTimersAreDue /\ CalledInTime /\ NoneIsMissed
    /\ ~ nested => Len(frames) <= 1
    /\ busy => frames # <<>>

(* The slot of a tick is one of the wheel.                                  *)
LEMMA SlotOfTick ==
    ASSUME WheelAssumption, NEW t \in Nat
    PROVE  t % Slots \in 0..(Slots - 1)
  BY DEF WheelAssumption

\* Each action of the wheel keeps its invariant: a schedule, ...
LEMMA ScheduleKeeps ==
    ASSUME WheelAssumption, WheelInv, NEW delay \in 0..(Slots - 1), Schedule(delay)
    PROVE  WheelInv'
<1> DEFINE id == Len(tick) + 1
           at == now + delay
<1>1. /\ tick' = Append(tick, at) /\ called' = Append(called, 0)
      /\ wheel' = [wheel EXCEPT ![at % Slots] = @ \cup {id}]
      /\ zero' = IF delay = 0 THEN zero \cup {id} ELSE zero
      /\ UNCHANGED <<now, frames, busy, spoiled, nested>>
  BY DEF Schedule
<1>2. /\ now \in Nat /\ tick \in Seq(Nat) /\ called \in Seq(Nat) /\ Len(called) = Len(tick)
      /\ wheel \in [0..(Slots - 1) -> SUBSET (1..Len(tick))]
      /\ zero \in SUBSET Nat /\ Len(tick) \in Nat
  BY DEF WheelInv, WheelTypeOK
<1>3. at \in Nat /\ at % Slots \in 0..(Slots - 1) /\ (at <= now => delay = 0)
  <2>1. at \in Nat /\ (at <= now => delay = 0)
    BY <1>2 DEF WheelAssumption
  <2> HIDE DEF at
  <2> QED BY <2>1, SlotOfTick
<1> HIDE DEF at
<1>4. /\ tick' \in Seq(Nat) /\ Len(tick') = id /\ tick'[id] = at
      /\ \A k \in 1..Len(tick) : tick'[k] = tick[k]
  BY <1>1, <1>2, <1>3, AppendProperties
<1>5. /\ called' \in Seq(Nat) /\ Len(called') = id /\ called'[id] = 0
      /\ \A k \in 1..Len(tick) : called'[k] = called[k]
  BY <1>1, <1>2, AppendProperties
<1>6. id \in Nat /\ id = Len(tick) + 1 /\ (\A k \in 1..id : k \in 1..Len(tick) \/ k = id)
      /\ (\A k \in 1..Len(tick) : k \in 1..id /\ k # id) /\ id \in 1..id
  BY <1>2
<1> HIDE DEF id
<1>7. WheelTypeOK'
  <2>1. wheel' \in [0..(Slots - 1) -> SUBSET (1..id)]
    BY <1>1, <1>2, <1>3, <1>6
  <2>2. zero' \in SUBSET Nat
    BY <1>1, <1>2, <1>6
  <2> QED BY <1>1, <1>4, <1>5, <2>1, <2>2 DEF WheelInv, WheelTypeOK
<1>8. \A s \in 0..(Slots - 1) : wheel'[s] = IF s = at % Slots THEN wheel[s] \cup {id} ELSE wheel[s]
  BY <1>1, <1>2, <1>3
<1>9. id \in wheel'[at % Slots]
  BY <1>3, <1>8
<1>10. \A k \in 1..Len(tick) :
          k \in wheel'[tick[k] % Slots] <=> k \in wheel[tick[k] % Slots]
  <2> TAKE k \in 1..Len(tick)
  <2>1. tick[k] \in Nat
    BY <1>2
  <2>2. tick[k] % Slots \in 0..(Slots - 1)
    BY <2>1, SlotOfTick
  <2> QED BY <2>2, <1>6, <1>8
<1>11. OnWheelUntilCalled'
  <2>1. ASSUME NEW k \in 1..id
        PROVE  called'[k] = 0 <=> k \in wheel'[tick'[k] % Slots]
    <3>1. CASE k = id
      BY <3>1, <1>4, <1>5, <1>9
    <3>2. CASE k \in 1..Len(tick)
      <4>1. called[k] = 0 <=> k \in wheel[tick[k] % Slots]
        BY <3>2 DEF WheelInv, OnWheelUntilCalled
      <4> QED BY <3>2, <4>1, <1>4, <1>5, <1>10
    <3> QED BY <3>1, <3>2, <1>6
  <2> QED BY <2>1, <1>4 DEF OnWheelUntilCalled
<1>12. DueTimersAreDue'
  BY <1>1, <1>4, <1>6 DEF WheelInv, DueTimersAreDue
<1>13. CalledInTime'
  <2>1. ASSUME NEW k \in 1..id, called'[k] # 0
        PROVE  called'[k] >= tick'[k] /\ (nested' \/ called'[k] = tick'[k])
    <3>1. k \in 1..Len(tick)
      BY <2>1, <1>5, <1>6
    <3> QED BY <2>1, <3>1, <1>1, <1>4, <1>5 DEF WheelInv, CalledInTime
  <2> QED BY <2>1, <1>4 DEF CalledInTime
<1>14. NoneIsMissed'
  <2>1. ASSUME NEW k \in 1..id, tick'[k] <= now', called'[k] = 0
        PROVE  k \in zero' \/ k \in Taken' \/ tick'[k] \in spoiled'
    <3>1. CASE k = id
      BY <2>1, <3>1, <1>1, <1>3, <1>4
    <3>2. CASE k \in 1..Len(tick)
      <4>1. k \in zero \/ k \in Taken \/ tick[k] \in spoiled
        BY <2>1, <3>2, <1>1, <1>4, <1>5 DEF WheelInv, NoneIsMissed
      <4>2. Taken' = Taken
        BY <1>1 DEF Taken
      <4> QED BY <3>2, <4>1, <4>2, <1>1, <1>4
    <3> QED BY <3>1, <3>2, <1>6
  <2> QED BY <2>1, <1>4 DEF NoneIsMissed
<1> QED BY <1>1, <1>7, <1>11, <1>12, <1>13, <1>14 DEF WheelInv

(* The frames once the innermost one is replaced or another is within it.   *)
LEMMA FrameOnTop ==
    ASSUME NEW top \in Frame, NEW rest \in Seq(Frame)
    PROVE  LET all == <<top>> \o rest
           IN  /\ all \in Seq(Frame) /\ Len(all) = Len(rest) + 1 /\ Len(rest) \in Nat
               /\ all[1] = top /\ \A i \in 1..Len(rest) : all[i + 1] = rest[i]
               /\ \A i \in 1..Len(all) : i = 1 \/ (i - 1 \in 1..Len(rest) /\ all[i] = rest[i - 1])
<1> DEFINE all == <<top>> \o rest
<1>1. /\ all \in Seq(Frame) /\ Len(all) = Len(rest) + 1 /\ Len(rest) \in Nat
      /\ all[1] = top
  OBVIOUS
<1>2. ASSUME NEW i \in 2..Len(all) PROVE i - 1 \in 1..Len(rest) /\ all[i] = rest[i - 1]
  OBVIOUS
<1> HIDE DEF all
<1>3. \A i \in 1..Len(rest) : i + 1 \in 2..Len(all) /\ (i + 1) - 1 = i
  BY <1>1
<1>4. \A i \in 1..Len(all) : i = 1 \/ i \in 2..Len(all)
  BY <1>1
<1> QED BY <1>1, <1>2, <1>3, <1>4 DEF all

\* ... the start of an advance, ...
LEMMA AdvanceKeeps ==
    ASSUME WheelAssumption, WheelInv, NEW n \in 1..MaxTicks, Advance(n)
    PROVE  WheelInv'
<1> DEFINE top == [left |-> n, due |-> {}]
           all == <<top>> \o frames
<1>1. /\ frames' = all /\ busy' = FALSE /\ nested' = (nested \/ frames # <<>>)
      /\ UNCHANGED <<now, wheel, tick, called, zero, spoiled>>
  BY DEF Advance
<1>2. top \in Frame /\ frames \in Seq(Frame)
  BY DEF WheelAssumption, WheelInv, WheelTypeOK, Frame
<1>3. top.due = {}
  OBVIOUS
<1> HIDE DEF top
<1>4. /\ all \in Seq(Frame) /\ Len(all) = Len(frames) + 1 /\ Len(frames) \in Nat
      /\ all[1] = top /\ \A i \in 1..Len(frames) : all[i + 1] = frames[i]
      /\ \A i \in 1..Len(all) : i = 1 \/ (i - 1 \in 1..Len(frames) /\ all[i] = frames[i - 1])
  BY <1>2, FrameOnTop
<1>5. DOMAIN all = 1..Len(all) /\ DOMAIN frames = 1..Len(frames)
      /\ \A i \in 1..Len(frames) : i + 1 \in 1..Len(all)
  BY <1>2, <1>4
<1> HIDE DEF all
<1>6. WheelTypeOK'
  BY <1>1, <1>4 DEF WheelInv, WheelTypeOK
<1>7. DueTimersAreDue'
  <2>1. ASSUME NEW i \in 1..Len(all), NEW id \in all[i].due
        PROVE  id \in 1..Len(tick) /\ tick[id] \in 1..now /\ (nested' \/ tick[id] = now)
    <3>1. i - 1 \in 1..Len(frames) /\ id \in frames[i - 1].due
      BY <2>1, <1>3, <1>4
    <3> QED BY <3>1, <1>1 DEF WheelInv, DueTimersAreDue
  <2> QED BY <2>1, <1>1 DEF DueTimersAreDue
<1>8. \A id \in Taken : id \in Taken'
  <2> TAKE id \in Taken
  <2>1. PICK i \in 1..Len(frames) : id \in frames[i].due
    BY <1>5 DEF Taken
  <2>2. i + 1 \in DOMAIN all /\ id \in all[i + 1].due
    BY <2>1, <1>4, <1>5
  <2> QED BY <2>2, <1>1 DEF Taken
<1>9. NoneIsMissed'
  BY <1>1, <1>8 DEF WheelInv, NoneIsMissed
<1>10. OnWheelUntilCalled' /\ CalledInTime'
  BY <1>1 DEF WheelInv, OnWheelUntilCalled, CalledInTime
<1>11. ~ nested' => Len(frames') <= 1
  <2>1. ~ nested' => frames = <<>>
    BY <1>1
  <2>2. frames = <<>> => Len(frames) = 0
    OBVIOUS
  <2>3. frames = <<>> => Len(frames') <= 1
    BY <2>2, <1>1, <1>4
  <2> QED BY <2>1, <2>3
<1> QED BY <1>1, <1>6, <1>7, <1>9, <1>10, <1>11 DEF WheelInv

(* What the innermost frame and the ones around it are.                     *)
LEMMA InnermostFrame ==
    ASSUME WheelInv, Running
    PROVE  /\ frames \in Seq(Frame) /\ frames # <<>>
           /\ Len(frames) \in Nat /\ 1 \in 1..Len(frames) /\ DOMAIN frames = 1..Len(frames)
           /\ Head(frames) = frames[1] /\ frames[1] \in Frame
           /\ frames[1].left \in Nat /\ frames[1].due \in SUBSET (Nat \ {0})
           /\ Tail(frames) \in Seq(Frame) /\ Len(Tail(frames)) = Len(frames) - 1
           /\ \A i \in 1..(Len(frames) - 1) : Tail(frames)[i] = frames[i + 1]
<1>1. frames \in Seq(Frame) /\ frames # <<>>
  BY DEF WheelInv, WheelTypeOK, Running
<1>2. frames[1] \in Frame
  BY <1>1
<1>3. frames[1].left \in Nat /\ frames[1].due \in SUBSET (Nat \ {0})
  BY <1>2 DEF Frame
<1> QED BY <1>1, <1>2, <1>3

\* ... the next tick, ...
LEMMA NextTickKeeps ==
    ASSUME WheelAssumption, WheelInv, NextTick
    PROVE  WheelInv'
<1> DEFINE rest == Tail(frames)
           top == [left |-> Head(frames).left - 1, due |-> Due(now + 1)]
           all == <<top>> \o rest
<1>1. /\ Running /\ Head(frames).due = {} /\ Head(frames).left > 0
      /\ now' = now + 1 /\ frames' = all
      /\ UNCHANGED <<wheel, tick, busy, called, zero, spoiled, nested>>
  BY DEF NextTick
<1>2. /\ now \in Nat /\ tick \in Seq(Nat) /\ called \in Seq(Nat) /\ Len(called) = Len(tick)
      /\ wheel \in [0..(Slots - 1) -> SUBSET (1..Len(tick))]
      /\ Len(tick) \in Nat
  BY DEF WheelInv, WheelTypeOK
<1>3. /\ rest \in Seq(Frame) /\ Len(rest) = Len(frames) - 1 /\ Len(frames) \in Nat
      /\ DOMAIN frames = 1..Len(frames) /\ frames # <<>>
      /\ \A i \in 1..(Len(frames) - 1) : rest[i] = frames[i + 1]
      /\ frames[1].due = {} /\ frames[1].left - 1 \in Nat
      /\ Head(frames) = frames[1]
  BY <1>1, InnermostFrame
<1>4. (now + 1) % Slots \in 0..(Slots - 1)
  <2>1. now + 1 \in Nat
    BY <1>2
  <2> QED BY <2>1, SlotOfTick
<1>5. \A id : id \in Due(now + 1) <=>
         id \in wheel[(now + 1) % Slots] /\ tick[id] = now + 1
  BY DEF Due
<1>6. Due(now + 1) \in SUBSET (Nat \ {0})
  BY <1>2, <1>4, <1>5
<1>7. top \in Frame
  BY <1>3, <1>6 DEF Frame
<1>8. top.due = Due(now + 1)
  OBVIOUS
<1> HIDE DEF top, rest
<1>9. /\ all \in Seq(Frame) /\ Len(all) = Len(rest) + 1 /\ Len(rest) \in Nat
      /\ all[1] = top /\ \A i \in 1..Len(rest) : all[i + 1] = rest[i]
      /\ \A i \in 1..Len(all) : i = 1 \/ (i - 1 \in 1..Len(rest) /\ all[i] = rest[i - 1])
  BY <1>3, <1>7, FrameOnTop
<1>10. DOMAIN all = 1..Len(all) /\ Len(all) = Len(frames)
  BY <1>3, <1>9
<1> HIDE DEF all
<1>11. ASSUME NEW i \in 1..Len(frames) PROVE i = 1 \/ all[i] = frames[i]
  <2> SUFFICES ASSUME i # 1 PROVE all[i] = frames[i]
    OBVIOUS
  <2>1. i - 1 \in 1..(Len(frames) - 1) /\ all[i] = rest[i - 1] /\ (i - 1) + 1 = i
    BY <1>3, <1>9, <1>10
  <2> QED BY <2>1, <1>3
<1>12. WheelTypeOK'
  BY <1>1, <1>2, <1>9 DEF WheelInv, WheelTypeOK
<1>13. ~ nested => Len(frames) = 1
  <2>1. Len(frames) # 0
    BY <1>3
  <2> QED BY <2>1, <1>3 DEF WheelInv
<1>14. DueTimersAreDue'
  <2>1. ASSUME NEW i \in 1..Len(all), NEW id \in all[i].due
        PROVE  id \in 1..Len(tick) /\ tick[id] \in 1..(now + 1)
               /\ (nested \/ tick[id] = now + 1)
    <3>1. CASE i = 1
      <4>1. id \in Due(now + 1)
        BY <2>1, <3>1, <1>8, <1>9
      <4>2. id \in wheel[(now + 1) % Slots] /\ tick[id] = now + 1
        BY <4>1, <1>5
      <4> QED BY <4>2, <1>2, <1>4
    <3>2. CASE i # 1
      <4>1. id \in frames[i].due /\ i \in 1..Len(frames)
        BY <2>1, <3>2, <1>10, <1>11
      <4>2. id \in 1..Len(tick) /\ tick[id] \in 1..now
        BY <4>1 DEF WheelInv, DueTimersAreDue
      <4>3. nested
        BY <3>2, <4>1, <1>13
      <4> QED BY <4>2, <4>3, <1>2
    <3> QED BY <3>1, <3>2
  <2> QED BY <2>1, <1>1 DEF DueTimersAreDue
<1>15. \A id \in Taken : id \in Taken'
  <2> TAKE id \in Taken
  <2>1. PICK i \in 1..Len(frames) : id \in frames[i].due
    BY <1>3 DEF Taken
  <2>2. i # 1
    BY <2>1, <1>3
  <2>3. i \in DOMAIN all /\ id \in all[i].due
    BY <2>1, <2>2, <1>10, <1>11
  <2> QED BY <2>3, <1>1 DEF Taken
<1>16. \A id \in Due(now + 1) : id \in Taken'
  <2>1. 1 \in DOMAIN all /\ all[1].due = Due(now + 1)
    <3>1. Len(frames) # 0
      BY <1>3
    <3> QED BY <3>1, <1>3, <1>8, <1>9, <1>10
  <2> QED BY <2>1, <1>1 DEF Taken
<1>17. NoneIsMissed'
  <2>1. ASSUME NEW id \in 1..Len(tick), tick[id] <= now + 1, called[id] = 0
        PROVE  id \in zero \/ id \in Taken' \/ tick[id] \in spoiled
    <3>1. CASE tick[id] <= now
      BY <2>1, <3>1, <1>15 DEF WheelInv, NoneIsMissed
    <3>2. CASE tick[id] = now + 1
      <4>1. id \in wheel[(now + 1) % Slots]
        BY <2>1, <3>2 DEF WheelInv, OnWheelUntilCalled
      <4> QED BY <3>2, <4>1, <1>5, <1>16
    <3>3. tick[id] \in Nat
      BY <1>2
    <3> QED BY <2>1, <3>1, <3>2, <3>3, <1>2
  <2> QED BY <2>1, <1>1 DEF NoneIsMissed
<1>18. OnWheelUntilCalled' /\ CalledInTime'
  BY <1>1 DEF WheelInv, OnWheelUntilCalled, CalledInTime
<1>19. frames' # <<>>
  BY <1>1, <1>3, <1>9
<1> QED BY <1>1, <1>10, <1>12, <1>14, <1>17, <1>18, <1>19 DEF WheelInv

\* ... a callback, ...
LEMMA CallKeeps ==
    ASSUME WheelAssumption, WheelInv, Call
    PROVE  WheelInv'
<1> DEFINE due == frames[1].due
           id == Min(due)
           slot == tick[id] % Slots
           top == [frames[1] EXCEPT !.due = due \ {id}]
<1>1. /\ frames \in Seq(Frame) /\ frames # <<>> /\ Len(frames) \in Nat
      /\ 1 \in 1..Len(frames) /\ DOMAIN frames = 1..Len(frames)
      /\ Head(frames) = frames[1] /\ frames[1] \in Frame
      /\ due \in SUBSET (Nat \ {0})
  BY InnermostFrame DEF Call
<1>2. /\ due # {}
      /\ wheel' = [wheel EXCEPT ![slot] = @ \ {id}] /\ called' = [called EXCEPT ![id] = now]
      /\ frames' = [frames EXCEPT ![1].due = @ \ {id}] /\ busy' = TRUE
      /\ UNCHANGED <<now, tick, zero, spoiled, nested>>
  BY <1>1 DEF Call
<1>3. /\ now \in Nat /\ tick \in Seq(Nat) /\ called \in Seq(Nat) /\ Len(called) = Len(tick)
      /\ wheel \in [0..(Slots - 1) -> SUBSET (1..Len(tick))]
      /\ Len(tick) \in Nat
  BY DEF WheelInv, WheelTypeOK
<1>4. id \in due
  <2>1. due \subseteq Nat
    BY <1>1
  <2>2. \E k \in due : \A m \in due : k <= m
    <3> HIDE DEF due
    <3> QED BY <2>1, <1>2, LeastNatural
  <2> HIDE DEF due
  <2> QED BY <2>2 DEF Min
<1>5. id \in 1..Len(tick) /\ tick[id] \in 1..now /\ (nested \/ tick[id] = now)
  BY <1>1, <1>4 DEF WheelInv, DueTimersAreDue
<1>6. /\ top \in Frame /\ top.due = due \ {id}
  <2>1. top = [left |-> frames[1].left, due |-> due \ {id}]
    <3> DEFINE f == frames[1]
               later == due \ {id}
    <3>1. f \in Frame
      BY <1>1
    <3> HIDE DEF f, later
    <3>2. [f EXCEPT !.due = later] = [left |-> f.left, due |-> later]
      BY <3>1 DEF Frame
    <3> QED BY <3>2 DEF f, later
  <2>2. frames[1].left \in Nat
    BY <1>1 DEF Frame
  <2> HIDE DEF id, top, due
  <2> QED BY <2>1, <2>2, <1>1 DEF Frame
<1>7. frames' = [frames EXCEPT ![1] = top]
  BY <1>2
<1> HIDE DEF id, top, due
<1>8. /\ frames' \in Seq(Frame) /\ Len(frames') = Len(frames) /\ frames'[1] = top
      /\ \A i \in 1..Len(frames) : i # 1 => frames'[i] = frames[i]
  BY <1>1, <1>6, <1>7, ExceptSeq
<1>9. \A i \in 1..Len(frames) : \A k : k \in frames'[i].due => k \in frames[i].due
  BY <1>6, <1>8 DEF due
<1>10. slot \in 0..(Slots - 1)
  <2>1. tick[id] \in Nat
    BY <1>3, <1>5
  <2> QED BY <2>1, SlotOfTick
<1>11. \A s \in 0..(Slots - 1) : wheel'[s] = IF s = slot THEN wheel[s] \ {id} ELSE wheel[s]
  BY <1>2, <1>3, <1>10
<1>12. /\ called' \in Seq(Nat) /\ Len(called') = Len(tick) /\ called'[id] = now
       /\ \A k \in 1..Len(tick) : k # id => called'[k] = called[k]
  BY <1>2, <1>3, <1>5, ExceptSeq
<1>13. WheelTypeOK'
  <2>1. wheel' \in [0..(Slots - 1) -> SUBSET (1..Len(tick))]
    BY <1>2, <1>3
  <2> QED BY <1>2, <1>3, <1>8, <1>12, <2>1 DEF WheelInv, WheelTypeOK
<1>14. OnWheelUntilCalled'
  <2>1. ASSUME NEW k \in 1..Len(tick)
        PROVE  called'[k] = 0 <=> k \in wheel'[tick[k] % Slots]
    <3>1. tick[k] % Slots \in 0..(Slots - 1)
      <4>1. tick[k] \in Nat
        BY <1>3
      <4> QED BY <4>1, SlotOfTick
    <3>2. CASE k = id
      <4>1. now # 0
        BY <1>3, <1>5
      <4> QED BY <3>2, <4>1, <1>10, <1>11, <1>12
    <3>3. CASE k # id
      <4>1. called[k] = 0 <=> k \in wheel[tick[k] % Slots]
        BY DEF WheelInv, OnWheelUntilCalled
      <4> QED BY <3>1, <3>3, <4>1, <1>11, <1>12
    <3> QED BY <3>2, <3>3
  <2> QED BY <2>1, <1>2 DEF OnWheelUntilCalled
<1>15. DueTimersAreDue'
  <2>1. ASSUME NEW i \in 1..Len(frames), NEW k \in frames'[i].due
        PROVE  k \in 1..Len(tick) /\ tick[k] \in 1..now /\ (nested \/ tick[k] = now)
    BY <2>1, <1>9 DEF WheelInv, DueTimersAreDue
  <2> QED BY <2>1, <1>2, <1>8 DEF DueTimersAreDue
<1>16. CalledInTime'
  <2>1. ASSUME NEW k \in 1..Len(tick), called'[k] # 0
        PROVE  called'[k] >= tick[k] /\ (nested \/ called'[k] = tick[k])
    <3>1. CASE k = id
      BY <3>1, <1>3, <1>5, <1>12
    <3>2. CASE k # id
      BY <2>1, <3>2, <1>12 DEF WheelInv, CalledInTime
    <3> QED BY <3>1, <3>2
  <2> QED BY <2>1, <1>2 DEF CalledInTime
<1>17. \A k \in Taken : k = id \/ k \in Taken'
  <2> TAKE k \in Taken
  <2>1. PICK i \in 1..Len(frames) : k \in frames[i].due
    BY <1>1 DEF Taken
  <2>2. k = id \/ k \in frames'[i].due
    BY <2>1, <1>6, <1>8 DEF due
  <2>3. DOMAIN frames' = 1..Len(frames)
    BY <1>8
  <2> QED BY <2>1, <2>2, <2>3 DEF Taken
<1>18. NoneIsMissed'
  <2>1. ASSUME NEW k \in 1..Len(tick), tick[k] <= now, called'[k] = 0
        PROVE  k \in zero \/ k \in Taken' \/ tick[k] \in spoiled
    <3>1. k # id
      BY <2>1, <1>3, <1>5, <1>12
    <3> QED BY <2>1, <3>1, <1>12, <1>17 DEF WheelInv, NoneIsMissed
  <2> QED BY <2>1, <1>2 DEF NoneIsMissed
<1>19. frames' # <<>>
  <2>1. Len(frames') # 0
    BY <1>1, <1>8
  <2> QED BY <2>1
<1>20. ~ nested' => Len(frames') <= 1
  BY <1>2, <1>8 DEF WheelInv
<1> QED BY <1>13, <1>14, <1>15, <1>16, <1>18, <1>19, <1>20 DEF WheelInv

\* ... one that raises, ...
LEMMA RaiseKeeps ==
    ASSUME WheelInv, CallbackRaises
    PROVE  WheelInv'
<1>1. /\ frames' = <<>> /\ busy' = FALSE
      /\ spoiled' = spoiled \cup {tick[id] : id \in Taken}
      /\ UNCHANGED <<now, wheel, tick, called, zero, nested>>
  BY DEF CallbackRaises
<1>2. \A id \in Taken : id \in 1..Len(tick) /\ tick[id] \in Nat
  <2> TAKE id \in Taken
  <2>1. DOMAIN frames = 1..Len(frames) /\ tick \in Seq(Nat)
    BY DEF WheelInv, WheelTypeOK
  <2>2. PICK i \in 1..Len(frames) : id \in frames[i].due
    BY <2>1 DEF Taken
  <2>3. id \in 1..Len(tick)
    BY <2>2 DEF WheelInv, DueTimersAreDue
  <2> QED BY <2>1, <2>3
<1>3. spoiled' \in SUBSET Nat
  BY <1>1, <1>2 DEF WheelInv, WheelTypeOK
<1>4. Len(frames') = 0 /\ frames' \in Seq(Frame)
  BY <1>1
<1>5. WheelTypeOK'
  BY <1>1, <1>3, <1>4 DEF WheelInv, WheelTypeOK
<1>6. NoneIsMissed'
  BY <1>1 DEF WheelInv, NoneIsMissed
<1>7. OnWheelUntilCalled' /\ CalledInTime'
  BY <1>1 DEF WheelInv, OnWheelUntilCalled, CalledInTime
<1>8. DueTimersAreDue'
  BY <1>4 DEF DueTimersAreDue
<1> QED BY <1>1, <1>4, <1>5, <1>6, <1>7, <1>8 DEF WheelInv

\* ... and the return of advance.
LEMMA ReturnKeeps ==
    ASSUME WheelInv, AdvanceReturns
    PROVE  WheelInv'
<1> DEFINE rest == Tail(frames)
<1>1. /\ Running /\ Head(frames).due = {} /\ frames' = rest
      /\ busy' = (Len(frames) > 1)
      /\ UNCHANGED <<now, wheel, tick, called, zero, spoiled, nested>>
  BY DEF AdvanceReturns
<1>2. /\ rest \in Seq(Frame) /\ Len(rest) = Len(frames) - 1 /\ Len(frames) \in Nat
      /\ DOMAIN frames = 1..Len(frames)
      /\ \A i \in 1..(Len(frames) - 1) : rest[i] = frames[i + 1]
      /\ frames[1].due = {}
  BY <1>1, InnermostFrame
<1>3. DOMAIN rest = 1..(Len(frames) - 1)
  BY <1>2
<1> HIDE DEF rest
<1>4. WheelTypeOK'
  <2>1. busy' \in BOOLEAN
    BY <1>1
  <2> QED BY <1>1, <1>2, <2>1 DEF WheelInv, WheelTypeOK
<1>5. DueTimersAreDue'
  <2>1. ASSUME NEW i \in 1..(Len(frames) - 1), NEW id \in rest[i].due
        PROVE  id \in 1..Len(tick) /\ tick[id] \in 1..now /\ (nested \/ tick[id] = now)
    <3>1. i + 1 \in 1..Len(frames) /\ id \in frames[i + 1].due
      BY <2>1, <1>2
    <3> QED BY <3>1 DEF WheelInv, DueTimersAreDue
  <2> QED BY <2>1, <1>1, <1>2 DEF DueTimersAreDue
<1>6. \A id \in Taken : id \in Taken'
  <2> TAKE id \in Taken
  <2>1. PICK i \in 1..Len(frames) : id \in frames[i].due
    BY <1>2 DEF Taken
  <2>2. i # 1
    BY <2>1, <1>2
  <2>3. i - 1 \in 1..(Len(frames) - 1) /\ (i - 1) + 1 = i
    BY <2>1, <2>2, <1>2
  <2>4. i - 1 \in DOMAIN rest /\ id \in rest[i - 1].due
    BY <2>1, <2>3, <1>2, <1>3
  <2> QED BY <2>4, <1>1 DEF Taken
<1>7. NoneIsMissed'
  BY <1>1, <1>6 DEF WheelInv, NoneIsMissed
<1>8. OnWheelUntilCalled' /\ CalledInTime'
  BY <1>1 DEF WheelInv, OnWheelUntilCalled, CalledInTime
<1>9. ~ nested' => Len(frames') <= 1
  BY <1>1, <1>2 DEF WheelInv
<1>10. busy' => frames' # <<>>
  <2>1. busy' => Len(frames) > 1
    BY <1>1
  <2>2. busy' => Len(rest) # 0
    BY <2>1, <1>2
  <2> QED BY <2>2, <1>1
<1> QED BY <1>4, <1>5, <1>7, <1>8, <1>9, <1>10 DEF WheelInv

\* The invariant of the wheel holds always.
LEMMA WheelInvariant == WheelSpec => []WheelInv
<1>1. WheelInit => WheelInv
  <2> SUFFICES ASSUME WheelInit PROVE WheelInv
    OBVIOUS
  <2>1. Len(tick) = 0 /\ Len(called) = 0 /\ Len(frames) = 0 /\ busy = FALSE
    BY DEF WheelInit
  <2>2. WheelTypeOK
    <3>1. wheel \in [0..(Slots - 1) -> SUBSET (1..Len(tick))]
      BY DEF WheelInit
    <3>2. tick \in Seq(Nat) /\ called \in Seq(Nat) /\ frames \in Seq(Frame)
      BY DEF WheelInit
    <3>3. now \in Nat /\ zero \in SUBSET Nat /\ spoiled \in SUBSET Nat
      BY DEF WheelInit
    <3>4. busy \in BOOLEAN /\ nested \in BOOLEAN
      BY Zenon DEF WheelInit
    <3> QED BY <2>1, <3>1, <3>2, <3>3, <3>4 DEF WheelTypeOK
  <2> QED BY <2>1, <2>2
      DEF WheelInv, OnWheelUntilCalled, DueTimersAreDue, CalledInTime, NoneIsMissed
<1>2. WheelInv /\ [WheelNext]_wheelVars => WheelInv'
  <2> SUFFICES ASSUME WheelInv, [WheelNext]_wheelVars PROVE WheelInv'
    OBVIOUS
  <2>1. ASSUME NEW delay \in 0..Slots - 1, Schedule(delay) PROVE WheelInv'
    BY <2>1, ScheduleKeeps, WheelAssumption
  <2>2. ASSUME NEW n \in 1..MaxTicks, Advance(n) PROVE WheelInv'
    BY <2>2, AdvanceKeeps, WheelAssumption
  <2>3. CASE NextTick
    BY <2>3, NextTickKeeps, WheelAssumption
  <2>4. CASE Call
    BY <2>4, CallKeeps, WheelAssumption
  <2>5. CASE CallbackReturns \/ UNCHANGED wheelVars
    <3>1. UNCHANGED <<now, wheel, tick, frames, called, zero, spoiled, nested>>
          /\ (busy' = FALSE \/ busy' = busy)
      BY <2>5 DEF CallbackReturns, wheelVars
    <3>2. Taken' = Taken
      BY <3>1 DEF Taken
    <3>3. WheelTypeOK' /\ (busy' => busy)
      <4>1. busy \in BOOLEAN
        BY DEF WheelInv, WheelTypeOK
      <4>2. busy' \in BOOLEAN /\ (busy' => busy)
        <5>1. CASE busy' = FALSE
          BY <5>1, Zenon
        <5>2. CASE busy' = busy
          BY <4>1, <5>2, Zenon
        <5> QED BY <3>1, <5>1, <5>2
      <4> QED BY <3>1, <4>2 DEF WheelInv, WheelTypeOK
    <3> QED BY <3>1, <3>2, <3>3
        DEF WheelInv, OnWheelUntilCalled, DueTimersAreDue, CalledInTime, NoneIsMissed
  <2>6. CASE CallbackRaises
    BY <2>6, RaiseKeeps
  <2>7. CASE AdvanceReturns
    BY <2>7, ReturnKeeps
  <2> QED BY <2>1, <2>2, <2>3, <2>4, <2>5, <2>6, <2>7 DEF WheelNext
<1> QED BY <1>1, <1>2, PTL DEF WheelSpec

(* No timer is called before its tick or, unless a callback advanced the     *)
(* wheel, after it, none is called twice, and none whose tick has passed is  *)
(* left uncalled, but for a delay of 0 and a callback that raised: whatever  *)
(* the callbacks schedule while the slot is gone through (TimerWheel).       *)
THEOREM TimersAreOnTime == WheelSpec => []TimersFireOnTime
<1>1. WheelInv => TimersFireOnTime
  <2> SUFFICES ASSUME WheelInv, NEW id \in DOMAIN tick
               PROVE  /\ called[id] # 0 => called[id] >= tick[id]
                                           /\ (nested \/ called[id] = tick[id])
                                           /\ id \notin wheel[tick[id] % Slots]
                      /\ tick[id] <= now /\ id \notin zero \cup Taken
                         /\ tick[id] \notin spoiled => called[id] # 0
    BY DEF TimersFireOnTime
  <2>1. id \in 1..Len(tick)
    BY DEF WheelInv, WheelTypeOK
  <2> QED BY <2>1 DEF WheelInv, OnWheelUntilCalled, CalledInTime, NoneIsMissed
<1> QED BY <1>1, WheelInvariant, PTL
-----------------------------------------------------------------------------
(* A search from start has paths to different names, in the order of their  *)
(* lengths, which differ by one at most behind the path it is at; what it   *)
(* has looked behind leads to names it has paths to. Hence it finds every   *)
(* name on a walk by a path no longer than the walk.                        *)
IsGraph(g) == g \in [DOMAIN g -> SUBSET Names] /\ DOMAIN g \subseteq Names

Walks(g, start) ==
    {p \in Seq(Names) : /\ Len(p) >= 1 /\ p[1] = start
                        /\ \A i \in 1..(Len(p) - 1) : p[i + 1] \in Successors(g, p[i])}

\* the paths that a search from start has after k steps
Searched(g, start, paths, k) ==
    /\ paths \in Seq(Walks(g, start)) /\ Len(paths) >= 1 /\ paths[1] = <<start>>
    /\ \A j, l \in 1..Len(paths) : Last(paths[j]) = Last(paths[l]) => j = l
    /\ \A j, l \in 1..Len(paths) : j <= l => Len(paths[j]) <= Len(paths[l])
    /\ k + 1 \in 1..Len(paths) =>
          \A l \in 1..Len(paths) : Len(paths[l]) <= Len(paths[k + 1]) + 1
    /\ \A j \in 1..Len(paths) : j <= k =>
          \A m \in Successors(g, Last(paths[j])) :
              \E l \in 1..Len(paths) : /\ Last(paths[l]) = m
                                       /\ Len(paths[l]) <= Len(paths[j]) + 1

\* The names are numbered and listed in order.
LEMMA NamesAreListed ==
    /\ NameCount \in Nat /\ Names = 1..NameCount
    /\ NamesInOrder \in Seq(Names) /\ Len(NamesInOrder) = NameCount
    /\ \A n \in Names : n \in DOMAIN NamesInOrder /\ NamesInOrder[n] = n
<1>1. NameCount \in Nat /\ Names = 1..NameCount
  BY DetectorAssumption, FS_CardinalityType DEF NameCount
<1>2. NamesInOrder \in [1..NameCount -> Names]
  BY <1>1 DEF NamesInOrder
<1> QED BY <1>1, <1>2 DEF NamesInOrder

\* An edge leads to a name.
LEMMA SuccessorsAreNames ==
    ASSUME NEW g, IsGraph(g), NEW n
    PROVE  Successors(g, n) \subseteq Names
  BY DEF IsGraph, Successors

\* What a step adds behind a path: one path for each name that is new.
LEMMA FreshNames ==
    ASSUME NEW S, S \subseteq Names
    PROVE  /\ Kept(NamesInOrder, S) \in Seq(Names)
           /\ \A i \in 1..Len(Kept(NamesInOrder, S)) : Kept(NamesInOrder, S)[i] \in S
           /\ \A m \in S : \E i \in 1..Len(Kept(NamesInOrder, S)) :
                 Kept(NamesInOrder, S)[i] = m
           /\ \A i, j \in 1..Len(Kept(NamesInOrder, S)) :
                 Kept(NamesInOrder, S)[i] = Kept(NamesInOrder, S)[j] => i = j
<1>1. PICK e : Kept(NamesInOrder, S) \in Seq(Names)
               /\ Embeds(e, Kept(NamesInOrder, S), NamesInOrder, S, Len(NamesInOrder))
  BY KeptInOrder, NamesAreListed
<1> DEFINE t == Kept(NamesInOrder, S)
<1> HIDE DEF t
<1>2. t \in Seq(Names) /\ Embeds(e, t, NamesInOrder, S, NameCount)
  BY <1>1, NamesAreListed DEF t
<1>3. \A i \in 1..Len(t) : t[i] = e[i] /\ t[i] \in S
  BY <1>2, NamesAreListed DEF Embeds
<1>4. \A m \in S : \E i \in 1..Len(t) : t[i] = m
  BY <1>2, <1>3, NamesAreListed DEF Embeds
<1>5. \A i, j \in 1..Len(t) : t[i] = t[j] => i = j
  <2> SUFFICES ASSUME NEW i \in 1..Len(t), NEW j \in 1..Len(t), t[i] = t[j], i # j
               PROVE  FALSE
    OBVIOUS
  <2>1. Len(t) \in Nat /\ e[i] \in Nat /\ e[j] \in Nat /\ e[i] = e[j]
    BY <1>2, <1>3, NamesAreListed DEF Embeds
  <2>2. CASE i < j
    BY <2>1, <2>2, <1>2 DEF Embeds
  <2>3. CASE j < i
    BY <2>1, <2>3, <1>2 DEF Embeds
  <2> QED BY <2>1, <2>2, <2>3
<1> QED BY <1>2, <1>3, <1>4, <1>5 DEF t

\* Walking on from the end of a walk.
LEMMA WalkOn ==
    ASSUME NEW g, IsGraph(g), NEW start, NEW p \in Walks(g, start),
           NEW m \in Successors(g, Last(p))
    PROVE  /\ Append(p, m) \in Walks(g, start)
           /\ Len(Append(p, m)) = Len(p) + 1 /\ Last(Append(p, m)) = m
<1>1. p \in Seq(Names) /\ m \in Names /\ Len(p) \in Nat /\ Len(p) >= 1
  BY SuccessorsAreNames DEF Walks
<1> DEFINE q == Append(p, m)
<1>2. /\ q \in Seq(Names) /\ Len(q) = Len(p) + 1
      /\ \A i \in 1..Len(p) : q[i] = p[i]
      /\ q[Len(p) + 1] = m
  BY <1>1
<1> HIDE DEF q
<1>3. ASSUME NEW i \in 1..(Len(q) - 1) PROVE q[i + 1] \in Successors(g, q[i])
  <2>1. CASE i = Len(p)
    BY <2>1, <1>1, <1>2 DEF Last
  <2>2. CASE i < Len(p)
    <3>1. i \in 1..(Len(p) - 1) /\ i + 1 \in 1..Len(p)
      BY <2>2, <1>1, <1>2
    <3> QED BY <3>1, <1>2 DEF Walks
  <2> QED BY <2>1, <2>2, <1>1, <1>2
<1>4. q[1] = start /\ Last(q) = m /\ Len(q) >= 1
  BY <1>1, <1>2 DEF Walks, Last
<1> QED BY <1>2, <1>3, <1>4 DEF q, Walks

\* A step of the search.
LEMMA SearchStep ==
    ASSUME NEW g, IsGraph(g), NEW start, NEW paths, NEW k \in Nat,
           Searched(g, start, paths, k)
    PROVE  Searched(g, start, Extend(g, paths, k + 1), k + 1)
<1>1. CASE k + 1 \notin DOMAIN paths
  <2>1. Extend(g, paths, k + 1) = paths
    BY <1>1 DEF Extend
  <2>2. paths \in Seq(Walks(g, start)) /\ Len(paths) \in Nat /\ DOMAIN paths = 1..Len(paths)
    BY DEF Searched
  <2>3. Len(paths) <= k
    BY <1>1, <2>2
  <2>4. ASSUME NEW j \in 1..Len(paths) PROVE j <= k
    BY <2>2, <2>3
  <2>5. \A j \in 1..Len(paths) :
           \A m \in Successors(g, Last(paths[j])) :
              \E l \in 1..Len(paths) : /\ Last(paths[l]) = m
                                       /\ Len(paths[l]) <= Len(paths[j]) + 1
    BY <2>4 DEF Searched
  <2>6. (k + 1) + 1 \notin 1..Len(paths)
    BY <2>2, <2>3
  <2> QED BY <2>1, <2>5, <2>6 DEF Searched
<1>2. CASE k + 1 \in DOMAIN paths
  <2> DEFINE path == paths[k + 1]
             onto == Successors(g, Last(path)) \ Reached(paths)
             onward == Kept(NamesInOrder, onto)
             new == [i \in DOMAIN onward |-> Append(path, onward[i])]
             q == paths \o new
             W == Walks(g, start)
  <2>1. /\ paths \in Seq(W) /\ Len(paths) \in Nat /\ DOMAIN paths = 1..Len(paths)
        /\ k + 1 \in 1..Len(paths) /\ path \in W /\ Len(path) \in Nat
        /\ \A l \in 1..Len(paths) : paths[l] \in W /\ Len(paths[l]) \in Nat
    <3>1. /\ paths \in Seq(W) /\ Len(paths) \in Nat /\ DOMAIN paths = 1..Len(paths)
          /\ k + 1 \in 1..Len(paths)
      BY <1>2 DEF Searched
    <3>2. \A p \in W : Len(p) \in Nat
      BY DEF Walks
    <3> HIDE DEF W
    <3>3. \A l \in 1..Len(paths) : paths[l] \in W
      BY <3>1, ElementOfSeq
    <3> QED BY <3>1, <3>2, <3>3
  <2>2. onto \subseteq Names
    BY SuccessorsAreNames
  <2> HIDE DEF onto
  <2>3. /\ onward \in Seq(Names) /\ Len(onward) \in Nat /\ DOMAIN onward = 1..Len(onward)
        /\ \A i \in 1..Len(onward) : onward[i] \in onto
        /\ \A m \in onto : \E i \in 1..Len(onward) : onward[i] = m
        /\ \A i, j \in 1..Len(onward) : onward[i] = onward[j] => i = j
    BY <2>2, FreshNames
  <2> HIDE DEF onward, path, W
  <2>4. ASSUME NEW i \in 1..Len(onward)
        PROVE  /\ new[i] \in W /\ Len(new[i]) = Len(path) + 1
               /\ Last(new[i]) = onward[i]
    <3>1. onward[i] \in Successors(g, Last(path)) /\ new[i] = Append(path, onward[i])
      BY <2>3 DEF onto
    <3> QED BY <3>1, <2>1, WalkOn DEF W
  <2>5. new \in Seq(W) /\ Len(new) = Len(onward)
    <3>1. new \in [1..Len(onward) -> W]
      BY <2>3, <2>4
    <3> QED BY <3>1, <2>3
  <2> HIDE DEF new
  <2>6. /\ q \in Seq(W) /\ Len(q) = Len(paths) + Len(onward)
        /\ \A l \in 1..Len(paths) : q[l] = paths[l]
        /\ \A l \in 1..Len(q) : l > Len(paths) =>
              l - Len(paths) \in 1..Len(onward) /\ q[l] = new[l - Len(paths)]
        /\ \A i \in 1..Len(onward) :
              Len(paths) + i \in 1..Len(q) /\ q[Len(paths) + i] = new[i]
    <3>1. q \in Seq(W) /\ Len(q) = Len(paths) + Len(onward)
      <4>1. paths \in Seq(W) /\ new \in Seq(W) /\ Len(new) = Len(onward)
        BY <2>1, <2>5
      <4>2. paths \o new \in Seq(W) /\ Len(paths \o new) = Len(paths) + Len(new)
        BY <4>1, ConcatProperties, Zenon
      <4> QED BY <4>1, <4>2
    <3>2. \A l \in 1..Len(q) :
             q[l] = IF l <= Len(paths) THEN paths[l] ELSE new[l - Len(paths)]
      BY <2>1, <2>5, <3>1, ConcatProperties
    <3> HIDE DEF q
    <3>3. PICK a \in Nat, b \in Nat : a = Len(paths) /\ b = Len(onward)
      BY <2>1, <2>3
    <3>4. ASSUME NEW l \in 1..(a + b), l > a
          PROVE  l - a \in 1..b /\ q[l] = new[l - a]
      BY <3>1, <3>2, <3>3, <3>4
    <3>5. ASSUME NEW i \in 1..b
          PROVE  a + i \in 1..(a + b) /\ q[a + i] = new[i]
      <4>1. a + i \in 1..(a + b) /\ ~ (a + i <= a) /\ (a + i) - a = i
        OBVIOUS
      <4> QED BY <4>1, <3>1, <3>2, <3>3
    <3>6. ASSUME NEW l \in 1..a PROVE q[l] = paths[l]
      BY <3>1, <3>2, <3>3
    <3> QED BY <3>1, <3>3, <3>4, <3>5, <3>6
  <2> HIDE DEF q
  <2>7. q = Extend(g, paths, k + 1)
    BY <1>2 DEF Extend, q, new, onward, onto, path
  \* an old path, or one to a name that is not at the end of an old one
  <2>8. \A l \in 1..Len(q) :
           \/ l \in 1..Len(paths) /\ q[l] = paths[l]
           \/ /\ l > Len(paths) /\ l - Len(paths) \in 1..Len(onward)
              /\ Len(q[l]) = Len(path) + 1
              /\ Last(q[l]) = onward[l - Len(paths)]
              /\ \A j \in 1..Len(paths) : Last(paths[j]) # Last(q[l])
    <3>1. ASSUME NEW i \in 1..Len(onward), NEW j \in 1..Len(paths)
          PROVE  Last(paths[j]) # onward[i]
      <4>1. onward[i] \notin Reached(paths)
        BY <2>3 DEF onto
      <4>2. Last(paths[j]) \in Reached(paths)
        BY <2>1 DEF Reached
      <4> QED BY <4>1, <4>2
    <3> SUFFICES ASSUME NEW l \in 1..Len(q), l \notin 1..Len(paths)
                 PROVE  /\ l > Len(paths) /\ l - Len(paths) \in 1..Len(onward)
                        /\ Len(q[l]) = Len(path) + 1
                        /\ Last(q[l]) = onward[l - Len(paths)]
                        /\ \A j \in 1..Len(paths) : Last(paths[j]) # Last(q[l])
      BY <2>6
    <3>2. l > Len(paths)
      BY <2>1, <2>3, <2>6
    <3>3. PICK i \in 1..Len(onward) : i = l - Len(paths) /\ q[l] = new[i]
      BY <3>2, <2>6
    <3> QED BY <3>1, <3>2, <3>3, <2>4
  <2>9. \A l \in 1..Len(paths) : Len(paths[l]) <= Len(path) + 1
    BY <2>1 DEF Searched, path
  <2>10. \A l \in 1..Len(q) : Len(q[l]) \in Nat /\ Len(q[l]) <= Len(path) + 1
    BY <2>1, <2>8, <2>9
  <2>11. \A j, l \in 1..Len(q) : Last(q[j]) = Last(q[l]) => j = l
    <3> SUFFICES ASSUME NEW j \in 1..Len(q), NEW l \in 1..Len(q), Last(q[j]) = Last(q[l])
                 PROVE  j = l
      OBVIOUS
    <3>1. CASE j \in 1..Len(paths) /\ l \in 1..Len(paths)
      BY <3>1, <2>6 DEF Searched
    <3>2. CASE j > Len(paths) /\ l > Len(paths)
      <4>1. onward[j - Len(paths)] = onward[l - Len(paths)]
            /\ j - Len(paths) \in 1..Len(onward) /\ l - Len(paths) \in 1..Len(onward)
        <5>1. j \notin 1..Len(paths) /\ l \notin 1..Len(paths)
          BY <3>2, <2>1
        <5> QED BY <5>1, <2>8
      <4>2. j - Len(paths) = l - Len(paths)
        BY <4>1, <2>3
      <4>3. j \in Nat /\ l \in Nat
        BY <2>1, <2>3, <2>6
      <4> QED BY <4>2, <4>3, <2>1
    <3>3. CASE j \notin 1..Len(paths) /\ l \in 1..Len(paths)
      BY <3>3, <2>8, <2>6
    <3>4. CASE l \notin 1..Len(paths) /\ j \in 1..Len(paths)
      BY <3>4, <2>8, <2>6
    <3> QED BY <3>1, <3>2, <3>3, <3>4, <2>8
  <2>12. \A j, l \in 1..Len(q) : j <= l => Len(q[j]) <= Len(q[l])
    <3> SUFFICES ASSUME NEW j \in 1..Len(q), NEW l \in 1..Len(q), j <= l
                 PROVE  Len(q[j]) <= Len(q[l])
      OBVIOUS
    <3>1. CASE l \in 1..Len(paths)
      <4>1. j \in 1..Len(paths)
        BY <3>1, <2>1, <2>6
      <4> QED BY <4>1, <3>1, <2>6 DEF Searched
    <3>2. CASE l > Len(paths)
      <4>1. Len(q[l]) = Len(path) + 1
        <5>1. l \notin 1..Len(paths)
          BY <3>2, <2>1
        <5> QED BY <5>1, <2>8
      <4> QED BY <4>1, <2>10
    <3> QED BY <3>1, <3>2, <2>8
  <2>13. ASSUME k + 2 \in 1..Len(q), NEW l \in 1..Len(q)
         PROVE  Len(q[l]) <= Len(q[k + 2]) + 1
    <3>1. k + 1 \in 1..Len(q) /\ q[k + 1] = path /\ k + 1 <= k + 2
      BY <2>1, <2>6 DEF path
    <3>2. Len(path) <= Len(q[k + 2])
      BY <3>1, <2>12, <2>13
    <3> QED BY <3>2, <2>10, <2>13, <2>1
  <2>14. ASSUME NEW j \in 1..Len(q), j <= k + 1, NEW m \in Successors(g, Last(q[j]))
         PROVE  \E l \in 1..Len(q) : Last(q[l]) = m /\ Len(q[l]) <= Len(q[j]) + 1
    <3>1. j \in 1..Len(paths) /\ q[j] = paths[j]
      BY <2>14, <2>1, <2>6
    <3>2. CASE j <= k
      <4>1. PICK l \in 1..Len(paths) : Last(paths[l]) = m /\ Len(paths[l]) <= Len(paths[j]) + 1
        BY <3>1, <3>2, <2>14 DEF Searched
      <4>2. l \in 1..Len(q) /\ q[l] = paths[l]
        BY <2>1, <2>3, <2>6
      <4> QED BY <4>1, <4>2, <3>1
    <3>3. CASE j = k + 1 /\ m \in Reached(paths)
      <4>1. PICK l \in 1..Len(paths) : Last(paths[l]) = m
        BY <3>3, <2>1 DEF Reached
      <4>2. l \in 1..Len(q) /\ q[l] = paths[l]
        BY <2>1, <2>3, <2>6
      <4>3. q[j] = path
        BY <3>1, <3>3 DEF path
      <4> QED BY <4>1, <4>2, <4>3, <2>9
    <3>4. CASE j = k + 1 /\ m \notin Reached(paths)
      <4>1. q[j] = path
        BY <3>1, <3>4 DEF path
      <4>2. m \in onto
        BY <4>1, <3>4, <2>14 DEF onto
      <4>3. PICK i \in 1..Len(onward) : onward[i] = m
        BY <4>2, <2>3
      <4>4. Len(paths) + i \in 1..Len(q) /\ q[Len(paths) + i] = new[i]
        BY <2>6
      <4>5. Last(new[i]) = m /\ Len(new[i]) = Len(path) + 1
        BY <2>4, <4>3
      <4>6. Len(new[i]) <= Len(q[j]) + 1
        BY <4>5, <4>1, <2>1
      <4> QED BY <4>4, <4>5, <4>6
    <3> QED BY <3>2, <3>3, <3>4, <2>14, <2>1
  <2>15. q[1] = <<start>> /\ Len(q) >= 1
    BY <2>1, <2>3, <2>6 DEF Searched
  <2>16. (k + 1) + 1 = k + 2
    OBVIOUS
  <2> QED BY <2>6, <2>7, <2>11, <2>12, <2>13, <2>14, <2>15, <2>16 DEF Searched, W
<1> QED BY <1>1, <1>2

\* h is the table of the paths after each of the first n steps
Searches(h, g, start, n) ==
    h = [k \in 0..n |-> IF k = 0 THEN <<<<start>>>> ELSE Extend(g, h[k - 1], k)]

\* The recursion that defines Discovered has a solution.
LEMMA SearchIsDefined ==
    ASSUME NEW g, NEW start
    PROVE  \E h : Searches(h, g, start, NameCount) /\ Discovered(g, start) = h[NameCount]
<1>0. NameCount \in Nat
  BY NamesAreListed
<1> DEFINE Bad == {n \in Nat : ~ \E h : Searches(h, g, start, n)}
<1>1. Bad = {}
  <2> SUFFICES ASSUME Bad # {} PROVE FALSE
    OBVIOUS
  <2>1. PICK n \in Bad : \A m \in Bad : n <= m
    <3>1. Bad \subseteq Nat
      OBVIOUS
    <3> HIDE DEF Bad
    <3> QED BY <3>1, LeastNatural
  <2>2. n # 0
    <3>1. Searches([k \in 0..0 |-> <<<<start>>>>], g, start, 0)
      BY DEF Searches
    <3> QED BY <3>1, <2>1
  <2>3. n \in Nat /\ n - 1 \in Nat /\ n - 1 \notin Bad
    BY <2>1, <2>2
  <2>4. PICK h : Searches(h, g, start, n - 1)
    BY <2>3
  <2> DEFINE e == [k \in 0..n |-> IF k < n THEN h[k] ELSE Extend(g, h[n - 1], n)]
  <2>5. ASSUME NEW k \in 0..n
        PROVE  e[k] = IF k = 0 THEN <<<<start>>>> ELSE Extend(g, e[k - 1], k)
    <3>1. CASE k = n
      <4>1. e[k - 1] = h[n - 1]
        BY <3>1, <2>3
      <4> QED BY <4>1, <3>1, <2>3, <2>2
    <3>2. CASE k < n /\ k # 0
      <4>1. k \in 0..(n - 1) /\ e[k] = h[k] /\ e[k - 1] = h[k - 1]
        BY <3>2, <2>3
      <4> HIDE DEF e
      <4> QED BY <4>1, <3>2, <2>4 DEF Searches
    <3>3. CASE k = 0
      <4>1. k \in 0..(n - 1) /\ e[k] = h[k]
        BY <3>3, <2>3, <2>2
      <4> HIDE DEF e
      <4> QED BY <4>1, <3>3, <2>4 DEF Searches
    <3> QED BY <3>1, <3>2, <3>3, <2>3
  <2>6. Searches(e, g, start, n)
    <3>1. DOMAIN e = 0..n /\ e = [k \in 0..n |-> e[k]]
      OBVIOUS
    <3> HIDE DEF e
    <3> QED BY <3>1, <2>5 DEF Searches
  <2> QED BY <2>6, <2>1
<1>2. \E h : Searches(h, g, start, NameCount)
  BY <1>0, <1>1
<1> DEFINE found == CHOOSE h : Searches(h, g, start, NameCount)
<1>3. Discovered(g, start) = found[NameCount]
  BY DEF Discovered, Searches
<1>4. Searches(found, g, start, NameCount)
  BY <1>2
<1> QED BY <1>3, <1>4

\* The search has looked behind every path that it found.
LEMMA DiscoveredIsSearched ==
    ASSUME NEW g, IsGraph(g), NEW start \in Names
    PROVE  /\ Searched(g, start, Discovered(g, start), NameCount)
           /\ Len(Discovered(g, start)) \in Nat
           /\ Len(Discovered(g, start)) <= NameCount
<1>0. NameCount \in Nat
  BY NamesAreListed
<1>1. PICK h : Searches(h, g, start, NameCount) /\ Discovered(g, start) = h[NameCount]
  BY SearchIsDefined
<1> DEFINE Bad == {k \in Nat : k <= NameCount /\ ~ Searched(g, start, h[k], k)}
<1>2. Bad = {}
  <2> SUFFICES ASSUME Bad # {} PROVE FALSE
    OBVIOUS
  <2>1. PICK k \in Bad : \A m \in Bad : k <= m
    <3>1. Bad \subseteq Nat
      OBVIOUS
    <3> HIDE DEF Bad
    <3> QED BY <3>1, LeastNatural
  <2>2. CASE k = 0
    <3>1. h[0] = <<<<start>>>>
      BY <1>0, <1>1 DEF Searches
    <3>2. <<start>> \in Walks(g, start) /\ Len(<<start>>) = 1
      BY DEF Walks
    <3> DEFINE P == <<<<start>>>>
    <3>3. P \in Seq(Walks(g, start)) /\ Len(P) = 1 /\ P[1] = <<start>>
      BY <3>2
    <3> HIDE DEF P
    <3>4. \A j \in 1..Len(P) : j = 1
      BY <3>3
    <3>5. Searched(g, start, P, 0)
      <4>1. \A j, l \in 1..Len(P) : Len(P[j]) <= Len(P[l])
        BY <3>2, <3>3, <3>4
      <4>2. \A j, l \in 1..Len(P) : j = l
        BY <3>4
      <4>3. \A j \in 1..Len(P) : ~ j <= 0
        BY <3>4
      <4>4. \A l \in 1..Len(P) : Len(P[l]) <= Len(P[0 + 1]) + 1
        BY <3>2, <3>3, <3>4
      <4> QED BY <3>3, <4>1, <4>2, <4>3, <4>4 DEF Searched
    <3> QED BY <3>1, <3>5, <2>1, <2>2 DEF P
  <2>3. CASE k # 0
    <3>1. k \in Nat /\ k - 1 \in Nat /\ k - 1 <= NameCount /\ k - 1 \notin Bad
      BY <2>1, <2>3, <1>0
    <3>2. Searched(g, start, h[k - 1], k - 1)
      BY <3>1
    <3>3. k \in 0..NameCount /\ h[k] = Extend(g, h[k - 1], k)
      BY <2>1, <2>3, <1>0, <1>1 DEF Searches
    <3>4. (k - 1) + 1 = k
      BY <3>1
    <3>5. Searched(g, start, Extend(g, h[k - 1], k), k)
      <4>1. PICK j \in Nat : j = k - 1 /\ j + 1 = k
        BY <3>1
      <4>2. Searched(g, start, Extend(g, h[j], j + 1), j + 1)
        BY <3>2, <4>1, SearchStep
      <4> QED BY <4>1, <4>2
    <3> QED BY <3>3, <3>5, <2>1
  <2> QED BY <2>2, <2>3
<1>3. Searched(g, start, Discovered(g, start), NameCount)
  BY <1>0, <1>1, <1>2
<1> DEFINE P == Discovered(g, start)
<1> HIDE DEF P
<1>4. /\ P \in Seq(Walks(g, start)) /\ Len(P) \in Nat
      /\ \A j, l \in 1..Len(P) : Last(P[j]) = Last(P[l]) => j = l
  BY <1>3 DEF Searched, P
<1>5. \A j \in 1..Len(P) : Last(P[j]) \in 1..NameCount
  <2> SUFFICES ASSUME NEW j \in 1..Len(P) PROVE Last(P[j]) \in 1..NameCount
    OBVIOUS
  <2>1. P[j] \in Walks(g, start)
    BY <1>4, ElementOfSeq
  <2>2. P[j] \in Seq(Names) /\ Len(P[j]) >= 1 /\ Len(P[j]) \in Nat
    BY <2>1 DEF Walks
  <2>3. Last(P[j]) \in Names
    BY <2>2, ElementOfSeq DEF Last
  <2> QED BY <2>3, NamesAreListed
<1>6. ~ NameCount < Len(P)
  <2> SUFFICES ASSUME NameCount < Len(P) PROVE FALSE
    OBVIOUS
  <2> DEFINE f == [j \in 1..Len(P) |-> Last(P[j])]
  <2>1. f \in [1..Len(P) -> 1..NameCount]
    BY <1>5
  <2>2. /\ IsFiniteSet(1..Len(P)) /\ IsFiniteSet(1..NameCount)
        /\ Cardinality(1..NameCount) < Cardinality(1..Len(P))
    <3>1. /\ IsFiniteSet(1..Len(P)) /\ Cardinality(1..Len(P)) = Len(P)
      BY <1>4, FS_Interval, <1>0
    <3>2. /\ IsFiniteSet(1..NameCount) /\ Cardinality(1..NameCount) = NameCount
      BY <1>0, FS_Interval
    <3> QED BY <3>1, <3>2
  <2> HIDE DEF f
  <2>3. \E x, y \in 1..Len(P) : x # y /\ f[x] = f[y]
    BY <2>1, <2>2, FS_PigeonHole
  <2> QED BY <2>3, <1>4 DEF f
<1> QED BY <1>0, <1>3, <1>4, <1>6 DEF P

\* Every name on a walk has a path that is no longer than the walk up to it.
LEMMA WalksAreFound ==
    ASSUME NEW g, IsGraph(g), NEW start \in Names, NEW w \in Walks(g, start),
           NEW i \in 1..Len(w)
    PROVE  \E l \in DOMAIN Discovered(g, start) :
              /\ Last(Discovered(g, start)[l]) = w[i]
              /\ Len(Discovered(g, start)[l]) <= i
<1> DEFINE P == Discovered(g, start)
<1>1. /\ Searched(g, start, P, NameCount) /\ NameCount \in Nat
      /\ Len(P) \in Nat /\ Len(P) <= NameCount
  BY DiscoveredIsSearched, NamesAreListed
<1> HIDE DEF P
<1>2. DOMAIN P = 1..Len(P) /\ P \in Seq(Walks(g, start))
  BY <1>1 DEF Searched
<1>3. \A l \in 1..Len(P) : Len(P[l]) \in Nat
  BY <1>2, ElementOfSeq DEF Walks
<1>4. Len(w) \in Nat /\ Len(w) >= 1 /\ w[1] = start
  BY DEF Walks
<1> DEFINE Found(n) == \E l \in 1..Len(P) : Last(P[l]) = w[n] /\ Len(P[l]) <= n
           Bad == {n \in 1..Len(w) : ~ Found(n)}
<1>5. Bad = {}
  <2> SUFFICES ASSUME Bad # {} PROVE FALSE
    OBVIOUS
  <2>1. PICK n \in Bad : \A m \in Bad : n <= m
    <3>1. Bad \subseteq Nat
      BY <1>4
    <3> HIDE DEF Bad
    <3> QED BY <3>1, LeastNatural
  <2>2. CASE n = 1
    <3>1. 1 \in 1..Len(P) /\ P[1] = <<start>>
      BY <1>1 DEF Searched
    <3>2. Last(P[1]) = start /\ Len(P[1]) = 1
      BY <3>1 DEF Last
    <3> QED BY <3>1, <3>2, <1>4, <2>1, <2>2
  <2>3. CASE n # 1
    <3>1. n - 1 \in 1..Len(w) /\ n - 1 \in 1..(Len(w) - 1) /\ (n - 1) + 1 = n
          /\ n \in Nat /\ n - 1 \notin Bad
      BY <2>1, <2>3, <1>4
    <3>2. PICK l \in 1..Len(P) : Last(P[l]) = w[n - 1] /\ Len(P[l]) <= n - 1
      BY <3>1
    <3>3. w[n] \in Successors(g, w[n - 1])
      BY <3>1 DEF Walks
    <3>4. l <= NameCount
      BY <1>1
    <3>5. PICK j \in 1..Len(P) : Last(P[j]) = w[n] /\ Len(P[j]) <= Len(P[l]) + 1
      BY <3>2, <3>3, <3>4, <1>1 DEF Searched
    <3>6. Len(P[j]) <= n
      BY <3>1, <3>2, <3>5, <1>3
    <3> QED BY <3>5, <3>6, <2>1
  <2> QED BY <2>2, <2>3
<1> QED BY <1>2, <1>5 DEF P

\* What a search from a name reports is a cycle through it, and no cycle
\* through it is shorter.
LEMMA CyclesThrough ==
    ASSUME NEW g, IsGraph(g), NEW start \in DOMAIN g, NEW c, c = CycleThrough(g, start)
    PROVE  /\ c # <<>> => c \in Seq(Names) /\ Len(c) >= 1 /\ IsCycle(g, c)
           /\ \A k \in Nat \ {0} : \A w \in Cycles(g, k) :
                 w[1] = start => c # <<>> /\ Len(c) <= k
<1>0. start \in Names
  BY DEF IsGraph
<1> DEFINE P == Discovered(g, start)
           closing == {k \in DOMAIN P : start \in Successors(g, Last(P[k]))}
           first == CHOOSE k \in closing : \A j \in closing : k <= j
<1>1. c = IF closing = {} THEN <<>> ELSE P[first]
  BY DEF CycleThrough
<1>2. /\ Searched(g, start, P, NameCount) /\ Len(P) \in Nat
  BY <1>0, DiscoveredIsSearched
<1>a. \A w \in Walks(g, start) : \A i \in 1..Len(w) :
         \E l \in DOMAIN P : Last(P[l]) = w[i] /\ Len(P[l]) <= i
  BY <1>0, WalksAreFound
<1> HIDE DEF P
<1>3. /\ P \in Seq(Walks(g, start)) /\ DOMAIN P = 1..Len(P)
      /\ \A j, l \in 1..Len(P) : j <= l => Len(P[j]) <= Len(P[l])
  BY <1>2 DEF Searched
<1>4. closing # {} => /\ first \in closing /\ \A j \in closing : first <= j
  <2>1. closing \subseteq Nat
    BY <1>2, <1>3
  <2> HIDE DEF closing
  <2> QED BY <2>1, LeastNatural
<1> HIDE DEF first
<1>5. ASSUME closing # {}
      PROVE  /\ c \in Walks(g, start) /\ c # <<>>
             /\ c \in Seq(Names) /\ Len(c) >= 1 /\ Len(c) \in Nat /\ IsCycle(g, c)
  <2>1. first \in 1..Len(P) /\ c = P[first] /\ start \in Successors(g, Last(c))
    BY <1>1, <1>3, <1>4, <1>5
  <2>2. c \in Walks(g, start)
    BY <2>1, <1>3, ElementOfSeq
  <2>3. c \in Seq(Names) /\ Len(c) >= 1 /\ Len(c) \in Nat /\ c[1] = start
        /\ DOMAIN c = 1..Len(c)
    BY <2>2 DEF Walks
  <2>4. ASSUME NEW i \in 1..Len(c)
        PROVE  c[IF i = Len(c) THEN 1 ELSE i + 1] \in Successors(g, c[i])
    <3>1. CASE i = Len(c)
      BY <3>1, <2>1, <2>3 DEF Last
    <3>2. CASE i # Len(c)
      <4>1. Len(c) \in Nat
        BY <2>3
      <4>2. i \in 1..(Len(c) - 1)
        BY <3>2, <4>1
      <4> QED BY <4>2, <3>2, <2>2 DEF Walks
    <3> QED BY <3>1, <3>2
  <2>5. IsCycle(g, c)
    BY <2>3, <2>4 DEF IsCycle, Successors
  <2>6. c # <<>>
    BY <2>3
  <2> QED BY <2>2, <2>3, <2>5, <2>6
<1>6. ASSUME NEW k \in Nat \ {0}, NEW w \in Cycles(g, k), w[1] = start
      PROVE  closing # {} /\ Len(c) <= k
  <2>1. w \in [1..k -> DOMAIN g] /\ IsCycle(g, w)
    BY <1>6 DEF Cycles
  <2>2. w \in Seq(Names) /\ Len(w) = k /\ DOMAIN w = 1..k
    <3>1. w \in [1..k -> Names]
      BY <2>1 DEF IsGraph
    <3> QED BY <3>1
  <2>3. ASSUME NEW i \in 1..(Len(w) - 1) PROVE w[i + 1] \in Successors(g, w[i])
    <3>1. i \in DOMAIN w /\ i # Len(w)
      BY <2>2
    <3> QED BY <3>1, <2>1 DEF IsCycle, Successors
  <2>4. w \in Walks(g, start)
    BY <1>6, <2>2, <2>3 DEF Walks
  <2>5. k \in DOMAIN w /\ start \in Successors(g, w[k])
    BY <1>6, <2>1, <2>2 DEF IsCycle, Successors
  <2>6. PICK l \in DOMAIN P : Last(P[l]) = w[k] /\ Len(P[l]) <= k
    BY <2>2, <2>4, <2>5, <1>a
  <2>7. l \in closing
    BY <2>5, <2>6
  <2>8. first \in 1..Len(P) /\ first <= l /\ c = P[first]
    BY <2>7, <1>1, <1>3, <1>4
  <2>9. Len(P[first]) <= Len(P[l])
    BY <2>8, <2>6, <1>3
  <2>10. Len(P[first]) \in Nat /\ Len(P[l]) \in Nat
    BY <2>8, <2>6, <1>3, ElementOfSeq DEF Walks
  <2> QED BY <2>6, <2>7, <2>8, <2>9, <2>10
<1>7. closing = {} => c = <<>>
  BY <1>1
<1> HIDE DEF closing
<1> QED BY <1>5, <1>6, <1>7

\* What the detector reports is a cycle, no cycle is shorter, and where it
\* reports none there is none.
LEMMA MinimalCycles ==
    ASSUME NEW g, IsGraph(g), NEW c, c = MinimalCycle(g)
    PROVE  /\ c # <<>> => /\ IsCycle(g, c)
                          /\ \A k \in 1..(Len(c) - 1) : Cycles(g, k) = {}
           /\ c = <<>> => \A k \in Nat \ {0} : Cycles(g, k) = {}
<1> DEFINE cycle == [n \in DOMAIN g |-> CycleThrough(g, n)]
           starts == {n \in DOMAIN g : cycle[n] # <<>>}
           Best(n) == \A m \in starts :
                         \/ Len(cycle[n]) < Len(cycle[m])
                         \/ Len(cycle[n]) = Len(cycle[m]) /\ n <= m
           first == CHOOSE n \in starts : Best(n)
<1>1. c = IF starts = {} THEN <<>> ELSE cycle[first]
  BY DEF MinimalCycle
<1>2. \A n \in DOMAIN g : n \in Nat
  BY NamesAreListed DEF IsGraph
<1>3. \A n \in DOMAIN g :
         /\ cycle[n] # <<>> => cycle[n] \in Seq(Names) /\ Len(cycle[n]) >= 1 /\ IsCycle(g, cycle[n])
         /\ \A k \in Nat \ {0} : \A w \in Cycles(g, k) :
               w[1] = n => cycle[n] # <<>> /\ Len(cycle[n]) <= k
  BY CyclesThrough
<1> HIDE DEF cycle
<1>4. \A n \in starts : n \in Nat /\ Len(cycle[n]) \in Nat
  BY <1>2, <1>3
<1>5. ASSUME starts # {} PROVE first \in starts /\ Best(first)
  <2> DEFINE lengths == {Len(cycle[n]) : n \in starts}
  <2>1. lengths \subseteq Nat /\ lengths # {}
    BY <1>4, <1>5
  <2>2. PICK s \in lengths : \A t \in lengths : s <= t
    <3> HIDE DEF lengths
    <3> QED BY <2>1, LeastNatural
  <2> DEFINE shortest == {n \in starts : Len(cycle[n]) = s}
  <2>3. shortest \subseteq Nat /\ shortest # {}
    BY <2>2, <1>4
  <2>4. PICK n \in shortest : \A m \in shortest : n <= m
    <3> HIDE DEF shortest
    <3> QED BY <2>3, LeastNatural
  <2>5. n \in starts /\ Len(cycle[n]) = s
    BY <2>4
  <2>6. ASSUME NEW m \in starts
        PROVE  \/ Len(cycle[n]) < Len(cycle[m])
               \/ Len(cycle[n]) = Len(cycle[m]) /\ n <= m
    <3>1. CASE Len(cycle[m]) = s
      BY <3>1, <2>4, <2>5
    <3>2. CASE Len(cycle[m]) # s
      <4>1. s <= Len(cycle[m]) /\ s \in Nat /\ Len(cycle[m]) \in Nat
        BY <2>2, <2>1, <1>4
      <4> QED BY <4>1, <3>2, <2>5
    <3> QED BY <3>1, <3>2
  <2>7. n \in starts /\ Best(n)
    BY <2>5, <2>6
  <2> HIDE DEF starts, Best
  <2> QED BY <2>7
<1> HIDE DEF first
<1>6. ASSUME NEW k \in Nat \ {0}, NEW w \in Cycles(g, k)
      PROVE  starts # {} /\ Len(cycle[first]) <= k
  <2>1. 1 \in 1..k /\ w[1] \in DOMAIN g
    BY <1>6 DEF Cycles
  <2>2. cycle[w[1]] # <<>> /\ Len(cycle[w[1]]) <= k
    BY <2>1, <1>3
  <2>3. w[1] \in starts
    BY <2>1, <2>2
  <2>4. first \in starts /\ Len(cycle[first]) <= Len(cycle[w[1]])
    BY <2>3, <1>5, <1>4
  <2> QED BY <2>2, <2>3, <2>4, <1>4
<1>7. ASSUME starts # {}
      PROVE  /\ c # <<>> /\ IsCycle(g, c)
             /\ \A k \in 1..(Len(c) - 1) : Cycles(g, k) = {}
  <2>1. c = cycle[first] /\ first \in DOMAIN g /\ cycle[first] # <<>>
    BY <1>1, <1>5, <1>7
  <2>2. ASSUME NEW k \in 1..(Len(c) - 1), Cycles(g, k) # {} PROVE FALSE
    <3>1. PICK w \in Cycles(g, k) : TRUE
      BY <2>2
    <3>2. Len(c) \in Nat
      BY <1>4, <1>5, <1>7, <2>1
    <3>3. k \in Nat \ {0} /\ ~ Len(c) <= k
      BY <3>2
    <3> QED BY <3>1, <3>3, <1>6, <2>1
  <2> QED BY <2>1, <2>2, <1>3
<1>8. ASSUME starts = {}
      PROVE  c = <<>> /\ \A k \in Nat \ {0} : Cycles(g, k) = {}
  BY <1>1, <1>6, <1>8
<1> HIDE DEF starts
<1> QED BY <1>7, <1>8

\* the names that a walk of one step or more from n leads to
Beyond(g, n) == {m \in Names : \E w \in Walks(g, n) : Len(w) >= 2 /\ Last(w) = m}

\* A step leads beyond, and from there no further.
LEMMA BeyondBeyond ==
    ASSUME NEW g, IsGraph(g), NEW n \in Names, NEW m \in Successors(g, n)
    PROVE  m \in Beyond(g, n) /\ Beyond(g, m) \subseteq Beyond(g, n)
<1>1. m \in Names
  BY SuccessorsAreNames
<1>2. m \in Beyond(g, n)
  <2>1. <<n>> \in Walks(g, n) /\ Last(<<n>>) = n /\ Len(<<n>>) = 1
    BY DEF Walks, Last
  <2>2. Append(<<n>>, m) \in Walks(g, n) /\ Last(Append(<<n>>, m)) = m
        /\ Len(Append(<<n>>, m)) = 2
    BY <2>1, WalkOn
  <2>3. PICK w \in Walks(g, n) : Last(w) = m /\ Len(w) = 2
    BY <2>2
  <2> QED BY <1>1, <2>3 DEF Beyond
<1>3. ASSUME NEW l \in Beyond(g, m) PROVE l \in Beyond(g, n)
  <2>1. PICK w \in Walks(g, m) : Len(w) >= 2 /\ Last(w) = l
    BY DEF Beyond
  <2>2. w \in Seq(Names) /\ w[1] = m /\ Len(w) \in Nat
    BY <2>1 DEF Walks
  <2> DEFINE v == <<n>> \o w
  <2>3. v \in Seq(Names) /\ Len(v) = Len(w) + 1 /\ v[1] = n
        /\ \A i \in 1..Len(w) : v[i + 1] = w[i]
    BY <2>2
  <2> HIDE DEF v
  <2>4. ASSUME NEW i \in 1..(Len(v) - 1) PROVE v[i + 1] \in Successors(g, v[i])
    <3>1. CASE i = 1
      BY <3>1, <2>1, <2>2, <2>3
    <3>2. CASE i # 1
      <4>1. PICK j \in Nat : i = j + 1
        BY <3>2, <2>2, <2>3
      <4>2. j \in 1..(Len(w) - 1) /\ j \in 1..Len(w) /\ j + 1 \in 1..Len(w)
        BY <4>1, <3>2, <2>2, <2>3
      <4>3. w[j + 1] \in Successors(g, w[j])
        BY <4>2 DEF Walks
      <4>4. v[j + 1] = w[j] /\ v[(j + 1) + 1] = w[j + 1]
        BY <4>2, <2>3
      <4> QED BY <4>1, <4>3, <4>4
    <3> QED BY <3>1, <3>2
  <2>5. v \in Walks(g, n)
    BY <2>1, <2>2, <2>3, <2>4 DEF Walks
  <2>6. Last(v) = l /\ Len(v) >= 2
    <3>1. Len(w) \in 1..Len(w) /\ v[Len(w) + 1] = w[Len(w)]
      BY <2>1, <2>2, <2>3
    <3> QED BY <3>1, <2>1, <2>2, <2>3 DEF Last
  <2>7. l \in Names
    BY DEF Beyond
  <2> QED BY <2>5, <2>6, <2>7 DEF Beyond
<1> QED BY <1>2, <1>3

\* Where each of some names leads to another of them there is a cycle: among
\* them take one from which the fewest names can be reached.
LEMMA TrapsHaveCycles ==
    ASSUME NEW g, IsGraph(g), HasCycle(g)
    PROVE  \E k \in Nat \ {0} : Cycles(g, k) # {}
<1>1. PICK S \in SUBSET DOMAIN g : S # {} /\ \A n \in S : g[n] \cap S # {}
  BY DEF HasCycle
<1>2. S \subseteq Names
  BY DEF IsGraph
<1> DEFINE size == [n \in S |-> Cardinality(Beyond(g, n))]
<1>3. \A n \in S : IsFiniteSet(Beyond(g, n)) /\ size[n] \in Nat
  <2> SUFFICES ASSUME NEW n \in S
               PROVE  IsFiniteSet(Beyond(g, n)) /\ Cardinality(Beyond(g, n)) \in Nat
    OBVIOUS
  <2>1. Beyond(g, n) \in SUBSET Names /\ IsFiniteSet(Names)
    BY DetectorAssumption DEF Beyond
  <2>2. IsFiniteSet(Beyond(g, n))
    BY <2>1, FS_Subset
  <2> QED BY <2>2, FS_CardinalityType
<1>4. PICK n \in S : \A m \in S : size[n] <= size[m]
  <2> DEFINE sizes == {size[n] : n \in S}
  <2> HIDE DEF size
  <2>1. sizes \subseteq Nat /\ sizes # {}
    BY <1>1, <1>3
  <2>2. PICK s \in sizes : \A t \in sizes : s <= t
    <3> HIDE DEF sizes
    <3> QED BY <2>1, LeastNatural
  <2> QED BY <2>2
<1>5. PICK m \in S : m \in Successors(g, n)
  <2>1. PICK m \in S : m \in g[n]
    BY <1>1
  <2> QED BY <2>1, <1>4, <1>1 DEF Successors
<1>6. Beyond(g, m) \subseteq Beyond(g, n) /\ m \in Beyond(g, n)
  BY <1>2, <1>5, BeyondBeyond
<1>7. Beyond(g, m) = Beyond(g, n)
  <2>1. Cardinality(Beyond(g, m)) <= Cardinality(Beyond(g, n))
    BY <1>3, <1>6, FS_Subset
  <2>2. Cardinality(Beyond(g, n)) <= Cardinality(Beyond(g, m))
    BY <1>4, <1>5
  <2>3. Cardinality(Beyond(g, n)) = Cardinality(Beyond(g, m))
    BY <2>1, <2>2, <1>3
  <2> QED BY <2>3, <1>3, <1>6, FS_Subset
<1>8. PICK w \in Walks(g, m) : Len(w) >= 2 /\ Last(w) = m
  BY <1>6, <1>7 DEF Beyond
<1>9. w \in Seq(Names) /\ Len(w) \in Nat /\ w[1] = m
      /\ \A i \in 1..(Len(w) - 1) : w[i + 1] \in Successors(g, w[i])
  BY DEF Walks
<1>10. PICK k \in Nat \ {0} : Len(w) = k + 1
  <2>1. Len(w) - 1 \in Nat \ {0} /\ Len(w) = (Len(w) - 1) + 1
    BY <1>8, <1>9
  <2> QED BY <2>1
<1> DEFINE c == [i \in 1..k |-> w[i]]
<1>11. ASSUME NEW i \in 1..k
       PROVE  w[i] \in DOMAIN g /\ w[i + 1] \in g[w[i]]
  <2>1. w[i + 1] \in Successors(g, w[i])
    BY <1>9, <1>10
  <2> QED BY <2>1 DEF Successors
<1>12. w[k + 1] = w[1]
  BY <1>8, <1>9, <1>10 DEF Last
<1>13. c \in [1..k -> DOMAIN g] /\ Len(c) = k /\ DOMAIN c = 1..k
  BY <1>11
<1>14. IsCycle(g, c)
  <2> SUFFICES ASSUME NEW i \in 1..k
               PROVE  /\ c[i] \in DOMAIN g
                      /\ c[IF i = k THEN 1 ELSE i + 1] \in g[c[i]]
    BY <1>13 DEF IsCycle
  <2>1. CASE i = k
    BY <2>1, <1>11, <1>12
  <2>2. CASE i # k
    <3>1. i + 1 \in 1..k
      BY <2>2
    <3> QED BY <3>1, <2>2, <1>11
  <2> QED BY <2>1, <2>2
<1> QED BY <1>13, <1>14 DEF Cycles

\* The graph has every wait with what it waits for.
DetectorInv ==
    /\ IsGraph(edges)
    /\ holder \in [Resources -> LockTasks \cup {0}]
    /\ waiting \in [LockTasks -> Resources \cup Futures \cup {0}]
    /\ DOMAIN futures \subseteq Futures
    /\ \A r \in Resources : holder[r] # 0 => holder[r] \in Successors(edges, r)
    /\ \A f \in DOMAIN futures : Producer[f] \in Successors(edges, f)
    /\ \A t \in LockTasks : waiting[t] # 0 =>
          /\ waiting[t] \in Successors(edges, t)
          /\ waiting[t] \in Futures => waiting[t] \in DOMAIN futures

\* Adding an edge adds an edge.
LEMMA AddEdgeFacts ==
    ASSUME NEW g, IsGraph(g), NEW a \in Names, NEW b \in Names
    PROVE  /\ IsGraph(AddEdge(g, a, b))
           /\ \A n : Successors(AddEdge(g, a, b), n) =
                     Successors(g, n) \cup IF n = a THEN {b} ELSE {}
<1>1. ASSUME NEW h, IsGraph(h), NEW n \in Names
      PROVE  /\ IsGraph(AddNode(h, n)) /\ n \in DOMAIN AddNode(h, n)
             /\ \A m : Successors(AddNode(h, n), m) = Successors(h, m)
  BY <1>1 DEF AddNode, IsGraph, Successors
<1> DEFINE h == AddNode(AddNode(g, a), b)
<1>2. IsGraph(h) /\ a \in DOMAIN h /\ \A n : Successors(h, n) = Successors(g, n)
  <2>1. IsGraph(AddNode(g, a)) /\ a \in DOMAIN AddNode(g, a)
        /\ \A n : Successors(AddNode(g, a), n) = Successors(g, n)
    BY <1>1
  <2>2. IsGraph(h) /\ \A n : Successors(h, n) = Successors(AddNode(g, a), n)
    BY <1>1, <2>1
  <2>3. a \in DOMAIN h
    BY <2>1 DEF AddNode
  <2> QED BY <2>1, <2>2, <2>3
<1> HIDE DEF h
<1>3. AddEdge(g, a, b) = [h EXCEPT ![a] = @ \cup {b}]
  BY DEF AddEdge, h
<1>4. [h EXCEPT ![a] = @ \cup {b}] \in [DOMAIN h -> SUBSET Names]
  BY <1>2 DEF IsGraph
<1>5. \A n : Successors([h EXCEPT ![a] = @ \cup {b}], n) =
             Successors(h, n) \cup IF n = a THEN {b} ELSE {}
  BY <1>2 DEF Successors, IsGraph
<1> QED BY <1>2, <1>3, <1>4, <1>5 DEF IsGraph

\* Clearing a wait takes the edges of one name out of the graph.
LEMMA WithoutNames ==
    ASSUME NEW g, IsGraph(g), NEW gone,
           NEW h, h = [n \in {m \in DOMAIN g : m \notin gone} |-> g[n]]
    PROVE  /\ IsGraph(h)
           /\ \A n : n \notin gone => Successors(h, n) = Successors(g, n)
  BY DEF IsGraph, Successors

\* Numbers are not 0, and names are of one kind.
LEMMA NamesAreKinds ==
    /\ 0 \notin Names /\ LockTasks \subseteq Names
    /\ Resources \subseteq Names /\ Futures \subseteq Names
    /\ LockTasks \cap Resources = {} /\ Futures \cap LockTasks = {}
    /\ Futures \cap Resources = {}
    /\ \A f \in Futures : Producer[f] \in LockTasks
<1>1. Names = 1..NameCount /\ NameCount \in Nat
  BY NamesAreListed
<1> QED BY <1>1, DetectorAssumption DEF Names

\* Each action of tasks and futures keeps the graph complete: a hold, ...
LEMMA AcquireStep ==
    ASSUME DetectorInv, NEW t \in LockTasks, NEW r \in Resources, Acquire(t, r)
    PROVE  DetectorInv'
<1>1. /\ IsGraph(edges')
      /\ \A n : Successors(edges', n) = Successors(edges, n) \cup IF n = r THEN {t} ELSE {}
  BY AddEdgeFacts, NamesAreKinds DEF Acquire, DetectorInv
<1>2. holder' = [holder EXCEPT ![r] = t] /\ UNCHANGED <<futures, waiting>>
  BY DEF Acquire
<1>3. holder' \in [Resources -> LockTasks \cup {0}]
  BY <1>2 DEF DetectorInv
<1>4. \A q \in Resources : holder'[q] # 0 => holder'[q] \in Successors(edges', q)
  BY <1>1, <1>2 DEF DetectorInv
<1> QED BY <1>1, <1>2, <1>3, <1>4 DEF DetectorInv

\* ... a wait for a resource, ...
LEMMA WaitStep ==
    ASSUME DetectorInv, NEW t \in LockTasks, NEW r \in Resources, Wait(t, r)
    PROVE  DetectorInv'
<1>1. /\ IsGraph(edges')
      /\ \A n : Successors(edges', n) = Successors(edges, n) \cup IF n = t THEN {r} ELSE {}
  BY AddEdgeFacts, NamesAreKinds DEF Wait, DetectorInv
<1>2. waiting' = [waiting EXCEPT ![t] = r] /\ UNCHANGED <<futures, holder>>
  BY DEF Wait
<1>3. waiting' \in [LockTasks -> Resources \cup Futures \cup {0}]
  BY <1>2 DEF DetectorInv
<1>4. \A u \in LockTasks : waiting'[u] # 0 =>
          /\ waiting'[u] \in Successors(edges', u)
          /\ waiting'[u] \in Futures => waiting'[u] \in DOMAIN futures
  BY <1>1, <1>2, NamesAreKinds DEF DetectorInv
<1> QED BY <1>1, <1>2, <1>3, <1>4 DEF DetectorInv

\* ... a resource that goes to a waiter, ...
LEMMA PassOnStep ==
    ASSUME DetectorInv, NEW t \in LockTasks, NEW r \in Resources, PassOn(r, t)
    PROVE  DetectorInv'
<1> DEFINE cleared == ClearWait(edges, t)
<1>1. /\ IsGraph(cleared)
      /\ \A n : n # t => Successors(cleared, n) = Successors(edges, n)
  <2> DEFINE gone == {t}
  <2>1. cleared = [n \in {m \in DOMAIN edges : m \notin gone} |-> edges[n]]
    BY DEF ClearWait
  <2> HIDE DEF cleared, gone
  <2>2. IsGraph(edges)
    BY DEF DetectorInv
  <2>3. IsGraph(cleared) /\ \A n : n \notin gone => Successors(cleared, n) = Successors(edges, n)
    BY <2>1, <2>2, WithoutNames
  <2> QED BY <2>3 DEF gone
<1> HIDE DEF cleared
<1>2. /\ IsGraph(edges')
      /\ \A n : Successors(edges', n) = Successors(cleared, n) \cup IF n = r THEN {t} ELSE {}
  BY <1>1, AddEdgeFacts, NamesAreKinds DEF PassOn, cleared
<1>3. /\ holder' = [holder EXCEPT ![r] = t] /\ waiting' = [waiting EXCEPT ![t] = 0]
      /\ UNCHANGED futures
  BY DEF PassOn
<1>4. holder' \in [Resources -> LockTasks \cup {0}]
      /\ waiting' \in [LockTasks -> Resources \cup Futures \cup {0}]
  BY <1>3 DEF DetectorInv
<1>5. \A n : n # t => Successors(edges, n) \subseteq Successors(edges', n)
  BY <1>1, <1>2
<1>6. \A q \in Resources : holder'[q] # 0 => holder'[q] \in Successors(edges', q)
  BY <1>2, <1>3, <1>5, NamesAreKinds DEF DetectorInv
<1>7. \A f \in DOMAIN futures : Producer[f] \in Successors(edges', f)
  BY <1>5, NamesAreKinds DEF DetectorInv
<1>8. \A u \in LockTasks : waiting'[u] # 0 =>
          /\ waiting'[u] \in Successors(edges', u)
          /\ waiting'[u] \in Futures => waiting'[u] \in DOMAIN futures
  BY <1>3, <1>5 DEF DetectorInv
<1> QED BY <1>2, <1>3, <1>4, <1>6, <1>7, <1>8 DEF DetectorInv

\* ... a wait for a future, ...
LEMMA AwaitStep ==
    ASSUME DetectorInv, NEW t \in LockTasks, NEW f \in Futures, AwaitFuture(t, f)
    PROVE  DetectorInv'
<1> DEFINE told == AddEdge(edges, t, f)
<1>1. /\ IsGraph(told)
      /\ \A n : Successors(told, n) = Successors(edges, n) \cup IF n = t THEN {f} ELSE {}
  BY AddEdgeFacts, NamesAreKinds DEF DetectorInv
<1> HIDE DEF told
<1>2. /\ IsGraph(edges')
      /\ \A n : Successors(edges', n) =
                Successors(told, n) \cup IF n = f THEN {Producer[f]} ELSE {}
  BY <1>1, AddEdgeFacts, NamesAreKinds DEF AwaitFuture, told
<1>3. /\ waiting' = [waiting EXCEPT ![t] = f] /\ UNCHANGED holder
      /\ DOMAIN futures' = DOMAIN futures \cup {f}
  BY DEF AwaitFuture
<1>4. waiting' \in [LockTasks -> Resources \cup Futures \cup {0}]
  BY <1>3 DEF DetectorInv
<1>5. \A n : Successors(edges, n) \subseteq Successors(edges', n)
  BY <1>1, <1>2
<1>6. \A g \in DOMAIN futures' : Producer[g] \in Successors(edges', g)
  BY <1>2, <1>3, <1>5 DEF DetectorInv
<1>7. \A u \in LockTasks : waiting'[u] # 0 =>
          /\ waiting'[u] \in Successors(edges', u)
          /\ waiting'[u] \in Futures => waiting'[u] \in DOMAIN futures'
  BY <1>1, <1>2, <1>3, <1>5 DEF DetectorInv
<1> QED BY <1>2, <1>3, <1>4, <1>5, <1>6, <1>7 DEF DetectorInv

\* ... its resolution, ...
LEMMA ResolveStep ==
    ASSUME DetectorInv, NEW f \in Futures, ResolveFuture(f)
    PROVE  DetectorInv'
<1> DEFINE gone == {t \in LockTasks : waiting[t] = f}
<1>1. /\ IsGraph(edges')
      /\ \A n : n \notin gone => Successors(edges', n) = Successors(edges, n)
  <2>1. edges' = [n \in {m \in DOMAIN edges : m \notin gone} |-> edges[n]]
    BY DEF ResolveFuture
  <2>2. IsGraph(edges)
    BY DEF DetectorInv
  <2> HIDE DEF gone
  <2> QED BY <2>1, <2>2, WithoutNames
<1>2. /\ DOMAIN futures' = DOMAIN futures /\ UNCHANGED holder
      /\ waiting' = [t \in LockTasks |-> IF waiting[t] = f THEN 0 ELSE waiting[t]]
  BY DEF ResolveFuture
<1>3. waiting' \in [LockTasks -> Resources \cup Futures \cup {0}]
  BY <1>2 DEF DetectorInv
<1>4. \A q \in Resources : holder'[q] # 0 => holder'[q] \in Successors(edges', q)
  BY <1>1, <1>2, NamesAreKinds DEF DetectorInv
<1>5. \A g \in DOMAIN futures' : Producer[g] \in Successors(edges', g)
  BY <1>1, <1>2, NamesAreKinds DEF DetectorInv
<1>6. \A u \in LockTasks : waiting'[u] # 0 =>
          /\ waiting'[u] \in Successors(edges', u)
          /\ waiting'[u] \in Futures => waiting'[u] \in DOMAIN futures'
  BY <1>1, <1>2 DEF DetectorInv
<1> QED BY <1>1, <1>2, <1>3, <1>4, <1>5, <1>6 DEF DetectorInv

\* ... and a release, of which the detector is not told.
LEMMA ReleaseStep ==
    ASSUME DetectorInv, NEW r \in Resources, Release(r)
    PROVE  DetectorInv'
<1>1. holder' = [holder EXCEPT ![r] = 0] /\ UNCHANGED <<edges, futures, waiting>>
  BY DEF Release
<1>2. holder' \in [Resources -> LockTasks \cup {0}]
      /\ \A q \in Resources : holder'[q] # 0 => holder'[q] = holder[q]
  BY <1>1 DEF DetectorInv
<1> QED BY <1>1, <1>2 DEF DetectorInv

\* The graph is complete always.
LEMMA DetectorInvariant == DetectorSpec => []DetectorInv
<1>1. DetectorInit => DetectorInv
  BY NamesAreKinds DEF DetectorInit, DetectorInv, IsGraph, Successors
<1>2. DetectorInv /\ [DetectorNext]_detectorVars => DetectorInv'
  <2> SUFFICES ASSUME DetectorInv, [DetectorNext]_detectorVars PROVE DetectorInv'
    OBVIOUS
  <2>1. CASE UNCHANGED detectorVars
    BY <2>1 DEF detectorVars, DetectorInv
  <2> QED
    BY <2>1, AcquireStep, WaitStep, PassOnStep, AwaitStep, ResolveStep, ReleaseStep
    DEF DetectorNext
<1> QED BY <1>1, <1>2, PTL DEF DetectorSpec

\* Tasks that wait for one another are a trap of the graph, with what they
\* wait for.
LEMMA DeadlocksAreTraps ==
    ASSUME DetectorInv, Deadlocked
    PROVE  HasCycle(edges)
<1>1. PICK S \in SUBSET LockTasks : S # {} /\ \A t \in S : Blockers(t) \cap S # {}
  BY DEF Deadlocked
<1> DEFINE T == S \cup {waiting[t] : t \in S}
<1>2. ASSUME NEW t \in S
      PROVE  /\ waiting[t] # 0 /\ waiting[t] \in Successors(edges, t)
             /\ \E u \in S : u \in Successors(edges, waiting[t])
  <2>1. t \in LockTasks /\ waiting[t] \in Resources \cup Futures \cup {0}
        /\ 0 \notin LockTasks
    BY NamesAreKinds DEF DetectorInv
  <2>2. PICK u \in S : u \in Blockers(t)
    BY <1>1
  <2>3. CASE waiting[t] \in Resources
    <3>0. waiting[t] \notin Futures
      BY <2>3, NamesAreKinds
    <3>1. u = holder[waiting[t]] /\ u # 0
      BY <2>1, <2>2, <2>3, <3>0 DEF Blockers
    <3>2. waiting[t] # 0
      BY <2>3, NamesAreKinds
    <3> QED BY <2>1, <2>3, <3>1, <3>2 DEF DetectorInv
  <2>4. CASE waiting[t] \in Futures
    <3>1. u = Producer[waiting[t]]
      BY <2>2, <2>4, NamesAreKinds DEF Blockers
    <3>2. waiting[t] # 0
      BY <2>4, NamesAreKinds
    <3> QED BY <2>1, <2>4, <3>1, <3>2 DEF DetectorInv
  <2>5. CASE waiting[t] = 0
    <3>1. Blockers(t) = {}
      BY <2>5, NamesAreKinds DEF Blockers
    <3> QED BY <3>1, <2>2
  <2> QED BY <2>1, <2>3, <2>4, <2>5
<1>3. ASSUME NEW n \in T PROVE n \in DOMAIN edges /\ edges[n] \cap T # {}
  <2>1. CASE n \in S
    BY <1>2, <2>1 DEF Successors
  <2>2. CASE n \notin S
    <3>1. PICK t \in S : n = waiting[t]
      BY <2>2
    <3>2. PICK u \in S : u \in Successors(edges, n)
      BY <1>2, <3>1
    <3> QED BY <3>2 DEF Successors
  <2> QED BY <2>1, <2>2
<1>4. T # {} /\ T \in SUBSET DOMAIN edges
  BY <1>1, <1>3
<1> QED BY <1>3, <1>4 DEF HasCycle

(* The detector reports a cycle whenever tasks wait for one another, what it *)
(* reports is a shortest cycle of its graph, and where it reports none there *)
(* is none.                                                                  *)
THEOREM DetectorMissesNone == DetectorSpec => []MissesNoDeadlock
<1>1. ASSUME DetectorInv PROVE MissesNoDeadlock
  <2> DEFINE cycle == MinimalCycle(edges)
  <2>1. IsGraph(edges)
    BY <1>1 DEF DetectorInv
  <2>2. /\ cycle # <<>> => /\ IsCycle(edges, cycle)
                           /\ \A k \in 1..(Len(cycle) - 1) : Cycles(edges, k) = {}
        /\ cycle = <<>> => \A k \in Nat \ {0} : Cycles(edges, k) = {}
    BY <2>1, MinimalCycles
  <2> HIDE DEF cycle
  <2>3. cycle = <<>> => ~ HasCycle(edges)
    BY <2>1, <2>2, TrapsHaveCycles
  <2>4. Deadlocked => cycle # <<>>
    BY <1>1, <2>3, DeadlocksAreTraps
  <2> QED BY <2>2, <2>3, <2>4 DEF MissesNoDeadlock, cycle
<1> QED BY <1>1, DetectorInvariant, PTL
-----------------------------------------------------------------------------
(* Collectives.  The ranks from lo on, w of them, in their order: what the   *)
(* values that a schedule has put together are made of.                      *)
RanksFrom(lo, w) == [i \in 1..w |-> lo + i - 1]

\* Lists by their length and their elements.
LEMMA SameList ==
    ASSUME NEW n \in Nat, NEW s \in Seq(Nat), NEW t \in Seq(Nat), Len(s) = n, Len(t) = n,
           \A i \in 1..n : s[i] = t[i]
    PROVE  s = t
  OBVIOUS

\* A run is a list, and runs that meet make a longer one.
LEMMA RunIsList ==
    ASSUME NEW lo \in Nat, NEW w \in Nat
    PROVE  RanksFrom(lo, w) \in Seq(Nat) /\ Len(RanksFrom(lo, w)) = w
  BY DEF RanksFrom

IsOf(s, n) == s \in Seq(Nat) /\ Len(s) = n

Joins(c, s, v, t, w) ==
    /\ IsOf(c, v + w)
    /\ \A i \in 1..v : c[i] = s[i]
    /\ \A i \in 1..w : c[v + i] = t[i]

\* The elements of two lists put together.
LEMMA ListsJoin ==
    ASSUME NEW v \in Nat, NEW w \in Nat, NEW s, NEW t, IsOf(s, v), IsOf(t, w)
    PROVE  Joins(s \o t, s, v, t, w)
<1>1. s \in Seq(Nat) /\ t \in Seq(Nat) /\ Len(s) = v /\ Len(t) = w
  BY DEF IsOf
<1>2. s \o t \in Seq(Nat) /\ Len(s \o t) = v + w
  BY <1>1
<1>3. \A i \in 1..(v + w) : (s \o t)[i] = IF i <= v THEN s[i] ELSE t[i - v]
  BY <1>1, ConcatProperties
<1> DEFINE c == s \o t
<1> HIDE DEF c
<1>4. \A i \in 1..(v + w) : c[i] = IF i <= v THEN s[i] ELSE t[i - v]
  BY <1>3 DEF c
<1>5. \A i \in 1..w : v + i \in 1..(v + w) /\ ~ (v + i <= v) /\ v + i - v = i
  OBVIOUS
<1>6. \A i \in 1..v : i \in 1..(v + w) /\ i <= v
  OBVIOUS
<1>7. IsOf(c, v + w)
  BY <1>2 DEF IsOf, c
<1>8. Joins(c, s, v, t, w)
  BY <1>4, <1>5, <1>6, <1>7 DEF Joins
<1> QED BY <1>8 DEF c

\* A run of ranks goes on where another ends.
LEMMA RunsMeet ==
    ASSUME NEW lo \in Nat, NEW v \in Nat, NEW w \in Nat
    PROVE  RanksFrom(lo, v) \o RanksFrom(lo + v, w) = RanksFrom(lo, v + w)
<1>1. lo + v \in Nat /\ v + w \in Nat
  OBVIOUS
<1>2. IsOf(RanksFrom(lo, v), v)
  BY RunIsList DEF IsOf
<1>3. IsOf(RanksFrom(lo + v, w), w)
  BY <1>1, RunIsList DEF IsOf
<1>4. IsOf(RanksFrom(lo, v + w), v + w)
  BY <1>1, RunIsList DEF IsOf
<1> DEFINE c == RanksFrom(lo, v) \o RanksFrom(lo + v, w)
<1>5. Joins(c, RanksFrom(lo, v), v, RanksFrom(lo + v, w), w)
  BY <1>2, <1>3, ListsJoin
<1> HIDE DEF c
<1>6. ASSUME NEW i \in 1..(v + w) PROVE c[i] = RanksFrom(lo, v + w)[i]
  <2>1. CASE i <= v
    <3>1. i \in 1..v
      BY <2>1
    <3>2. c[i] = RanksFrom(lo, v)[i]
      BY <1>5, <3>1 DEF Joins
    <3> QED BY <3>1, <3>2 DEF RanksFrom
  <2>2. CASE i > v
    <3>1. i - v \in 1..w /\ v + (i - v) = i
      BY <2>2
    <3>2. c[i] = RanksFrom(lo + v, w)[i - v]
      BY <1>5, <3>1 DEF Joins
    <3> QED BY <3>1, <3>2 DEF RanksFrom
  <2> QED BY <2>1, <2>2
<1>7. c = RanksFrom(lo, v + w)
  BY <1>1, <1>4, <1>5, <1>6, SameList DEF IsOf, Joins
<1> QED BY <1>7 DEF c

\* All ranks are a run, and so is one.
LEMMA RunsOfRanks ==
    /\ \A k \in Nat : UpTo(k) = RanksFrom(0, k)
    /\ \A r \in Nat : <<r>> = RanksFrom(r, 1)
<1>1. ASSUME NEW k \in Nat PROVE UpTo(k) = RanksFrom(0, k)
  BY DEF UpTo, RanksFrom
<1>2. ASSUME NEW r \in Nat PROVE <<r>> = RanksFrom(r, 1)
  <2>1. <<r>> \in Seq(Nat) /\ Len(<<r>>) = 1 /\ <<r>>[1] = r /\ RanksFrom(r, 1)[1] = r
    BY DEF RanksFrom
  <2>2. RanksFrom(r, 1) \in Seq(Nat) /\ Len(RanksFrom(r, 1)) = 1
    BY RunIsList
  <2> QED BY <2>1, <2>2, SameList
<1> QED BY <1>1, <1>2
-----------------------------------------------------------------------------
(* Distances double.                                                        *)
LEMMA DistDoubles ==
    ASSUME CollectivesAssumption
    PROVE  /\ Dist[0] = 1
           /\ \A k \in 1..MaxWorkers : Dist[k] = 2 * Dist[k - 1]
           /\ \A k \in 0..MaxWorkers : Dist[k] \in Nat /\ Dist[k] > k
<1> DEFINE most == MaxWorkers
           Step == [k \in 1..most |-> [d \in Nat |-> 2 * d]]
           Solves(f) == f = [k \in 0..most |-> IF k = 0 THEN 1 ELSE 2 * f[k - 1]]
<1>1. most \in Nat
  BY DEF CollectivesAssumption
<1>2. Dist = CHOOSE f : Solves(f)
  BY DEF Dist
<1> HIDE DEF most
<1>3. Step \in Steps(most, Nat) /\ 1 \in Nat /\ \A k \in 1..most : \A d \in Nat : Step[k][d] = 2 * d
  BY DEF Steps
<1> HIDE DEF Step
<1>4. PICK f : IsTable(f, most, Nat, 1, Step)
  BY <1>1, <1>3, StepRecursion
<1>5. Solves(f)
  <2>1. f \in [0..most -> Nat] /\ f[0] = 1 /\ \A k \in 1..most : f[k] = Step[k][f[k - 1]]
    BY <1>4 DEF IsTable
  <2>2. \A k \in 1..most : k - 1 \in 0..most
    BY <1>1
  <2>3. \A k \in 1..most : f[k] = 2 * f[k - 1]
    BY <2>1, <2>2, <1>3
  <2>4. \A k \in 0..most : k = 0 \/ k \in 1..most
    BY <1>1
  <2> QED BY <2>1, <2>3, <2>4
<1>6. Solves(Dist)
  <2> HIDE DEF Solves
  <2> QED BY <1>2, <1>5
<1>7. Dist[0] = 1 /\ \A k \in 1..most : Dist[k] = 2 * Dist[k - 1]
  <2>1. \A k \in 0..most : Dist[k] = IF k = 0 THEN 1 ELSE 2 * Dist[k - 1]
    BY <1>6
  <2> QED BY <2>1, <1>1
<1> DEFINE S == {k \in 0..most : Dist[k] \in Nat /\ Dist[k] > k}
<1>8. 0 \in S
  BY <1>7, <1>1
<1>9. \A k \in 1..most : k - 1 \in S => k \in S
  BY <1>7, <1>1
<1> HIDE DEF S
<1>10. 0..most \subseteq S
  BY <1>1, <1>8, <1>9, BoundedInduction
<1> QED BY <1>7, <1>10 DEF S, most

IsRounds(R, n) ==
    /\ R \in 0..n /\ R \in Nat /\ R <= MaxWorkers /\ Dist[R] >= n
    /\ \A j \in 0..(R - 1) : Dist[j] < n

\* A loop ends at the first distance that is not below n.
LEMMA RoundsAre ==
    ASSUME CollectivesAssumption, NEW n \in 1..MaxWorkers
    PROVE  IsRounds(Rounds(n), n)
<1> DEFINE S == {k \in 0..n : Dist[k] >= n}
           Stops(k) == Dist[k] >= n /\ \A j \in 0..(k - 1) : Dist[j] < n
<1>1. MaxWorkers \in Nat /\ n \in Nat /\ n <= MaxWorkers
  BY DEF CollectivesAssumption
<1>2. \A k \in 0..n : Dist[k] \in Nat /\ Dist[k] > k
  BY <1>1, DistDoubles
<1>3. S \subseteq Nat /\ n \in S
  BY <1>1, <1>2
<1>4. PICK k \in S : \A m \in S : k <= m
  <2> HIDE DEF S
  <2> QED BY <1>3, LeastNatural
<1>5. k \in 0..n /\ Stops(k)
  <2>1. k \in 0..n /\ Dist[k] >= n
    BY <1>4
  <2>2. ASSUME NEW j \in 0..(k - 1) PROVE Dist[j] < n
    <3>1. j \in 0..n /\ j < k
      BY <2>1, <1>1
    <3>2. j \notin S
      BY <3>1, <2>1, <1>4
    <3> QED BY <3>1, <3>2, <1>1, <1>2
  <2> QED BY <2>1, <2>2
<1>6. Rounds(n) = CHOOSE x \in 0..n : Stops(x)
  BY DEF Rounds
<1>7. Rounds(n) \in 0..n /\ Stops(Rounds(n))
  <2> HIDE DEF Stops
  <2> QED BY <1>5, <1>6
<1> QED BY <1>1, <1>7 DEF IsRounds

-----------------------------------------------------------------------------
(* What is kept of the list of all ranks: c says what is kept of the first   *)
(* i of them.                                                                *)
KeepsOf(c, S, n) ==
    /\ c[0] = <<>>
    /\ \A i \in 1..n :
          c[i] = IF i - 1 \in S THEN Append(c[i - 1], i - 1) ELSE c[i - 1]

\* What is kept of all ranks is collected one rank after the other.
LEMMA KeptOfAll ==
    ASSUME NEW n \in Nat, NEW S, NEW c, KeepsOf(c, S, n)
    PROVE  Kept(All(n), S) = c[n]
<1> DEFINE s == UpTo(n)
<1>1. s \in Seq(Nat) /\ Len(s) = n /\ \A i \in 1..n : s[i] = i - 1
  BY DEF UpTo
<1> HIDE DEF s
<1>2. PICK g : Tabulates(g, s, S, Len(s)) /\ Kept(s, S) = g[Len(s)]
  BY <1>1, KeptIsDefined
<1>3. \A i \in 0..n :
         g[i] = IF i = 0 THEN <<>>
                ELSE IF s[i] \in S THEN Append(g[i - 1], s[i]) ELSE g[i - 1]
  BY <1>1, <1>2 DEF Tabulates
<1>4. g[0] = <<>> /\ \A i \in 1..n :
         g[i] = IF i - 1 \in S THEN Append(g[i - 1], i - 1) ELSE g[i - 1]
  <2>1. \A i \in 1..n : i \in 0..n /\ i # 0
    OBVIOUS
  <2>2. 0 \in 0..n
    OBVIOUS
  <2> QED BY <1>1, <1>3, <2>1, <2>2
<1> DEFINE T == {i \in 0..n : g[i] = c[i]}
<1>5. 0 \in T
  BY <1>4 DEF KeepsOf
<1>6. \A i \in 1..n : i - 1 \in T => i \in T
  BY <1>4 DEF KeepsOf
<1> HIDE DEF T
<1>7. 0..n \subseteq T
  BY <1>5, <1>6, BoundedInduction
<1>8. g[n] = c[n]
  BY <1>7 DEF T
<1> QED BY <1>1, <1>2, <1>8 DEF s, All

\* One rank more.
LEMMA NextRank ==
    ASSUME NEW k \in Nat
    PROVE  /\ UpTo(0) = <<>> /\ Append(UpTo(k), k) = UpTo(k + 1)
           /\ UpTo(k) \o <<k>> = UpTo(k + 1)
<1>1. UpTo(0) = <<>>
  BY DEF UpTo
<1>2. UpTo(k) \in Seq(Nat) /\ Len(UpTo(k)) = k /\ UpTo(k + 1) \in Seq(Nat) /\ Len(UpTo(k + 1)) = k + 1
  BY DEF UpTo
<1> DEFINE a == Append(UpTo(k), k)
<1>3. a \in Seq(Nat) /\ Len(a) = k + 1 /\ a[k + 1] = k /\ \A i \in 1..k : a[i] = UpTo(k)[i]
  BY <1>2
<1> HIDE DEF a
<1>4. ASSUME NEW i \in 1..(k + 1) PROVE a[i] = UpTo(k + 1)[i]
  <2>1. CASE i = k + 1
    BY <2>1, <1>3 DEF UpTo
  <2>2. CASE i # k + 1
    BY <2>2, <1>3 DEF UpTo
  <2> QED BY <2>1, <2>2
<1>5. a = UpTo(k + 1)
  BY <1>2, <1>3, <1>4, SameList
<1>6. UpTo(k) = RanksFrom(0, k) /\ <<k>> = RanksFrom(k, 1) /\ UpTo(k + 1) = RanksFrom(0, k + 1)
  BY RunsOfRanks
<1>7. RanksFrom(0, k) \o RanksFrom(0 + k, 1) = RanksFrom(0, k + 1)
  BY RunsMeet
<1> QED BY <1>1, <1>5, <1>6, <1>7 DEF a

\* A condition that all ranks meet keeps all.
LEMMA AllAreKept ==
    ASSUME NEW n \in Nat, NEW S, Ranks(n) \subseteq S
    PROVE  Kept(All(n), S) = All(n)
<1> DEFINE c == [i \in 0..n |-> UpTo(i)]
<1>1. KeepsOf(c, S, n)
  <2>1. c[0] = <<>>
    <3>1. UpTo(0) = <<>>
      BY NextRank
    <3>2. c[0] = UpTo(0)
      OBVIOUS
    <3> QED BY <3>1, <3>2
  <2>2. ASSUME NEW i \in 1..n
        PROVE  c[i] = IF i - 1 \in S THEN Append(c[i - 1], i - 1) ELSE c[i - 1]
    <3>1. i - 1 \in S /\ i - 1 \in Nat /\ c[i] = UpTo(i) /\ c[i - 1] = UpTo(i - 1)
      BY DEF Ranks
    <3>2. Append(UpTo(i - 1), i - 1) = UpTo(i - 1 + 1)
      BY <3>1, NextRank
    <3> QED BY <3>1, <3>2
  <2> QED BY <2>1, <2>2 DEF KeepsOf
<1>2. c[n] = UpTo(n)
  OBVIOUS
<1> HIDE DEF c
<1> QED BY <1>1, <1>2, KeptOfAll DEF All

\* One rank alone.
LEMMA OneIsKept ==
    ASSUME NEW n \in Nat, NEW k \in Ranks(n)
    PROVE  Kept(All(n), {k}) = <<k>>
<1> DEFINE c == [i \in 0..n |-> IF i <= k THEN <<>> ELSE <<k>>]
<1>0. k \in Nat /\ k < n
  BY DEF Ranks
<1>1. KeepsOf(c, {k}, n)
  <2>1. c[0] = <<>>
    BY <1>0
  <2>2. ASSUME NEW i \in 1..n
        PROVE  c[i] = IF i - 1 \in {k} THEN Append(c[i - 1], i - 1) ELSE c[i - 1]
    <3>1. CASE i - 1 = k
      <4>1. c[i] = <<k>> /\ c[i - 1] = <<>>
        BY <3>1, <1>0
      <4>2. Append(<<>>, k) = <<k>>
        OBVIOUS
      <4> QED BY <4>1, <4>2, <3>1
    <3>2. CASE i - 1 # k
      BY <3>2, <1>0
    <3> QED BY <3>1, <3>2
  <2> QED BY <2>1, <2>2 DEF KeepsOf
<1>2. c[n] = <<k>>
  BY <1>0
<1> HIDE DEF c
<1> QED BY <1>1, <1>2, KeptOfAll

\* All but one, as what a rank reduces besides its own.
OtherRanks(m, k) ==
    IF m <= k THEN UpTo(m) ELSE [i \in 1..(m - 1) |-> IF i - 1 < k THEN i - 1 ELSE i]

\* All ranks but one, as the list that leaves it out.
LEMMA OthersAreKept ==
    ASSUME NEW n \in Nat, NEW k \in Ranks(n)
    PROVE  Kept(All(n), Ranks(n) \ {k}) = OtherRanks(n, k)
<1> DEFINE c == [i \in 0..n |-> OtherRanks(i, k)]
<1>0. k \in Nat /\ k < n
  BY DEF Ranks
<1>1. KeepsOf(c, Ranks(n) \ {k}, n)
  <2>1. c[0] = <<>>
    <3>1. UpTo(0) = <<>>
      BY NextRank
    <3>2. c[0] = OtherRanks(0, k)
      OBVIOUS
    <3> QED BY <3>1, <3>2, <1>0 DEF OtherRanks
  <2>2. ASSUME NEW i \in 1..n
        PROVE  c[i] = IF i - 1 \in Ranks(n) \ {k} THEN Append(c[i - 1], i - 1) ELSE c[i - 1]
    <3>0. i - 1 \in Nat /\ i - 1 \in Ranks(n) /\ c[i] = OtherRanks(i, k) /\ c[i - 1] = OtherRanks(i - 1, k)
      BY DEF Ranks
    <3>1. CASE i - 1 = k
      <4>1. c[i - 1] = UpTo(k)
        BY <3>0, <3>1, <1>0 DEF OtherRanks
      <4>2. c[i] = [j \in 1..k |-> IF j - 1 < k THEN j - 1 ELSE j]
        BY <3>0, <3>1, <1>0 DEF OtherRanks
      <4>3. c[i] = UpTo(k)
        BY <4>2, <1>0 DEF UpTo
      <4> QED BY <3>1, <4>1, <4>3
    <3>2. CASE i - 1 < k
      <4>1. c[i] = UpTo(i) /\ c[i - 1] = UpTo(i - 1)
        BY <3>0, <3>2, <1>0 DEF OtherRanks
      <4>2. Append(UpTo(i - 1), i - 1) = UpTo(i - 1 + 1)
        BY <3>0, NextRank
      <4>3. i - 1 + 1 = i /\ i - 1 \in Ranks(n) \ {k}
        BY <3>0, <3>2, <1>0
      <4> HIDE DEF c
      <4> QED BY <4>1, <4>2, <4>3
    <3>3. CASE i - 1 > k
      <4> DEFINE p == [j \in 1..(i - 2) |-> IF j - 1 < k THEN j - 1 ELSE j]
                 q == [j \in 1..(i - 1) |-> IF j - 1 < k THEN j - 1 ELSE j]
                 a == Append(p, i - 1)
      <4>1. c[i] = q /\ c[i - 1] = p
        BY <3>0, <3>3, <1>0 DEF OtherRanks
      <4>2. i - 2 \in Nat /\ i - 1 \in Nat
        BY <3>3, <1>0
      <4>3. p \in Seq(Nat) /\ Len(p) = i - 2 /\ q \in Seq(Nat) /\ Len(q) = i - 1
        BY <4>2, <1>0
      <4>4. \A j \in 1..(i - 2) : p[j] = q[j]
        OBVIOUS
      <4>5. q[i - 1] = i - 1
        BY <3>3, <1>0, <4>2
      <4> HIDE DEF p, q
      <4>6. /\ a \in Seq(Nat) /\ Len(a) = i - 1 /\ a[i - 1] = i - 1
            /\ \A j \in 1..(i - 2) : a[j] = p[j]
        BY <4>2, <4>3
      <4> HIDE DEF a
      <4>7. \A j \in 1..(i - 1) : a[j] = q[j]
        BY <4>2, <4>4, <4>5, <4>6
      <4>8. a = q
        BY <4>2, <4>3, <4>6, <4>7, SameList
      <4> QED BY <4>1, <4>8, <3>0, <3>3, <1>0 DEF a
    <3> QED BY <3>1, <3>2, <3>3, <1>0
  <2> QED BY <2>1, <2>2 DEF KeepsOf
<1>2. c[n] = OtherRanks(n, k)
  OBVIOUS
<1> HIDE DEF c
<1> QED BY <1>1, <1>2, KeptOfAll

\* So a list of one rank and all others has each rank once.
LEMMA OneAndOthers ==
    ASSUME NEW n \in Nat, NEW k \in Ranks(n)
    PROVE  OnceEach(<<k>> \o Kept(All(n), Ranks(n) \ {k}), n)
<1> DEFINE o == OtherRanks(n, k)
           c == <<k>> \o o
<1>0. k \in Nat /\ k < n /\ n - 1 \in Nat /\ 1 + (n - 1) = n
  BY DEF Ranks
<1>1. o = [i \in 1..(n - 1) |-> IF i - 1 < k THEN i - 1 ELSE i]
  BY <1>0 DEF OtherRanks
<1>2. IsOf(o, n - 1)
  BY <1>0, <1>1 DEF IsOf
<1>3. IsOf(<<k>>, 1)
  BY <1>0 DEF IsOf
<1>4. Joins(c, <<k>>, 1, o, n - 1)
  <2> HIDE DEF o
  <2> QED BY <1>0, <1>2, <1>3, ListsJoin
<1>5. o[k] = k - 1 \/ k = 0
  BY <1>0, <1>1
<1>6. \A i \in 1..(n - 1) : o[i] \in Ranks(n)
  BY <1>0, <1>1 DEF Ranks
<1>7. \A r \in Ranks(n) : r # k => \E i \in 1..(n - 1) : o[i] = r
  <2> SUFFICES ASSUME NEW r \in Ranks(n), r # k PROVE \E i \in 1..(n - 1) : o[i] = r
    OBVIOUS
  <2>1. CASE r < k
    <3>1. r + 1 \in 1..(n - 1) /\ o[r + 1] = r
      BY <2>1, <1>0, <1>1 DEF Ranks
    <3> QED BY <3>1
  <2>2. CASE r > k
    <3>1. r \in 1..(n - 1) /\ o[r] = r
      BY <2>2, <1>0, <1>1 DEF Ranks
    <3> QED BY <3>1
  <2> QED BY <2>1, <2>2, <1>0 DEF Ranks
<1> HIDE DEF o, c
<1>8. /\ c \in Seq(Nat) /\ Len(c) = n /\ c[1] = k
      /\ \A i \in 1..(n - 1) : c[1 + i] = o[i]
  <2>1. <<k>>[1] = k /\ 1 \in 1..1
    OBVIOUS
  <2> QED BY <1>0, <1>4, <2>1 DEF Joins, IsOf
<1>9. DOMAIN c = 1..n
  BY <1>8
<1>10. \A i \in 1..n : c[i] \in Ranks(n)
  <2> SUFFICES ASSUME NEW i \in 1..n PROVE c[i] \in Ranks(n)
    OBVIOUS
  <2>1. CASE i = 1
    BY <2>1, <1>8
  <2>2. CASE i # 1
    <3>1. i - 1 \in 1..(n - 1) /\ 1 + (i - 1) = i
      BY <2>2, <1>0
    <3> QED BY <3>1, <1>6, <1>8
  <2> QED BY <2>1, <2>2
<1>11. \A r \in Ranks(n) : \E i \in 1..n : c[i] = r
  <2> SUFFICES ASSUME NEW r \in Ranks(n) PROVE \E i \in 1..n : c[i] = r
    OBVIOUS
  <2>1. CASE r = k
    <3>1. 1 \in 1..n
      BY <1>0
    <3> QED BY <3>1, <2>1, <1>8
  <2>2. CASE r # k
    <3>1. PICK i \in 1..(n - 1) : o[i] = r
      BY <2>2, <1>7
    <3>2. 1 + i \in 1..n
      BY <1>0
    <3> QED BY <3>1, <3>2, <1>8
  <2> QED BY <2>1, <2>2
<1>12. OnceEach(c, n)
  BY <1>8, <1>9, <1>10, <1>11 DEF OnceEach
<1> QED BY <1>12, OthersAreKept DEF c, o

-----------------------------------------------------------------------------
(* Ranks modulo n.                                                          *)
LEMMA WrapsOnce ==
    ASSUME NEW n \in Nat, n > 0, NEW x \in Nat, x < 2 * n
    PROVE  x % n = IF x < n THEN x ELSE x - n
<1>1. CASE x < n
  BY <1>1, SMTT(30)
<1>2. CASE x >= n
  <2> DEFINE s == x - n
  <2>1. s \in Nat /\ s < n /\ x = n + s
    BY <1>2
  <2> HIDE DEF s
  <2>2. (n + s) % n = s
    BY <2>1, SMTT(30)
  <2> QED BY <2>1, <2>2
<1> QED BY <1>1, <1>2

\* Counting n ranks up from one, wherever, passes all.
LEMMA UpTheRing ==
    ASSUME NEW n \in Nat, NEW root \in Ranks(n), NEW r \in Ranks(n)
    PROVE  \E i \in Ranks(n) : (root + i) % n = r
<1>1. root \in Nat /\ root < n /\ r \in Nat /\ r < n /\ n > 0
  BY DEF Ranks
<1>2. CASE r >= root
  <2>1. r - root \in Ranks(n) /\ root + (r - root) = r /\ r < 2 * n
    BY <1>1, <1>2 DEF Ranks
  <2>2. r % n = r
    BY <1>1, <2>1, WrapsOnce
  <2> QED BY <2>1, <2>2
<1>3. CASE r < root
  <2>1. /\ r + n - root \in Ranks(n) /\ root + (r + n - root) = r + n
        /\ r + n \in Nat /\ r + n < 2 * n /\ ~ (r + n < n) /\ r + n - n = r
    BY <1>1, <1>3 DEF Ranks
  <2>2. (r + n) % n = r
    BY <1>1, <2>1, WrapsOnce
  <2> QED BY <2>1, <2>2
<1> QED BY <1>1, <1>2, <1>3

\* And so does counting down.
LEMMA DownTheRing ==
    ASSUME NEW n \in Nat, NEW root \in Ranks(n), NEW r \in Ranks(n)
    PROVE  \E i \in Ranks(n) : (root + n - i) % n = r
<1>1. root \in Nat /\ root < n /\ r \in Nat /\ r < n /\ n > 0
  BY DEF Ranks
<1>2. CASE r <= root
  <2>1. /\ root - r \in Ranks(n) /\ root + n - (root - r) = r + n
        /\ r + n \in Nat /\ r + n < 2 * n /\ ~ (r + n < n) /\ r + n - n = r
    BY <1>1, <1>2 DEF Ranks
  <2>2. (r + n) % n = r
    BY <1>1, <2>1, WrapsOnce
  <2> QED BY <2>1, <2>2
<1>3. CASE r > root
  <2>1. root + n - r \in Ranks(n) /\ root + n - (root + n - r) = r /\ r < 2 * n
    BY <1>1, <1>3 DEF Ranks
  <2>2. r % n = r
    BY <1>1, <2>1, WrapsOnce
  <2> QED BY <2>1, <2>2
<1> QED BY <1>1, <1>2, <1>3

\* A remainder is a rank.
LEMMA RemainderIsRank ==
    ASSUME NEW n \in Nat, n > 0, NEW x \in Nat
    PROVE  x % n \in Ranks(n)
  BY SMTT(30) DEF Ranks

\* The transfers round the ring reach all ranks.
LEMMA RingReachesAll ==
    ASSUME NEW n \in Nat, NEW root \in Ranks(n)
    PROVE  Ranks(n) \subseteq RingReach(root, n)
<1> SUFFICES ASSUME NEW r \in Ranks(n) PROVE r \in RingReach(root, n)
  OBVIOUS
<1>1. root \in Nat /\ root < n
  BY DEF Ranks
<1>2. PICK i \in Ranks(n) : (root + i) % n = r
  BY UpTheRing
<1>3. CASE i = 0
  <2>1. root + i = root /\ root < 2 * n
    BY <1>1, <1>3
  <2>2. root % n = root
    BY <1>1, WrapsOnce
  <2> QED BY <1>2, <2>1, <2>2 DEF RingReach
<1>4. CASE i # 0
  <2>1. i - 1 \in Ranks(n - 1) /\ root + (i - 1) + 1 = root + i
    BY <1>1, <1>4 DEF Ranks
  <2> QED BY <1>2, <2>1 DEF RingReach
<1> QED BY <1>3, <1>4

\* What arrives round the ring is one value of each other rank.
LEMMA AroundHasAll ==
    ASSUME NEW n \in Nat, NEW root \in Ranks(n)
    PROVE  /\ Len(<<root>> \o AroundTo(n, root)) = n
           /\ OnceEach(<<root>> \o AroundTo(n, root), n)
<1> DEFINE o == AroundTo(n, root)
           c == <<root>> \o o
<1>0. root \in Nat /\ root < n /\ n - 1 \in Nat /\ 1 + (n - 1) = n /\ n > 0
  BY DEF Ranks
<1>1. \A i \in 1..(n - 1) : (root + i) % n \in Ranks(n)
  BY <1>0, RemainderIsRank
<1>2. o = [i \in 1..(n - 1) |-> (root + i) % n]
  BY DEF AroundTo
<1>3. \A i \in 1..(n - 1) : o[i] = (root + i) % n /\ o[i] \in Ranks(n) /\ o[i] \in Nat
  BY <1>1, <1>2 DEF Ranks
<1>4. IsOf(o, n - 1)
  BY <1>0, <1>2, <1>3 DEF IsOf
<1>5. IsOf(<<root>>, 1)
  BY <1>0 DEF IsOf
<1>6. Joins(c, <<root>>, 1, o, n - 1)
  <2> HIDE DEF o
  <2> QED BY <1>0, <1>4, <1>5, ListsJoin
<1>7. root % n = root
  <2>1. root < 2 * n
    BY <1>0
  <2> QED BY <1>0, <2>1, WrapsOnce
<1> HIDE DEF o, c
<1>8. /\ c \in Seq(Nat) /\ Len(c) = n /\ c[1] = root
      /\ \A i \in 1..(n - 1) : c[1 + i] = o[i]
  <2>1. <<root>>[1] = root /\ 1 \in 1..1
    OBVIOUS
  <2> QED BY <1>0, <1>6, <2>1 DEF Joins, IsOf
<1>9. DOMAIN c = 1..n
  BY <1>8
<1>10. \A i \in 1..n : c[i] \in Ranks(n)
  <2> SUFFICES ASSUME NEW i \in 1..n PROVE c[i] \in Ranks(n)
    OBVIOUS
  <2>1. CASE i = 1
    BY <2>1, <1>8
  <2>2. CASE i # 1
    <3>1. i - 1 \in 1..(n - 1) /\ 1 + (i - 1) = i
      BY <2>2, <1>0
    <3> QED BY <3>1, <1>3, <1>8
  <2> QED BY <2>1, <2>2
<1>11. \A r \in Ranks(n) : \E i \in 1..n : c[i] = r
  <2> SUFFICES ASSUME NEW r \in Ranks(n) PROVE \E i \in 1..n : c[i] = r
    OBVIOUS
  <2>1. PICK i \in Ranks(n) : (root + i) % n = r
    BY UpTheRing
  <2>2. CASE i = 0
    <3>1. root + i = root /\ 1 \in 1..n
      BY <2>2, <1>0
    <3> QED BY <2>1, <3>1, <1>7, <1>8
  <2>3. CASE i # 0
    <3>1. i \in 1..(n - 1) /\ 1 + i \in 1..n
      BY <2>3, <1>0 DEF Ranks
    <3> QED BY <2>1, <3>1, <1>3, <1>8
  <2> QED BY <2>2, <2>3
<1>12. OnceEach(c, n)
  BY <1>8, <1>9, <1>10, <1>11 DEF OnceEach
<1> QED BY <1>8, <1>12 DEF c, o

\* The order in which the ring folds at rank r has each rank once.
LEMMA RotationHasAll ==
    ASSUME NEW n \in Nat, NEW r \in Ranks(n)
    PROVE  OnceEach([i \in 1..n |-> (r + n - (i - 1)) % n], n)
<1> DEFINE c == [i \in 1..n |-> (r + n - (i - 1)) % n]
<1>0. r \in Nat /\ r < n /\ n > 0
  BY DEF Ranks
<1>1. \A i \in 1..n : c[i] \in Ranks(n)
  <2> SUFFICES ASSUME NEW i \in 1..n PROVE (r + n - (i - 1)) % n \in Ranks(n)
    OBVIOUS
  <2>1. r + n - (i - 1) \in Nat
    BY <1>0
  <2> QED BY <1>0, <2>1, RemainderIsRank
<1>2. \A k \in Ranks(n) : \E i \in 1..n : c[i] = k
  <2> SUFFICES ASSUME NEW k \in Ranks(n) PROVE \E i \in 1..n : (r + n - (i - 1)) % n = k
    OBVIOUS
  <2>1. PICK j \in Ranks(n) : (r + n - j) % n = k
    BY DownTheRing
  <2>2. j + 1 \in 1..n /\ (j + 1) - 1 = j
    BY <1>0 DEF Ranks
  <2> QED BY <2>1, <2>2
<1>3. Len(c) = n /\ DOMAIN c = 1..n
  OBVIOUS
<1> QED BY <1>1, <1>2, <1>3 DEF OnceEach

\* What is passed on round the ring n - 1 times has been everywhere.
LEMMA RotationsCover ==
    ASSUME NEW n \in Nat, NEW r \in Ranks(n)
    PROVE  /\ Ranks(n) \subseteq {(r + n - s) % n : s \in Ranks(n)}
           /\ Ranks(n) \subseteq {r} \cup {(r + n - k) % n : k \in 1..(n - 1)}
<1>0. r \in Nat /\ r < n /\ n > 0
  BY DEF Ranks
<1>1. ASSUME NEW k \in Ranks(n)
      PROVE  /\ k \in {(r + n - s) % n : s \in Ranks(n)}
             /\ k \in {r} \cup {(r + n - j) % n : j \in 1..(n - 1)}
  <2>1. PICK i \in Ranks(n) : (r + n - i) % n = k
    BY DownTheRing
  <2>2. CASE i = 0
    <3>1. r + n - i = r + n /\ r + n \in Nat /\ r + n < 2 * n /\ ~ (r + n < n) /\ r + n - n = r
      BY <1>0, <2>2
    <3>2. (r + n) % n = r
      BY <1>0, <3>1, WrapsOnce
    <3> QED BY <2>1, <3>1, <3>2
  <2>3. CASE i # 0
    <3>1. i \in 1..(n - 1)
      BY <2>3, <1>0 DEF Ranks
    <3> QED BY <2>1, <3>1
  <2> QED BY <2>2, <2>3
<1> QED BY <1>1

-----------------------------------------------------------------------------
(* The rounds of a loop over the distances.                                 *)
RoundFacts(n, R) ==
    /\ R \in Nat /\ n \in Nat /\ n > 0 /\ Dist[R] >= n /\ Dist[0] = 1 /\ Dist[R] \in Nat
    /\ \A k \in 1..R : k - 1 \in 0..R
    /\ \A k \in 1..R : /\ Dist[k - 1] \in Nat /\ Dist[k - 1] > 0 /\ Dist[k - 1] < n
                       /\ Dist[k] \in Nat /\ Dist[k] = 2 * Dist[k - 1]

\* The number of rounds of a size has the facts the doubling needs.
LEMMA RoundsOf ==
    ASSUME CollectivesAssumption, NEW n \in 1..MaxWorkers
    PROVE  RoundFacts(n, Rounds(n))
<1> DEFINE R == Rounds(n)
<1>1. IsRounds(R, n)
  BY RoundsAre
<1>2. MaxWorkers \in Nat /\ n \in Nat /\ n > 0
  BY DEF CollectivesAssumption
<1> HIDE DEF R
<1>3. R \in Nat /\ R <= MaxWorkers /\ Dist[R] >= n /\ \A j \in 0..(R - 1) : Dist[j] < n
  BY <1>1 DEF IsRounds
<1>4. Dist[0] = 1 /\ Dist[R] \in Nat
  BY <1>2, <1>3, DistDoubles
<1>5. \A k \in 1..R : k - 1 \in 0..R /\ k - 1 \in 0..(R - 1) /\ k - 1 \in 0..MaxWorkers /\ k \in 1..MaxWorkers
                      /\ k \in 0..MaxWorkers
  BY <1>2, <1>3
<1>6. \A k \in 1..R : /\ Dist[k - 1] \in Nat /\ Dist[k - 1] > 0 /\ Dist[k - 1] < n
                      /\ Dist[k] \in Nat /\ Dist[k] = 2 * Dist[k - 1]
  <2> SUFFICES ASSUME NEW k \in 1..R
               PROVE  /\ Dist[k - 1] \in Nat /\ Dist[k - 1] > 0 /\ Dist[k - 1] < n
                      /\ Dist[k] \in Nat /\ Dist[k] = 2 * Dist[k - 1]
    OBVIOUS
  <2>1. Dist[k - 1] \in Nat /\ Dist[k - 1] > k - 1 /\ Dist[k] = 2 * Dist[k - 1] /\ Dist[k] \in Nat
    BY <1>5, DistDoubles
  <2>2. Dist[k - 1] < n
    BY <1>3, <1>5
  <2> QED BY <2>1, <2>2
<1>7. RoundFacts(n, R)
  BY <1>2, <1>3, <1>4, <1>5, <1>6 DEF RoundFacts
<1> QED BY <1>7 DEF R

\* The binomial tree from rank 0 reaches all ranks.
LEMMA BinomialReachesAll ==
    ASSUME CollectivesAssumption, NEW n \in 1..MaxWorkers
    PROVE  Ranks(n) \subseteq BinomialReach(0, n)
<1> DEFINE R == Rounds(n)
           More(k, h) == h \cup {(v + Dist[k - 1] + 0) % n : v \in {u \in h : u + Dist[k - 1] < n}}
           Solves(g) == g = [k \in 0..R |-> IF k = 0 THEN {0} ELSE More(k, g[k - 1])]
           f == [k \in 0..R |-> {r \in Ranks(n) : r < Dist[k]}]
           x == CHOOSE g : Solves(g)
<1>1. BinomialReach(0, n) = x[R]
  BY DEF BinomialReach
<1>2. RoundFacts(n, R)
  BY RoundsOf
<1> HIDE DEF R
<1>3. R \in Nat /\ n \in Nat /\ n > 0 /\ Dist[0] = 1
  BY <1>2 DEF RoundFacts
<1>4. \A k \in 0..R : f[k] = {r \in Ranks(n) : r < Dist[k]}
  OBVIOUS
<1>5. f[0] = {0}
  <2>1. f[0] = {r \in Ranks(n) : r < 1}
    BY <1>3, <1>4
  <2>2. \A r \in Ranks(n) : r \in Nat
    BY DEF Ranks
  <2>3. 0 \in Ranks(n)
    BY <1>3 DEF Ranks
  <2>4. {r \in Ranks(n) : r < 1} = {0}
    BY <2>2, <2>3
  <2> QED BY <2>1, <2>4
<1>6. ASSUME NEW k \in 1..R PROVE f[k] = More(k, f[k - 1])
  <2> DEFINE D == Dist[k - 1]
             S == {r \in Ranks(n) : r < D}
             A == {u \in S : u + D < n}
             B == {(v + D + 0) % n : v \in A}
  <2>1. D \in Nat /\ D > 0 /\ D < n /\ Dist[k] = 2 * D /\ k - 1 \in 0..R /\ k \in 0..R
    BY <1>2, <1>3 DEF RoundFacts
  <2>2. f[k - 1] = S /\ f[k] = {r \in Ranks(n) : r < 2 * D}
    BY <1>4, <2>1
  <2> HIDE DEF D
  <2>3. ASSUME NEW v \in A PROVE v + D + 0 \in Ranks(n) /\ v + D + 0 < 2 * D /\ (v + D + 0) % n = v + D + 0
    <3>1. v \in Nat /\ v < D /\ v + D + 0 < n /\ v + D + 0 \in Nat /\ v + D + 0 < 2 * n
      BY <2>1 DEF Ranks
    <3>2. (v + D + 0) % n = v + D + 0
      BY <3>1, <1>3, WrapsOnce
    <3> QED BY <3>1, <3>2, <2>1, <1>3 DEF Ranks
  <2>4. ASSUME NEW r \in Ranks(n), r < 2 * D PROVE r \in S \cup B
    <3>1. CASE r < D
      BY <3>1
    <3>2. CASE ~ (r < D)
      <4>1. r - D \in A /\ (r - D) + D + 0 = r
        BY <3>2, <2>1, <2>4 DEF Ranks
      <4>2. ((r - D) + D + 0) % n = r
        BY <4>1, <2>3
      <4> QED BY <4>1, <4>2
    <3> QED BY <3>1, <3>2
  <2>5. \A b \in B : b \in Ranks(n) /\ b < 2 * D
    <3>1. ASSUME NEW b \in B PROVE b \in Ranks(n) /\ b < 2 * D
      <4>1. PICK v \in A : b = (v + D + 0) % n
        OBVIOUS
      <4>2. b = v + D + 0
        BY <2>3, <4>1
      <4> QED BY <4>2, <2>3
    <3> QED BY <3>1
  <2>6. \A s \in S : s \in Ranks(n) /\ s < 2 * D
    BY <2>1 DEF Ranks
  <2>7. {r \in Ranks(n) : r < 2 * D} = S \cup B
    <3> HIDE DEF S, B
    <3> QED BY <2>4, <2>5, <2>6
  <2>8. More(k, S) = S \cup B
    BY DEF D
  <2> QED BY <2>2, <2>7, <2>8
<1>7. Solves(f)
  <2>1. \A k \in 0..R : k # 0 => k \in 1..R
    BY <1>3
  <2>2. f = [k \in 0..R |-> IF k = 0 THEN {0} ELSE More(k, f[k - 1])]
    <3> DEFINE h == [k \in 0..R |-> IF k = 0 THEN {0} ELSE More(k, f[k - 1])]
    <3>1. \A k \in 0..R : f[k] = h[k]
      <4> HIDE DEF More, f
      <4> QED BY <1>5, <1>6, <2>1
    <3> QED BY <3>1
  <2> QED BY <2>2
<1>8. Solves(x)
  <2> HIDE DEF Solves
  <2> QED BY <1>7
<1> DEFINE T == {k \in 0..R : x[k] = f[k]}
<1> HIDE DEF f, x
<1>9. \A k \in 0..R : x[k] = IF k = 0 THEN {0} ELSE More(k, x[k - 1])
  <2> HIDE DEF More
  <2> QED BY <1>8
<1>10. 0 \in T
  <2>1. 0 \in 0..R
    BY <1>3
  <2>2. x[0] = {0}
    <3> HIDE DEF More
    <3> QED BY <2>1, <1>9
  <2> QED BY <2>1, <2>2, <1>5
<1>11. \A k \in 1..R : k - 1 \in T => k \in T
  <2> HIDE DEF More
  <2> QED BY <1>3, <1>6, <1>9
<1> HIDE DEF T
<1>12. 0..R \subseteq T
  BY <1>3, <1>10, <1>11, BoundedInduction
<1>13. x[R] = f[R]
  BY <1>3, <1>12 DEF T
<1>14. f[R] = Ranks(n)
  <2>1. f[R] = {r \in Ranks(n) : r < Dist[R]}
    BY <1>3, <1>4 DEF f
  <2>2. \A r \in Ranks(n) : r < Dist[R]
    BY <1>2 DEF RoundFacts, Ranks
  <2> QED BY <2>1, <2>2
<1> QED BY <1>1, <1>13, <1>14

-----------------------------------------------------------------------------
\* Part of a run, and the runs of a scan.
LEMMA RunsInOrder ==
    ASSUME NEW r \in Nat, NEW d \in Nat, d > 0
    PROVE  /\ r < d => RanksFrom(0, r + 1) = IF r < 2 * d THEN RanksFrom(0, r + 1) ELSE RanksFrom(r - 2 * d + 1, 2 * d)
           /\ r >= d /\ r < 2 * d => RanksFrom(0, (r - d) + 1) \o RanksFrom(r - d + 1, d) = RanksFrom(0, r + 1)
           /\ r >= 2 * d => RanksFrom((r - d) - d + 1, d) \o RanksFrom(r - d + 1, d) = RanksFrom(r - 2 * d + 1, 2 * d)
<1>1. r < d => r < 2 * d
  OBVIOUS
<1>2. ASSUME r >= d, r < 2 * d PROVE RanksFrom(0, (r - d) + 1) \o RanksFrom(r - d + 1, d) = RanksFrom(0, r + 1)
  <2> DEFINE v == (r - d) + 1
  <2>1. v \in Nat /\ 0 + v = v /\ v + d = r + 1 /\ v = r - d + 1 /\ 0 \in Nat
    BY <1>2
  <2> HIDE DEF v
  <2>2. RanksFrom(0, v) \o RanksFrom(0 + v, d) = RanksFrom(0, v + d)
    BY <2>1, RunsMeet
  <2>3. RanksFrom(0, v) \o RanksFrom(v, d) = RanksFrom(0, r + 1)
    BY <2>1, <2>2
  <2> QED BY <2>3 DEF v
<1>3. ASSUME r >= 2 * d
      PROVE  RanksFrom((r - d) - d + 1, d) \o RanksFrom(r - d + 1, d) = RanksFrom(r - 2 * d + 1, 2 * d)
  <2> DEFINE lo == (r - d) - d + 1
             mid == r - d + 1
             low == r - 2 * d + 1
             both == 2 * d
  <2>1. lo \in Nat /\ lo + d = mid /\ lo = low /\ d + d = both
    BY <1>3
  <2> HIDE DEF lo, mid, low, both
  <2>2. RanksFrom(lo, d) \o RanksFrom(lo + d, d) = RanksFrom(lo, d + d)
    BY <2>1, RunsMeet
  <2>3. RanksFrom(lo, d) \o RanksFrom(mid, d) = RanksFrom(low, both)
    BY <2>1, <2>2
  <2> QED BY <2>3 DEF lo, mid, low, both
<1> QED BY <1>1, <1>2, <1>3

\* The scan by recursive doubling comes to every prefix.
LEMMA ShiftedIsScan ==
    ASSUME CollectivesAssumption, NEW n \in 1..MaxWorkers, NEW rank \in Ranks(n)
    PROVE  Shifted(n)[rank] = RanksFrom(0, rank + 1)
<1> DEFINE R == Rounds(n)
           Shift(k, h) == [r \in Ranks(n) |->
                            IF r >= Dist[k - 1] THEN h[r - Dist[k - 1]] \o h[r] ELSE h[r]]
           Solves(g) == g = [k \in 0..R |-> IF k = 0 THEN Own(n) ELSE Shift(k, g[k - 1])]
           Part(d, r) == IF r < d THEN RanksFrom(0, r + 1) ELSE RanksFrom(r - d + 1, d)
           f == [k \in 0..R |-> [r \in Ranks(n) |-> Part(Dist[k], r)]]
           x == CHOOSE g : Solves(g)
<1>1. Shifted(n) = x[R]
  BY DEF Shifted
<1>2. RoundFacts(n, R)
  BY RoundsOf
<1> HIDE DEF R
<1>3. R \in Nat /\ n \in Nat /\ n > 0 /\ Dist[0] = 1 /\ 0 \in 0..R /\ R \in 0..R
  BY <1>2 DEF RoundFacts
<1>4. \A k \in 0..R : f[k] = [r \in Ranks(n) |-> Part(Dist[k], r)]
  OBVIOUS
<1>5. f[0] = Own(n)
  <2>1. f[0] = [r \in Ranks(n) |-> Part(1, r)]
    <3> HIDE DEF f, Part
    <3> QED BY <1>3, <1>4
  <2>2. ASSUME NEW r \in Ranks(n) PROVE Part(1, r) = <<r>>
    <3>1. r \in Nat
      BY DEF Ranks
    <3>2. <<r>> = RanksFrom(r, 1)
      BY <3>1, RunsOfRanks
    <3>3. r < 1 => r = 0 /\ r + 1 = 1
      BY <3>1
    <3>4. r - 1 + 1 = r
      BY <3>1
    <3>5. CASE r < 1
      BY <3>2, <3>3, <3>5
    <3>6. CASE ~ (r < 1)
      BY <3>2, <3>4, <3>6
    <3> QED BY <3>5, <3>6
  <2> QED BY <2>1, <2>2 DEF Own
<1>6. ASSUME NEW k \in 1..R PROVE f[k] = Shift(k, f[k - 1])
  <2> DEFINE D == Dist[k - 1]
             h == [r \in Ranks(n) |-> Part(D, r)]
  <2>1. D \in Nat /\ D > 0 /\ D < n /\ Dist[k] = 2 * D /\ k - 1 \in 0..R /\ k \in 0..R
    BY <1>2, <1>3 DEF RoundFacts
  <2>2. f[k - 1] = h /\ f[k] = [r \in Ranks(n) |-> Part(2 * D, r)]
    <3> HIDE DEF Part, f
    <3> QED BY <1>4, <2>1
  <2>3. Shift(k, h) = [r \in Ranks(n) |-> IF r >= D THEN h[r - D] \o h[r] ELSE h[r]]
    OBVIOUS
  <2> HIDE DEF D
  <2>4. ASSUME NEW r \in Ranks(n)
        PROVE  Part(2 * D, r) = IF r >= D THEN h[r - D] \o h[r] ELSE h[r]
    <3>1. r \in Nat /\ r < n
      BY DEF Ranks
    <3>2. h[r] = Part(D, r)
      <4> HIDE DEF Part
      <4> QED OBVIOUS
    <3>3. CASE r < D
      <4>1. Part(2 * D, r) = RanksFrom(0, r + 1) /\ Part(D, r) = RanksFrom(0, r + 1) /\ ~ (r >= D)
        BY <3>1, <3>3, <2>1
      <4> QED BY <4>1, <3>2
    <3>4. CASE r >= D
      <4>1. r - D \in Ranks(n)
        BY <3>1, <3>4, <2>1 DEF Ranks
      <4>2. h[r - D] = Part(D, r - D)
        <5> HIDE DEF Part
        <5> QED BY <4>1
      <4>3. Part(D, r) = RanksFrom(r - D + 1, D)
        BY <3>1, <3>4, <2>1
      <4>4. CASE r < 2 * D
        <5>1. Part(D, r - D) = RanksFrom(0, (r - D) + 1) /\ Part(2 * D, r) = RanksFrom(0, r + 1)
          BY <3>1, <3>4, <4>4, <2>1
        <5>2. RanksFrom(0, (r - D) + 1) \o RanksFrom(r - D + 1, D) = RanksFrom(0, r + 1)
          BY <3>1, <3>4, <4>4, <2>1, RunsInOrder
        <5> QED BY <3>2, <3>4, <4>2, <4>3, <5>1, <5>2
      <4>5. CASE ~ (r < 2 * D)
        <5>1. Part(D, r - D) = RanksFrom((r - D) - D + 1, D) /\ Part(2 * D, r) = RanksFrom(r - 2 * D + 1, 2 * D)
          BY <3>1, <3>4, <4>5, <2>1
        <5>2. r >= 2 * D
          BY <3>1, <4>5, <2>1
        <5>3. RanksFrom((r - D) - D + 1, D) \o RanksFrom(r - D + 1, D) = RanksFrom(r - 2 * D + 1, 2 * D)
          BY <3>1, <5>2, <2>1, RunsInOrder
        <5> QED BY <3>2, <3>4, <4>2, <4>3, <5>1, <5>3
      <4> QED BY <4>4, <4>5
    <3> QED BY <3>1, <3>3, <3>4, <2>1
  <2>5. f[k] = Shift(k, h)
    <3> HIDE DEF Part, h, f, Shift
    <3> QED BY <2>2, <2>3, <2>4
  <2> HIDE DEF Part, h, f, Shift
  <2> QED BY <2>2, <2>5
<1>7. Solves(f)
  <2>1. \A k \in 0..R : k # 0 => k \in 1..R
    BY <1>3
  <2>2. f = [k \in 0..R |-> IF k = 0 THEN Own(n) ELSE Shift(k, f[k - 1])]
    <3> DEFINE h == [k \in 0..R |-> IF k = 0 THEN Own(n) ELSE Shift(k, f[k - 1])]
    <3>1. \A k \in 0..R : f[k] = h[k]
      <4> HIDE DEF Shift, f
      <4> QED BY <1>5, <1>6, <2>1
    <3> QED BY <3>1
  <2> QED BY <2>2
<1>8. Solves(x)
  <2> HIDE DEF Solves
  <2> QED BY <1>7
<1> HIDE DEF f, x, Part
<1> DEFINE T == {k \in 0..R : x[k] = f[k]}
<1>9. \A k \in 0..R : x[k] = IF k = 0 THEN Own(n) ELSE Shift(k, x[k - 1])
  <2> HIDE DEF Shift
  <2> QED BY <1>8
<1> HIDE DEF Shift
<1>10. 0 \in T
  <2>1. x[0] = Own(n)
    BY <1>3, <1>9
  <2> QED BY <2>1, <1>3, <1>5
<1>11. \A k \in 1..R : k - 1 \in T => k \in T
  BY <1>3, <1>6, <1>9
<1> HIDE DEF T
<1>12. 0..R \subseteq T
  BY <1>3, <1>10, <1>11, BoundedInduction
<1>13. x[R] = f[R]
  BY <1>3, <1>12 DEF T
<1>14. f[R][rank] = Part(Dist[R], rank)
  BY <1>3, <1>4
<1>15. Part(Dist[R], rank) = RanksFrom(0, rank + 1)
  <2>1. rank < Dist[R]
    BY <1>2 DEF RoundFacts, Ranks
  <2> QED BY <2>1 DEF Part
<1> QED BY <1>1, <1>13, <1>14, <1>15

-----------------------------------------------------------------------------
\* Both halves are smaller than the whole.
LEMMA HalvesAreSmaller ==
    ASSUME NEW w \in Nat, w >= 1, w # 1
    PROVE  /\ Half(w) \in Nat /\ Half(w) >= 1 /\ Half(w) < w
           /\ w - Half(w) \in Nat /\ w - Half(w) >= 1 /\ w - Half(w) < w
           /\ Half(w) + (w - Half(w)) = w
  BY SMTT(30) DEF Half

\* What holds of one, and of the whole where it holds of the halves.
LEMMA HalvingInduction ==
    ASSUME NEW n \in Nat, NEW S, n >= 1 => 1 \in S,
           \A w \in 1..n : w # 1 /\ Half(w) \in S /\ w - Half(w) \in S => w \in S
    PROVE  \A w \in 1..n : w \in S
<1> DEFINE T == {k \in 0..n : \A w \in 1..k : w \in S}
<1>1. 0 \in T
  OBVIOUS
<1>2. ASSUME NEW k \in 1..n, k - 1 \in T PROVE k \in T
  <2>1. \A w \in 1..(k - 1) : w \in S
    BY <1>2
  <2>2. k \in S
    <3>1. CASE k = 1
      BY <3>1
    <3>2. CASE k # 1
      <4>1. k \in Nat /\ k >= 1
        OBVIOUS
      <4>2. Half(k) \in 1..(k - 1) /\ k - Half(k) \in 1..(k - 1)
        BY <3>2, <4>1, HalvesAreSmaller
      <4> QED BY <2>1, <3>2, <4>2
    <3> QED BY <3>1, <3>2
  <2>3. \A w \in 1..k : w = k \/ w \in 1..(k - 1)
    OBVIOUS
  <2> QED BY <2>1, <2>2, <2>3
<1> HIDE DEF T
<1>3. 0..n \subseteq T
  BY <1>1, <1>2, BoundedInduction
<1>4. n \in 0..n
  OBVIOUS
<1> QED BY <1>3, <1>4 DEF T

\* Recursive halving hands every rank its chunk.
LEMMA HalvingReachesAll ==
    ASSUME NEW n \in Nat, NEW root \in Ranks(n)
    PROVE  Ranks(n) \subseteq Halving(root, n)
<1> DEFINE Span(lo, w) == lo..(lo + w - 1)
           At(g, w, h, lo) ==
               LET mid == lo + Half(w)
               IN  IF w = 1 THEN {lo}
                   ELSE IF h < mid
                   THEN g[Half(w)][h][lo] \cup g[w - Half(w)][mid][mid]
                   ELSE g[Half(w)][lo][lo] \cup g[w - Half(w)][h][mid]
           Solves(g) == g = [w \in 1..n |-> [h \in Nat |-> [lo \in Nat |-> At(g, w, h, lo)]]]
           f == [w \in 1..n |-> [h \in Nat |-> [lo \in Nat |-> Span(lo, w)]]]
           x == CHOOSE g : Solves(g)
<1>1. Halving(root, n) = x[n][root][0]
  BY DEF Halving
<1>2. root \in Nat /\ n >= 1 /\ 1 \in 1..n /\ n \in 1..n
  BY DEF Ranks
<1>3. ASSUME NEW g, NEW w \in 1..n, NEW h \in Nat, NEW lo \in Nat,
             w # 1 => \A t \in Nat, m \in Nat :
                         /\ g[Half(w)][t][m] = Span(m, Half(w))
                         /\ g[w - Half(w)][t][m] = Span(m, w - Half(w))
      PROVE  At(g, w, h, lo) = Span(lo, w)
  <2>1. CASE w = 1
    <3>1. At(g, w, h, lo) = {lo}
      BY <2>1
    <3>2. Span(lo, w) = {lo}
      BY <2>1
    <3> QED BY <3>1, <3>2
  <2>2. CASE w # 1
    <3> DEFINE p == Half(w)
               q == w - Half(w)
               mid == lo + p
    <3>1. p \in Nat /\ p >= 1 /\ q \in Nat /\ p + q = w /\ mid \in Nat
      BY <2>2, HalvesAreSmaller
    <3>2. At(g, w, h, lo) = IF h < mid THEN g[p][h][lo] \cup g[q][mid][mid]
                            ELSE g[p][lo][lo] \cup g[q][h][mid]
      BY <2>2
    <3>3. \A t \in Nat, m \in Nat : g[p][t][m] = Span(m, p) /\ g[q][t][m] = Span(m, q)
      BY <2>2, <1>3
    <3>4. Span(lo, p) \cup Span(mid, q) = Span(lo, w)
      <4>1. mid = lo + p
        OBVIOUS
      <4> HIDE DEF p, q, mid
      <4> QED BY <3>1, <4>1
    <3> HIDE DEF At, Span, p, q, mid
    <3> QED BY <3>1, <3>2, <3>3, <3>4
  <2> QED BY <2>1, <2>2
<1> HIDE DEF At
<1>4. Solves(f)
  <2>1. \A w \in 1..n : \A h \in Nat : \A lo \in Nat : f[w][h][lo] = Span(lo, w)
    OBVIOUS
  <2>2. ASSUME NEW w \in 1..n, NEW h \in Nat, NEW lo \in Nat PROVE Span(lo, w) = At(f, w, h, lo)
    <3>1. w # 1 => Half(w) \in 1..n /\ w - Half(w) \in 1..n
      <4>1. w \in Nat /\ w >= 1 /\ w <= n
        OBVIOUS
      <4> QED BY <4>1, HalvesAreSmaller
    <3> HIDE DEF f, Span
    <3>2. w # 1 => \A t \in Nat, m \in Nat :
                      /\ f[Half(w)][t][m] = Span(m, Half(w))
                      /\ f[w - Half(w)][t][m] = Span(m, w - Half(w))
      BY <2>1, <3>1
    <3> QED BY <1>3, <3>2
  <2>3. f = [w \in 1..n |-> [h \in Nat |-> [lo \in Nat |-> At(f, w, h, lo)]]]
    <3> DEFINE e == [w \in 1..n |-> [h \in Nat |-> [lo \in Nat |-> At(f, w, h, lo)]]]
    <3>1. ASSUME NEW w \in 1..n PROVE f[w] = e[w]
      <4>1. f[w] = [h \in Nat |-> [lo \in Nat |-> Span(lo, w)]]
        OBVIOUS
      <4>2. e[w] = [h \in Nat |-> [lo \in Nat |-> At(f, w, h, lo)]]
        OBVIOUS
      <4> HIDE DEF Span, f, e
      <4>3. \A h \in Nat : [lo \in Nat |-> Span(lo, w)] = [lo \in Nat |-> At(f, w, h, lo)]
        BY <2>2
      <4> QED BY <4>1, <4>2, <4>3
    <3> QED BY <3>1
  <2> QED BY <2>3
<1>5. Solves(x)
  <2> HIDE DEF Solves
  <2> QED BY <1>4
<1> HIDE DEF x, f
<1>6. \A w \in 1..n : \A h \in Nat : \A lo \in Nat : x[w][h][lo] = At(x, w, h, lo)
  <2> SUFFICES ASSUME NEW w \in 1..n, NEW h \in Nat, NEW lo \in Nat
               PROVE  x[w][h][lo] = At(x, w, h, lo)
    OBVIOUS
  <2>1. x[w] = [j \in Nat |-> [m \in Nat |-> At(x, w, j, m)]]
    BY <1>5, Zenon
  <2> DEFINE y == x[w]
  <2>2. y = [j \in Nat |-> [m \in Nat |-> At(x, w, j, m)]]
    BY <2>1
  <2> HIDE DEF y
  <2>3. y[h] = [m \in Nat |-> At(x, w, h, m)]
    BY <2>2, Zenon
  <2> DEFINE z == y[h]
  <2>4. z = [m \in Nat |-> At(x, w, h, m)]
    BY <2>3
  <2> HIDE DEF z
  <2>5. z[lo] = At(x, w, h, lo)
    BY <2>4, Zenon
  <2> QED BY <2>5 DEF z, y
<1> DEFINE S == {w \in 1..n : \A t \in Nat, m \in Nat : x[w][t][m] = Span(m, w)}
<1> HIDE DEF Span
<1>7. ASSUME NEW w \in 1..n, w = 1 \/ (Half(w) \in S /\ w - Half(w) \in S) PROVE w \in S
  <2>1. ASSUME NEW h \in Nat, NEW lo \in Nat PROVE x[w][h][lo] = Span(lo, w)
    <3>1. w # 1 => \A t \in Nat, m \in Nat :
                      /\ x[Half(w)][t][m] = Span(m, Half(w))
                      /\ x[w - Half(w)][t][m] = Span(m, w - Half(w))
      BY <1>7
    <3>2. At(x, w, h, lo) = Span(lo, w)
      BY <1>3, <3>1
    <3> QED BY <1>6, <3>2
  <2> QED BY <2>1
<1> HIDE DEF S
<1>8. \A w \in 1..n : w \in S
  BY <1>2, <1>7, HalvingInduction
<1>9. x[n][root][0] = Span(0, n)
  <2>1. 0 \in Nat /\ n \in S
    BY <1>2, <1>8
  <2> QED BY <1>2, <2>1 DEF S
<1>10. Span(0, n) = Ranks(n)
  BY DEF Span, Ranks
<1> QED BY <1>1, <1>9, <1>10

\* The halves combined give what every rank has, in the order of the ranks.
LEMMA DoublingIsAll ==
    ASSUME NEW n \in Nat, NEW root \in Ranks(n)
    PROVE  Doubling(root, n) = All(n)
<1> DEFINE At(g, w, h, lo) ==
               LET mid == lo + Half(w)
               IN  IF w = 1 THEN <<lo>>
                   ELSE IF h < mid
                   THEN g[Half(w)][h][lo] \o g[w - Half(w)][mid][mid]
                   ELSE g[Half(w)][lo][lo] \o g[w - Half(w)][h][mid]
           Solves(g) == g = [w \in 1..n |-> [h \in Nat |-> [lo \in Nat |-> At(g, w, h, lo)]]]
           f == [w \in 1..n |-> [h \in Nat |-> [lo \in Nat |-> RanksFrom(lo, w)]]]
           x == CHOOSE g : Solves(g)
<1>1. Doubling(root, n) = x[n][root][0]
  BY DEF Doubling
<1>2. root \in Nat /\ n >= 1 /\ 1 \in 1..n /\ n \in 1..n
  BY DEF Ranks
<1>3. ASSUME NEW g, NEW w \in 1..n, NEW h \in Nat, NEW lo \in Nat,
             w # 1 => \A t \in Nat, m \in Nat :
                         /\ g[Half(w)][t][m] = RanksFrom(m, Half(w))
                         /\ g[w - Half(w)][t][m] = RanksFrom(m, w - Half(w))
      PROVE  At(g, w, h, lo) = RanksFrom(lo, w)
  <2>1. CASE w = 1
    <3>1. At(g, w, h, lo) = <<lo>>
      BY <2>1
    <3>2. RanksFrom(lo, w) = <<lo>>
      BY <2>1, RunsOfRanks
    <3> QED BY <3>1, <3>2
  <2>2. CASE w # 1
    <3> DEFINE p == Half(w)
               q == w - Half(w)
               mid == lo + p
    <3>1. p \in Nat /\ p >= 1 /\ q \in Nat /\ p + q = w /\ mid \in Nat
      BY <2>2, HalvesAreSmaller
    <3>2. At(g, w, h, lo) = IF h < mid THEN g[p][h][lo] \o g[q][mid][mid]
                            ELSE g[p][lo][lo] \o g[q][h][mid]
      BY <2>2
    <3>3. \A t \in Nat, m \in Nat : g[p][t][m] = RanksFrom(m, p) /\ g[q][t][m] = RanksFrom(m, q)
      BY <2>2, <1>3
    <3>4. RanksFrom(lo, p) \o RanksFrom(mid, q) = RanksFrom(lo, w)
      <4>1. mid = lo + p
        OBVIOUS
      <4> HIDE DEF p, q, mid
      <4> QED BY <3>1, <4>1, RunsMeet
    <3> HIDE DEF At, p, q, mid
    <3> QED BY <3>1, <3>2, <3>3, <3>4
  <2> QED BY <2>1, <2>2
<1> HIDE DEF At
<1>4. Solves(f)
  <2>1. \A w \in 1..n : \A h \in Nat : \A lo \in Nat : f[w][h][lo] = RanksFrom(lo, w)
    OBVIOUS
  <2>2. ASSUME NEW w \in 1..n, NEW h \in Nat, NEW lo \in Nat PROVE RanksFrom(lo, w) = At(f, w, h, lo)
    <3>1. w # 1 => Half(w) \in 1..n /\ w - Half(w) \in 1..n
      <4>1. w \in Nat /\ w >= 1 /\ w <= n
        OBVIOUS
      <4> QED BY <4>1, HalvesAreSmaller
    <3> HIDE DEF f
    <3>2. w # 1 => \A t \in Nat, m \in Nat :
                      /\ f[Half(w)][t][m] = RanksFrom(m, Half(w))
                      /\ f[w - Half(w)][t][m] = RanksFrom(m, w - Half(w))
      BY <2>1, <3>1
    <3> QED BY <1>3, <3>2
  <2>3. f = [w \in 1..n |-> [h \in Nat |-> [lo \in Nat |-> At(f, w, h, lo)]]]
    <3> DEFINE e == [w \in 1..n |-> [h \in Nat |-> [lo \in Nat |-> At(f, w, h, lo)]]]
    <3>1. ASSUME NEW w \in 1..n PROVE f[w] = e[w]
      <4>1. f[w] = [h \in Nat |-> [lo \in Nat |-> RanksFrom(lo, w)]]
        OBVIOUS
      <4>2. e[w] = [h \in Nat |-> [lo \in Nat |-> At(f, w, h, lo)]]
        OBVIOUS
      <4> HIDE DEF f, e
      <4>3. \A h \in Nat : [lo \in Nat |-> RanksFrom(lo, w)] = [lo \in Nat |-> At(f, w, h, lo)]
        BY <2>2
      <4> QED BY <4>1, <4>2, <4>3
    <3> QED BY <3>1
  <2> QED BY <2>3
<1>5. Solves(x)
  <2> HIDE DEF Solves
  <2> QED BY <1>4
<1> HIDE DEF x, f
<1>6. \A w \in 1..n : \A h \in Nat : \A lo \in Nat : x[w][h][lo] = At(x, w, h, lo)
  <2> SUFFICES ASSUME NEW w \in 1..n, NEW h \in Nat, NEW lo \in Nat
               PROVE  x[w][h][lo] = At(x, w, h, lo)
    OBVIOUS
  <2>1. x[w] = [j \in Nat |-> [m \in Nat |-> At(x, w, j, m)]]
    BY <1>5, Zenon
  <2> DEFINE y == x[w]
  <2>2. y = [j \in Nat |-> [m \in Nat |-> At(x, w, j, m)]]
    BY <2>1
  <2> HIDE DEF y
  <2>3. y[h] = [m \in Nat |-> At(x, w, h, m)]
    BY <2>2, Zenon
  <2> DEFINE z == y[h]
  <2>4. z = [m \in Nat |-> At(x, w, h, m)]
    BY <2>3
  <2> HIDE DEF z
  <2>5. z[lo] = At(x, w, h, lo)
    BY <2>4, Zenon
  <2> QED BY <2>5 DEF z, y
<1> DEFINE S == {w \in 1..n : \A t \in Nat, m \in Nat : x[w][t][m] = RanksFrom(m, w)}
<1>7. ASSUME NEW w \in 1..n, w = 1 \/ (Half(w) \in S /\ w - Half(w) \in S) PROVE w \in S
  <2>1. ASSUME NEW h \in Nat, NEW lo \in Nat PROVE x[w][h][lo] = RanksFrom(lo, w)
    <3>1. w # 1 => \A t \in Nat, m \in Nat :
                      /\ x[Half(w)][t][m] = RanksFrom(m, Half(w))
                      /\ x[w - Half(w)][t][m] = RanksFrom(m, w - Half(w))
      BY <1>7
    <3>2. At(x, w, h, lo) = RanksFrom(lo, w)
      BY <1>3, <3>1
    <3> QED BY <1>6, <3>2
  <2> QED BY <2>1
<1> HIDE DEF S
<1>8. \A w \in 1..n : w \in S
  BY <1>2, <1>7, HalvingInduction
<1>9. x[n][root][0] = RanksFrom(0, n)
  <2>1. 0 \in Nat /\ n \in S
    BY <1>2, <1>8
  <2> QED BY <1>2, <2>1 DEF S
<1>10. RanksFrom(0, n) = All(n)
  BY RunsOfRanks DEF All
<1> QED BY <1>1, <1>9, <1>10

\* The tree scan comes to every prefix.
LEMMA TreeScanIsScan ==
    ASSUME NEW n \in Nat, NEW rank \in Ranks(n)
    PROVE  TreeScan(n)[rank] = RanksFrom(0, rank + 1)
<1> DEFINE Prefix(lo, r, w) == IF r < lo THEN RanksFrom(lo, 1)
                               ELSE IF r < lo + w THEN RanksFrom(lo, r - lo + 1) ELSE RanksFrom(lo, w)
           At(g, w, lo, r) ==
               LET mid == lo + Half(w)
               IN  IF w = 1 THEN <<lo>>
                   ELSE IF r < mid THEN g[Half(w)][lo][r]
                   ELSE g[Half(w)][lo][mid - 1] \o g[w - Half(w)][mid][r]
           Solves(g) == g = [w \in 1..n |-> [lo \in Nat |-> [r \in Nat |-> At(g, w, lo, r)]]]
           f == [w \in 1..n |-> [lo \in Nat |-> [r \in Nat |-> Prefix(lo, r, w)]]]
           x == CHOOSE g : Solves(g)
<1>1. TreeScan(n) = x[n][0]
  BY DEF TreeScan
<1>2. rank \in Nat /\ rank < n /\ n >= 1 /\ 1 \in 1..n /\ n \in 1..n
  BY DEF Ranks
<1>3. ASSUME NEW g, NEW w \in 1..n, NEW lo \in Nat, NEW r \in Nat,
             w # 1 => \A t \in Nat, m \in Nat :
                         /\ g[Half(w)][t][m] = Prefix(t, m, Half(w))
                         /\ g[w - Half(w)][t][m] = Prefix(t, m, w - Half(w))
      PROVE  At(g, w, lo, r) = Prefix(lo, r, w)
  <2>1. CASE w = 1
    <3>1. At(g, w, lo, r) = <<lo>>
      BY <2>1
    <3>2. RanksFrom(lo, 1) = <<lo>>
      BY RunsOfRanks
    <3>3. r >= lo /\ r < lo + 1 => r - lo + 1 = 1
      OBVIOUS
    <3>4. Prefix(lo, r, 1) = RanksFrom(lo, 1)
      BY <3>3
    <3> QED BY <2>1, <3>1, <3>2, <3>4
  <2>2. CASE w # 1
    <3> DEFINE p == Half(w)
               q == w - Half(w)
               mid == lo + p
    <3>1. p \in Nat /\ p >= 1 /\ q \in Nat /\ q >= 1 /\ p + q = w /\ mid \in Nat /\ mid - 1 \in Nat
      BY <2>2, HalvesAreSmaller
    <3>2. At(g, w, lo, r) = IF r < mid THEN g[p][lo][r] ELSE g[p][lo][mid - 1] \o g[q][mid][r]
      BY <2>2
    <3>3. \A t \in Nat, m \in Nat : g[p][t][m] = Prefix(t, m, p) /\ g[q][t][m] = Prefix(t, m, q)
      BY <2>2, <1>3
    <3>4. mid = lo + p
      OBVIOUS
    <3> HIDE DEF At, p, q, mid
    <3>5. CASE r < mid
      <4>1. g[p][lo][r] = Prefix(lo, r, p)
        BY <3>3
      <4>2. Prefix(lo, r, p) = Prefix(lo, r, w)
        BY <3>1, <3>4, <3>5
      <4> HIDE DEF Prefix
      <4> QED BY <3>2, <3>5, <4>1, <4>2
    <3>6. CASE ~ (r < mid)
      <4>1. g[p][lo][mid - 1] = Prefix(lo, mid - 1, p) /\ g[q][mid][r] = Prefix(mid, r, q)
        <5> HIDE DEF Prefix
        <5> QED BY <3>1, <3>3
      <4>2. Prefix(lo, mid - 1, p) = RanksFrom(lo, p)
        <5>1. ~ (mid - 1 < lo) /\ mid - 1 < lo + p /\ mid - 1 - lo + 1 = p
          BY <3>1, <3>4
        <5> QED BY <5>1
      <4>3. CASE r < lo + w
        <5> DEFINE u == r - mid + 1
        <5>1. ~ (r < mid) /\ r < mid + q /\ ~ (r < lo) /\ u \in Nat /\ p + u = r - lo + 1
          BY <3>1, <3>4, <3>6, <4>3
        <5>2. Prefix(mid, r, q) = RanksFrom(mid, u) /\ Prefix(lo, r, w) = RanksFrom(lo, r - lo + 1)
          BY <5>1, <4>3
        <5> HIDE DEF u, Prefix
        <5>3. RanksFrom(lo, p) \o RanksFrom(lo + p, u) = RanksFrom(lo, p + u)
          BY <3>1, <5>1, RunsMeet
        <5> QED BY <3>2, <3>4, <3>6, <4>1, <4>2, <5>1, <5>2, <5>3
      <4>4. CASE ~ (r < lo + w)
        <5>1. ~ (r < mid) /\ ~ (r < mid + q) /\ ~ (r < lo)
          BY <3>1, <3>4, <3>6, <4>4
        <5>2. Prefix(mid, r, q) = RanksFrom(mid, q) /\ Prefix(lo, r, w) = RanksFrom(lo, w)
          BY <5>1, <4>4
        <5> HIDE DEF Prefix
        <5>3. RanksFrom(lo, p) \o RanksFrom(lo + p, q) = RanksFrom(lo, p + q)
          BY <3>1, RunsMeet
        <5> QED BY <3>1, <3>2, <3>4, <3>6, <4>1, <4>2, <5>2, <5>3
      <4> QED BY <4>3, <4>4
    <3> QED BY <3>5, <3>6
  <2> QED BY <2>1, <2>2
<1> HIDE DEF At
<1>4. Solves(f)
  <2>1. \A w \in 1..n : \A lo \in Nat : \A r \in Nat : f[w][lo][r] = Prefix(lo, r, w)
    OBVIOUS
  <2>2. ASSUME NEW w \in 1..n, NEW lo \in Nat, NEW r \in Nat PROVE Prefix(lo, r, w) = At(f, w, lo, r)
    <3>1. w # 1 => Half(w) \in 1..n /\ w - Half(w) \in 1..n
      <4>1. w \in Nat /\ w >= 1 /\ w <= n
        OBVIOUS
      <4> QED BY <4>1, HalvesAreSmaller
    <3> HIDE DEF f, Prefix
    <3>2. w # 1 => \A t \in Nat, m \in Nat :
                      /\ f[Half(w)][t][m] = Prefix(t, m, Half(w))
                      /\ f[w - Half(w)][t][m] = Prefix(t, m, w - Half(w))
      BY <2>1, <3>1
    <3> QED BY <1>3, <3>2
  <2>3. f = [w \in 1..n |-> [lo \in Nat |-> [r \in Nat |-> At(f, w, lo, r)]]]
    <3> DEFINE e == [w \in 1..n |-> [lo \in Nat |-> [r \in Nat |-> At(f, w, lo, r)]]]
    <3>1. ASSUME NEW w \in 1..n PROVE f[w] = e[w]
      <4>1. f[w] = [lo \in Nat |-> [r \in Nat |-> Prefix(lo, r, w)]]
        OBVIOUS
      <4>2. e[w] = [lo \in Nat |-> [r \in Nat |-> At(f, w, lo, r)]]
        OBVIOUS
      <4> HIDE DEF Prefix, f, e
      <4>3. \A lo \in Nat : [r \in Nat |-> Prefix(lo, r, w)] = [r \in Nat |-> At(f, w, lo, r)]
        BY <2>2
      <4> QED BY <4>1, <4>2, <4>3
    <3> QED BY <3>1
  <2> QED BY <2>3
<1>5. Solves(x)
  <2> HIDE DEF Solves
  <2> QED BY <1>4
<1> HIDE DEF x, f
<1>6. \A w \in 1..n : \A lo \in Nat : \A r \in Nat : x[w][lo][r] = At(x, w, lo, r)
  <2> SUFFICES ASSUME NEW w \in 1..n, NEW lo \in Nat, NEW r \in Nat
               PROVE  x[w][lo][r] = At(x, w, lo, r)
    OBVIOUS
  <2>1. x[w] = [j \in Nat |-> [m \in Nat |-> At(x, w, j, m)]]
    BY <1>5, Zenon
  <2> DEFINE y == x[w]
  <2>2. y = [j \in Nat |-> [m \in Nat |-> At(x, w, j, m)]]
    BY <2>1
  <2> HIDE DEF y
  <2>3. y[lo] = [m \in Nat |-> At(x, w, lo, m)]
    BY <2>2, Zenon
  <2> DEFINE z == y[lo]
  <2>4. z = [m \in Nat |-> At(x, w, lo, m)]
    BY <2>3
  <2> HIDE DEF z
  <2>5. z[r] = At(x, w, lo, r)
    BY <2>4, Zenon
  <2> QED BY <2>5 DEF z, y
<1> DEFINE S == {w \in 1..n : \A t \in Nat, m \in Nat : x[w][t][m] = Prefix(t, m, w)}
<1> HIDE DEF Prefix
<1>7. ASSUME NEW w \in 1..n, w = 1 \/ (Half(w) \in S /\ w - Half(w) \in S) PROVE w \in S
  <2>1. ASSUME NEW lo \in Nat, NEW r \in Nat PROVE x[w][lo][r] = Prefix(lo, r, w)
    <3>1. w # 1 => \A t \in Nat, m \in Nat :
                      /\ x[Half(w)][t][m] = Prefix(t, m, Half(w))
                      /\ x[w - Half(w)][t][m] = Prefix(t, m, w - Half(w))
      BY <1>7
    <3>2. At(x, w, lo, r) = Prefix(lo, r, w)
      BY <1>3, <3>1
    <3> QED BY <1>6, <3>2
  <2> QED BY <2>1
<1> HIDE DEF S
<1>8. \A w \in 1..n : w \in S
  BY <1>2, <1>7, HalvingInduction
<1>9. x[n][0][rank] = Prefix(0, rank, n)
  <2>1. 0 \in Nat /\ n \in S
    BY <1>2, <1>8
  <2> QED BY <1>2, <2>1 DEF S
<1>10. Prefix(0, rank, n) = RanksFrom(0, rank + 1)
  <2>1. ~ (rank < 0) /\ rank < 0 + n /\ rank - 0 + 1 = rank + 1
    BY <1>2
  <2> QED BY <2>1 DEF Prefix
<1> QED BY <1>1, <1>9, <1>10

-----------------------------------------------------------------------------
\* A number is some times a divisor, and the remainder.
RestsBy(d) ==
    /\ \A r \in Nat : r % d \in Nat /\ r % d < d /\ \E c \in Nat : r = c * d + (r % d)
    /\ \A c \in Nat, s \in Nat : s < d => (c * d + s) % d = s
    /\ \A c \in Nat, q \in Nat : c * d < q * d => (c + 1) * d <= q * d

\* Every number is a multiple of d and a rest below d.
LEMMA TimesAndRest ==
    ASSUME NEW d \in Nat, d > 0
    PROVE  RestsBy(d)
<1>1. ASSUME NEW r \in Nat PROVE r % d \in Nat /\ r % d < d /\ \E c \in Nat : r = c * d + (r % d)
  <2>1. r \div d \in Nat /\ r = d * (r \div d) + (r % d) /\ r % d \in Nat /\ r % d < d
    BY SMTT(30)
  <2>2. d * (r \div d) = (r \div d) * d
    BY <2>1
  <2> QED BY <2>1, <2>2
<1>2. ASSUME NEW c \in Nat, NEW s \in Nat, s < d PROVE (c * d + s) % d = s
  BY <1>2, SMTT(30)
<1>3. ASSUME NEW c \in Nat, NEW q \in Nat, c * d < q * d PROVE (c + 1) * d <= q * d
  BY <1>3, SMTT(30)
<1> QED BY <1>1, <1>2, <1>3 DEF RestsBy

\* Where blocks of twice d fill up the ranks, a rank and its partner are at the
\* same place of the two halves of a block that begins at b.
Paired(r, p, d, b, n) ==
    /\ b \in Nat /\ p \in Ranks(n)
    /\ r < p => r - (r % d) = b /\ p - (p % d) = b + d
    /\ ~ (r < p) => p - (p % d) = b /\ r - (r % d) = b + d
    /\ r - (r % (2 * d)) = b

\* A rank and its partner at distance d are the halves of one block of 2d.
LEMMA PartnersShareABlock ==
    ASSUME NEW n \in Nat, NEW d \in Nat, d > 0, NEW q \in Nat, n = q * (2 * d), NEW r \in Ranks(n)
    PROVE  Paired(r, Partner(r, d), d, r - (r % (2 * d)), n)
<1> DEFINE e == 2 * d
           m == r % e
           b == r - m
<1>1. r \in Nat /\ r < n
  BY DEF Ranks
<1>2. e \in Nat /\ e > 0 /\ e = 2 * d /\ n = q * e
  OBVIOUS
<1> HIDE DEF e
<1>3. m \in Nat /\ m < e /\ \E c \in Nat : r = c * e + m
  <2>1. RestsBy(e)
    BY <1>2, TimesAndRest
  <2>2. r % e \in Nat /\ r % e < e /\ \E c \in Nat : r = c * e + (r % e)
    BY <1>1, <2>1 DEF RestsBy
  <2> QED BY <2>2
<1>4. PICK c \in Nat : r = c * e + m
  BY <1>3
<1> HIDE DEF m
<1>5. b = c * e /\ b \in Nat /\ b < n
  <2>1. c * e \in Nat
    BY <1>2
  <2> QED BY <1>1, <1>3, <1>4, <2>1
<1> HIDE DEF b
<1>6. b + e <= n
  <2>1. c * e < q * e
    BY <1>2, <1>5
  <2>2. (c + 1) * e <= q * e
    BY <1>2, <2>1, TimesAndRest DEF RestsBy
  <2>3. (c + 1) * e = c * e + e
    BY <1>2
  <2> QED BY <1>2, <1>5, <2>2, <2>3
<1>7. b = (2 * c) * d /\ b + d = (2 * c + 1) * d /\ 2 * c \in Nat /\ 2 * c + 1 \in Nat
  <2>1. c * e = (2 * c) * d
    BY <1>2
  <2>2. (2 * c + 1) * d = (2 * c) * d + d
    OBVIOUS
  <2> QED BY <1>5, <2>1, <2>2
<1>8. ASSUME NEW s \in Nat, s < d PROVE (b + s) % d = s /\ (b + d + s) % d = s
  BY <1>7, <1>8, TimesAndRest DEF RestsBy
<1>9. r = b + m
  BY <1>1, <1>3 DEF b
<1>10. Partner(r, d) = IF m < d THEN r + d ELSE r - d
  BY DEF Partner, m, e
<1> DEFINE p == Partner(r, d)
<1> HIDE DEF p
<1>11. CASE m < d
  <2>1. p = r + d
    BY <1>10, <1>11 DEF p
  <2>2. r % d = m
    BY <1>3, <1>8, <1>9, <1>11
  <2>3. p = b + d + m
    BY <2>1, <1>3, <1>5, <1>9
  <2>4. p % d = m
    BY <2>3, <1>3, <1>8, <1>11
  <2>5. p \in Ranks(n) /\ r < p
    BY <2>1, <2>3, <1>1, <1>2, <1>3, <1>5, <1>6, <1>11 DEF Ranks
  <2>6. r - m = b /\ p - m = b + d
    BY <2>3, <1>3, <1>5, <1>9
  <2>7. Paired(r, p, d, b, n)
    BY <2>2, <2>4, <2>5, <2>6, <1>5 DEF Paired, m, e
  <2> QED BY <2>7 DEF p, b, m, e
<1>12. CASE ~ (m < d)
  <2> DEFINE s == m - d
  <2>1. s \in Nat /\ s < d /\ m = d + s
    BY <1>2, <1>3, <1>12
  <2> HIDE DEF s
  <2>2. p = r - d
    BY <1>10, <1>12 DEF p
  <2>3. r = b + d + s /\ p = b + s
    BY <2>1, <2>2, <1>5, <1>9
  <2>4. r % d = s /\ p % d = s
    BY <2>1, <2>3, <1>8
  <2>5. p \in Ranks(n) /\ ~ (r < p)
    BY <2>1, <2>2, <2>3, <1>1, <1>5 DEF Ranks
  <2>6. p - s = b /\ r - s = b + d /\ r - m = b
    BY <2>1, <2>3, <1>5
  <2>7. Paired(r, p, d, b, n)
    BY <2>4, <2>5, <2>6, <1>5 DEF Paired, m, e
  <2> QED BY <2>7 DEF p, b, m, e
<1> QED BY <1>11, <1>12

\* Where the last distance is n, all divide n.
LEMMA DistancesDivide ==
    ASSUME NEW n, NEW R, RoundFacts(n, R), Dist[R] = n
    PROVE  \A k \in 0..R : \E q \in Nat : n = q * Dist[k]
<1> DEFINE S == {j \in 0..R : \E q \in Nat : n = q * Dist[R - j]}
<1>1. R \in Nat /\ n \in Nat
  BY DEF RoundFacts
<1>2. 0 \in S
  <2>1. n = 1 * Dist[R - 0] /\ 0 \in 0..R
    BY <1>1
  <2> QED BY <2>1
<1>3. ASSUME NEW j \in 1..R, j - 1 \in S PROVE j \in S
  <2> DEFINE k == R - (j - 1)
  <2>1. k \in 1..R /\ k - 1 = R - j
    BY <1>1
  <2>2. PICK q \in Nat : n = q * Dist[k]
    BY <1>3
  <2> HIDE DEF k
  <2>3. Dist[k - 1] \in Nat /\ Dist[k] = 2 * Dist[k - 1]
    BY <2>1 DEF RoundFacts
  <2>4. n = (2 * q) * Dist[k - 1]
    <3> DEFINE d == Dist[k - 1]
    <3>1. d \in Nat /\ n = q * (2 * d)
      BY <2>2, <2>3
    <3> HIDE DEF d
    <3>2. n = (2 * q) * d
      BY <3>1
    <3> QED BY <3>2 DEF d
  <2>5. n = (2 * q) * Dist[R - j] /\ 2 * q \in Nat
    BY <2>1, <2>4
  <2> QED BY <2>5
<1> HIDE DEF S
<1>4. 0..R \subseteq S
  BY <1>1, <1>2, <1>3, BoundedInduction
<1>5. ASSUME NEW k \in 0..R PROVE \E q \in Nat : n = q * Dist[k]
  <2>1. R - k \in 0..R /\ R - (R - k) = k
    BY <1>1
  <2>2. R - k \in S
    BY <2>1, <1>4
  <2> QED BY <2>1, <2>2 DEF S
<1> QED BY <1>5

\* For a power of two, recursive doubling combines all, in the order of the ranks.
LEMMA FoldedIsAll ==
    ASSUME CollectivesAssumption, NEW n \in 1..MaxWorkers, NEW rank \in Ranks(n),
           Dist[Rounds(n)] = n
    PROVE  Folded(n)[rank] = All(n)
<1> DEFINE R == Rounds(n)
           Shift(k, h) == [r \in Ranks(n) |->
                            LET p == Partner(r, Dist[k - 1])
                            IN  IF p >= n THEN h[r]
                                ELSE IF r < p THEN h[r] \o h[p]
                                ELSE h[p] \o h[r]]
           Solves(g) == g = [k \in 0..R |-> IF k = 0 THEN Own(n) ELSE Shift(k, g[k - 1])]
           Part(d, r) == RanksFrom(r - (r % d), d)
           f == [k \in 0..R |-> [r \in Ranks(n) |-> Part(Dist[k], r)]]
           x == CHOOSE g : Solves(g)
<1>1. Folded(n) = x[R]
  BY DEF Folded
<1>2. RoundFacts(n, R) /\ Dist[R] = n
  BY RoundsOf
<1> HIDE DEF R
<1>3. R \in Nat /\ n \in Nat /\ n > 0 /\ Dist[0] = 1 /\ 0 \in 0..R /\ R \in 0..R
  BY <1>2 DEF RoundFacts
<1>4. \A k \in 0..R : f[k] = [r \in Ranks(n) |-> Part(Dist[k], r)]
  OBVIOUS
<1>5. f[0] = Own(n)
  <2>1. f[0] = [r \in Ranks(n) |-> Part(1, r)]
    <3> HIDE DEF f, Part
    <3> QED BY <1>3, <1>4
  <2>2. ASSUME NEW r \in Ranks(n) PROVE Part(1, r) = <<r>>
    <3>1. r \in Nat
      BY DEF Ranks
    <3>2. <<r>> = RanksFrom(r, 1)
      BY <3>1, RunsOfRanks
    <3>3. r % 1 = 0
      BY <3>1, SMTT(30)
    <3>4. r - (r % 1) = r
      BY <3>1, <3>3
    <3> QED BY <3>2, <3>4
  <2> QED BY <2>1, <2>2 DEF Own
<1>6. ASSUME NEW k \in 1..R PROVE f[k] = Shift(k, f[k - 1])
  <2> DEFINE D == Dist[k - 1]
             h == [r \in Ranks(n) |-> Part(D, r)]
  <2>1. D \in Nat /\ D > 0 /\ D < n /\ Dist[k] = 2 * D /\ k - 1 \in 0..R /\ k \in 0..R
    BY <1>2, <1>3 DEF RoundFacts
  <2>2. f[k - 1] = h /\ f[k] = [r \in Ranks(n) |-> Part(2 * D, r)]
    <3> HIDE DEF Part, f
    <3> QED BY <1>4, <2>1
  <2>3. Shift(k, h) = [r \in Ranks(n) |->
                       LET p == Partner(r, D)
                       IN  IF p >= n THEN h[r]
                           ELSE IF r < p THEN h[r] \o h[p]
                           ELSE h[p] \o h[r]]
    OBVIOUS
  <2>0. PICK q \in Nat : n = q * (2 * D)
    <3>1. \E q \in Nat : n = q * Dist[k]
      BY <1>2, <2>1, DistancesDivide
    <3> QED BY <2>1, <3>1
  <2> HIDE DEF D
  <2>4. ASSUME NEW r \in Ranks(n)
        PROVE  Part(2 * D, r) = LET p == Partner(r, D)
                                IN  IF p >= n THEN h[r]
                                    ELSE IF r < p THEN h[r] \o h[p]
                                    ELSE h[p] \o h[r]
    <3> DEFINE p == Partner(r, D)
               b == r - (r % (2 * D))
    <3>1. Paired(r, p, D, b, n)
      BY <1>3, <2>0, <2>1, PartnersShareABlock
    <3> HIDE DEF p
    <3>2. Part(2 * D, r) = RanksFrom(b, 2 * D)
      OBVIOUS
    <3> HIDE DEF b
    <3>3. b \in Nat /\ p \in Ranks(n) /\ ~ (p >= n)
      BY <3>1, <1>3 DEF Paired, Ranks
    <3>4. h[r] = RanksFrom(r - (r % D), D) /\ h[p] = RanksFrom(p - (p % D), D)
      BY <3>3
    <3>5. RanksFrom(b, D) \o RanksFrom(b + D, D) = RanksFrom(b, 2 * D)
      <4>1. RanksFrom(b, D) \o RanksFrom(b + D, D) = RanksFrom(b, D + D)
        BY <3>3, <2>1, RunsMeet
      <4>2. D + D = 2 * D
        BY <2>1
      <4> QED BY <4>1, <4>2
    <3>6. CASE r < p
      <4>1. h[r] = RanksFrom(b, D) /\ h[p] = RanksFrom(b + D, D)
        BY <3>1, <3>4, <3>6 DEF Paired
      <4> HIDE DEF h, Part
      <4> QED BY <3>2, <3>3, <3>5, <3>6, <4>1 DEF p
    <3>7. CASE ~ (r < p)
      <4>1. h[p] = RanksFrom(b, D) /\ h[r] = RanksFrom(b + D, D)
        BY <3>1, <3>4, <3>7 DEF Paired
      <4> HIDE DEF h, Part
      <4> QED BY <3>2, <3>3, <3>5, <3>7, <4>1 DEF p
    <3> QED BY <3>6, <3>7
  <2>5. f[k] = Shift(k, h)
    <3> HIDE DEF Part, h, f, Shift
    <3> QED BY <2>2, <2>3, <2>4
  <2> HIDE DEF Part, h, f, Shift
  <2> QED BY <2>2, <2>5
<1>7. Solves(f)
  <2>1. \A k \in 0..R : k # 0 => k \in 1..R
    BY <1>3
  <2>2. f = [k \in 0..R |-> IF k = 0 THEN Own(n) ELSE Shift(k, f[k - 1])]
    <3> DEFINE h == [k \in 0..R |-> IF k = 0 THEN Own(n) ELSE Shift(k, f[k - 1])]
    <3>1. \A k \in 0..R : f[k] = h[k]
      <4> HIDE DEF Shift, f
      <4> QED BY <1>5, <1>6, <2>1
    <3> QED BY <3>1
  <2> QED BY <2>2
<1>8. Solves(x)
  <2> HIDE DEF Solves
  <2> QED BY <1>7
<1> HIDE DEF f, x, Part
<1> DEFINE T == {k \in 0..R : x[k] = f[k]}
<1>9. \A k \in 0..R : x[k] = IF k = 0 THEN Own(n) ELSE Shift(k, x[k - 1])
  <2> HIDE DEF Shift
  <2> QED BY <1>8
<1> HIDE DEF Shift
<1>10. 0 \in T
  <2>1. x[0] = Own(n)
    BY <1>3, <1>9
  <2> QED BY <2>1, <1>3, <1>5
<1>11. \A k \in 1..R : k - 1 \in T => k \in T
  BY <1>3, <1>6, <1>9
<1> HIDE DEF T
<1>12. 0..R \subseteq T
  BY <1>3, <1>10, <1>11, BoundedInduction
<1>13. x[R] = f[R]
  BY <1>3, <1>12 DEF T
<1>14. f[R][rank] = Part(Dist[R], rank)
  BY <1>3, <1>4
<1>15. Part(Dist[R], rank) = All(n)
  <2>1. rank \in Nat /\ rank < n
    BY DEF Ranks
  <2>2. rank % n = rank
    <3>1. rank < 2 * n
      BY <2>1, <1>3
    <3> QED BY <2>1, <3>1, <1>3, WrapsOnce
  <2>3. rank - (rank % n) = 0
    BY <2>1, <2>2
  <2>4. Part(n, rank) = RanksFrom(0, n)
    BY <2>3 DEF Part
  <2>5. RanksFrom(0, n) = All(n)
    BY <1>3, RunsOfRanks DEF All
  <2> QED BY <1>2, <2>4, <2>5
<1> QED BY <1>1, <1>13, <1>14, <1>15

-----------------------------------------------------------------------------
\* Sorted by rank, all are as they were.
LEMMA SortedIsAll ==
    ASSUME NEW n \in Nat
    PROVE  ByRank(All(n), n) = All(n)
<1> DEFINE s == All(n)
           Solves(g) == g = [k \in 0..n |-> IF k = 0 THEN <<>> ELSE g[k - 1] \o Kept(s, {k - 1})]
           f == [k \in 0..n |-> UpTo(k)]
           x == CHOOSE g : Solves(g)
<1>1. ByRank(s, n) = x[n]
  BY DEF ByRank
<1>2. \A k \in 1..n : Kept(s, {k - 1}) = <<k - 1>>
  <2>1. \A k \in 1..n : k - 1 \in Ranks(n)
    BY DEF Ranks
  <2> QED BY <2>1, OneIsKept
<1> HIDE DEF s
<1>3. \A k \in 0..n : f[k] = UpTo(k)
  OBVIOUS
<1>4. 0 \in 0..n /\ n \in 0..n /\ \A k \in 0..n : k # 0 => k \in 1..n
  OBVIOUS
<1>5. UpTo(0) = <<>>
  <2>1. 0 \in Nat
    OBVIOUS
  <2> QED BY <2>1, NextRank
<1>6. \A k \in 1..n : UpTo(k - 1) \o Kept(s, {k - 1}) = UpTo(k)
  <2> SUFFICES ASSUME NEW k \in 1..n PROVE UpTo(k - 1) \o <<k - 1>> = UpTo(k)
    BY <1>2
  <2> DEFINE j == k - 1
  <2>1. j \in Nat /\ j + 1 = k
    OBVIOUS
  <2> HIDE DEF j
  <2>2. UpTo(j) \o <<j>> = UpTo(j + 1)
    BY <2>1, NextRank
  <2> QED BY <2>1, <2>2 DEF j
<1>7. \A k \in 1..n : k - 1 \in 0..n
  OBVIOUS
<1>8. Solves(f)
  <2> DEFINE h == [k \in 0..n |-> IF k = 0 THEN <<>> ELSE f[k - 1] \o Kept(s, {k - 1})]
  <2>1. \A k \in 0..n : f[k] = h[k]
    <3> HIDE DEF f
    <3> QED BY <1>3, <1>4, <1>5, <1>6, <1>7
  <2> QED BY <2>1
<1>9. Solves(x)
  <2> HIDE DEF Solves
  <2> QED BY <1>8
<1> HIDE DEF x, f
<1>10. \A k \in 0..n : x[k] = IF k = 0 THEN <<>> ELSE x[k - 1] \o Kept(s, {k - 1})
  BY <1>9
<1> DEFINE T == {k \in 0..n : x[k] = UpTo(k)}
<1>11. 0 \in T
  BY <1>4, <1>5, <1>10
<1>12. \A k \in 1..n : k - 1 \in T => k \in T
  <2> SUFFICES ASSUME NEW k \in 1..n, k - 1 \in T PROVE k \in T
    OBVIOUS
  <2>1. k \in 0..n /\ k # 0
    OBVIOUS
  <2>2. x[k] = x[k - 1] \o Kept(s, {k - 1})
    BY <1>10, <2>1
  <2>3. x[k - 1] = UpTo(k - 1)
    OBVIOUS
  <2> QED BY <1>6, <2>1, <2>2, <2>3
<1> HIDE DEF T
<1>13. 0..n \subseteq T
  BY <1>11, <1>12, BoundedInduction
<1> QED BY <1>1, <1>4, <1>13 DEF T, s, All

-----------------------------------------------------------------------------
(* What each operation gives rank r.                                        *)
LEMMA AllHasAll ==
    ASSUME NEW n \in Nat
    PROVE  OnceEach(All(n), n)
<1>1. Len(All(n)) = n /\ DOMAIN All(n) = 1..n /\ \A i \in 1..n : All(n)[i] = i - 1
  BY DEF All, UpTo
<1>2. \A i \in 1..n : All(n)[i] \in Ranks(n)
  BY <1>1 DEF Ranks
<1>3. \A r \in Ranks(n) : r + 1 \in 1..n /\ All(n)[r + 1] = r
  BY <1>1 DEF Ranks
<1> HIDE DEF All
<1>4. {All(n)[i] : i \in 1..n} = Ranks(n)
  BY <1>2, <1>3
<1> QED BY <1>1, <1>4 DEF OnceEach

\* Every size is positive, so rank 0 is there.
LEMMA SizesAndRanks ==
    ASSUME CollectivesAssumption, NEW n \in 1..MaxWorkers
    PROVE  n \in Nat /\ n > 0 /\ 0 \in Ranks(n)
  BY DEF CollectivesAssumption, Ranks

\* A broadcast gives the root's item to every rank, once the root is one that
\* the algorithm serves.
LEMMA BroadcastDelivers ==
    ASSUME CollectivesAssumption, NEW n \in 1..MaxWorkers, NEW root \in Ranks(n),
           NEW alg \in Algorithms, alg \in {"tree", "recursive_doubling"} => root = 0,
           NEW r \in Ranks(n)
    PROVE  Broadcast(n, root, alg)[r] = <<root>>
<1> DEFINE reached == CASE alg \in {"linear", "pairwise"} -> Ranks(n)
                        [] alg = "ring" -> RingReach(root, n)
                        [] OTHER -> BinomialReach(root, n)
<1>1. n \in Nat
  BY SizesAndRanks
<1>2. Ranks(n) \subseteq reached
  <2>1. CASE alg \in {"linear", "pairwise"}
    <3>1. reached = Ranks(n)
      BY <2>1
    <3> QED BY <3>1
  <2>2. CASE alg = "ring"
    <3>1. reached = RingReach(root, n)
      BY <2>2
    <3> QED BY <1>1, <3>1, RingReachesAll
  <2>3. CASE alg \in {"tree", "recursive_doubling"}
    <3>1. reached = BinomialReach(root, n) /\ root = 0
      BY <2>3
    <3> QED BY <3>1, BinomialReachesAll
  <2> QED BY <2>1, <2>2, <2>3 DEF Algorithms
<1>3. Broadcast(n, root, alg) = [k \in Ranks(n) |-> IF k \in reached THEN <<root>> ELSE <<>>]
  BY DEF Broadcast
<1> HIDE DEF reached
<1> QED BY <1>2, <1>3

\* A scatter gives every rank the item of its own.
LEMMA ScatterDelivers ==
    ASSUME CollectivesAssumption, NEW n \in 1..MaxWorkers, NEW root \in Ranks(n),
           NEW alg \in Algorithms, NEW r \in Ranks(n)
    PROVE  Scatter(n, root, alg)[r] = <<r>>
<1> DEFINE reached == CASE alg \in {"linear", "pairwise"} -> Ranks(n)
                        [] alg = "ring" -> RingReach(root, n)
                        [] OTHER -> Halving(root, n)
<1>1. n \in Nat
  BY SizesAndRanks
<1>2. Ranks(n) \subseteq reached
  <2>1. CASE alg \in {"linear", "pairwise"}
    <3>1. reached = Ranks(n)
      BY <2>1
    <3> QED BY <3>1
  <2>2. CASE alg = "ring"
    <3>1. reached = RingReach(root, n)
      BY <2>2
    <3> QED BY <1>1, <3>1, RingReachesAll
  <2>3. CASE alg \in {"tree", "recursive_doubling"}
    <3>1. reached = Halving(root, n)
      BY <2>3
    <3> QED BY <1>1, <3>1, HalvingReachesAll
  <2> QED BY <2>1, <2>2, <2>3 DEF Algorithms
<1>3. Scatter(n, root, alg) = [k \in Ranks(n) |-> IF k \in reached THEN <<k>> ELSE <<>>]
  BY DEF Scatter
<1> HIDE DEF reached
<1> QED BY <1>2, <1>3

\* A gather gives the root all items in rank order.
LEMMA GatherDelivers ==
    ASSUME CollectivesAssumption, NEW n \in 1..MaxWorkers, NEW root \in Ranks(n),
           NEW alg \in Algorithms
    PROVE  Gather(n, root, alg)[root] = All(n)
<1> DEFINE ordered == <<root>> \o AroundTo(n, root)
           value == CASE alg \in {"linear", "pairwise"} -> All(n)
                      [] alg = "ring" -> IF Len(ordered) = n THEN All(n) ELSE ordered
                      [] OTHER -> ByRank(Doubling(root, n), n)
<1>1. n \in Nat
  BY SizesAndRanks
<1>2. value = All(n)
  <2>1. CASE alg \in {"linear", "pairwise"}
    BY <2>1
  <2>2. CASE alg = "ring"
    <3>1. Len(ordered) = n
      BY <1>1, AroundHasAll
    <3> HIDE DEF ordered
    <3> QED BY <2>2, <3>1
  <2>3. CASE alg \in {"tree", "recursive_doubling"}
    <3>1. value = ByRank(Doubling(root, n), n)
      BY <2>3
    <3>2. Doubling(root, n) = All(n)
      BY <1>1, DoublingIsAll
    <3>3. ByRank(All(n), n) = All(n)
      BY <1>1, SortedIsAll
    <3> QED BY <3>1, <3>2, <3>3
  <2> QED BY <2>1, <2>2, <2>3 DEF Algorithms
<1>3. Gather(n, root, alg) = [k \in Ranks(n) |-> IF k = root THEN value ELSE <<>>]
  BY DEF Gather, OnlyAt
<1> HIDE DEF value
<1> QED BY <1>2, <1>3

\* A reduction takes every rank's item once.
LEMMA ReduceDelivers ==
    ASSUME CollectivesAssumption, NEW n \in 1..MaxWorkers, NEW root \in Ranks(n),
           NEW alg \in Algorithms
    PROVE  OnceEach(Reduce(n, root, alg)[root], n)
<1> DEFINE value == CASE alg \in {"linear", "pairwise"} ->
                             <<root>> \o Kept(All(n), Ranks(n) \ {root})
                      [] alg = "ring" -> <<root>> \o AroundTo(n, root)
                      [] OTHER -> Doubling(root, n)
<1>1. n \in Nat
  BY SizesAndRanks
<1>2. OnceEach(value, n)
  <2>1. CASE alg \in {"linear", "pairwise"}
    <3>1. value = <<root>> \o Kept(All(n), Ranks(n) \ {root})
      BY <2>1
    <3> HIDE DEF value
    <3> QED BY <1>1, <3>1, OneAndOthers
  <2>2. CASE alg = "ring"
    <3>1. value = <<root>> \o AroundTo(n, root)
      BY <2>2
    <3> HIDE DEF value
    <3> QED BY <1>1, <3>1, AroundHasAll
  <2>3. CASE alg \in {"tree", "recursive_doubling"}
    <3>1. value = Doubling(root, n)
      BY <2>3
    <3> HIDE DEF value
    <3> QED BY <1>1, <3>1, DoublingIsAll, AllHasAll
  <2> QED BY <2>1, <2>2, <2>3 DEF Algorithms
<1>3. Reduce(n, root, alg) = [k \in Ranks(n) |-> IF k = root THEN value ELSE <<>>]
  BY DEF Reduce, OnlyAt
<1> HIDE DEF value
<1> QED BY <1>2, <1>3

\* An allgather gives every rank all items in rank order.
LEMMA AllGatherDelivers ==
    ASSUME CollectivesAssumption, NEW n \in 1..MaxWorkers, NEW alg \in Algorithms,
           NEW r \in Ranks(n)
    PROVE  AllGather(n, alg)[r] = All(n)
<1> DEFINE full == Gather(n, 0, alg)[0]
           rotated(k) == {(k + n - s) % n : s \in Ranks(n)}
           doubled(k) == Exchanged(n)[k] \cup (Ranks(n) \ Exchanged(n)[k])
           value(k) == CASE alg = "ring" -> Kept(All(n), rotated(k))
                         [] alg = "recursive_doubling" -> Kept(All(n), doubled(k))
                         [] alg = "pairwise" -> All(n)
                         [] alg = "linear" -> full
                         [] OTHER -> IF k \in BinomialReach(0, n) THEN full ELSE <<>>
<1>1. n \in Nat /\ 0 \in Ranks(n)
  BY SizesAndRanks
<1>2. full = All(n)
  BY <1>1, GatherDelivers
<1>3. value(r) = All(n)
  <2>1. CASE alg = "ring"
    <3>1. Ranks(n) \subseteq rotated(r)
      BY <1>1, RotationsCover
    <3> HIDE DEF rotated
    <3>2. Kept(All(n), rotated(r)) = All(n)
      BY <1>1, <3>1, AllAreKept
    <3> QED BY <2>1, <3>2
  <2>2. CASE alg = "recursive_doubling"
    <3>1. Ranks(n) \subseteq doubled(r)
      OBVIOUS
    <3> HIDE DEF doubled
    <3>2. Kept(All(n), doubled(r)) = All(n)
      BY <1>1, <3>1, AllAreKept
    <3> QED BY <2>2, <3>2
  <2>3. CASE alg = "pairwise"
    BY <2>3
  <2>4. CASE alg = "linear"
    <3> HIDE DEF full
    <3> QED BY <2>4, <1>2
  <2>5. CASE alg = "tree"
    <3>1. r \in BinomialReach(0, n)
      BY BinomialReachesAll
    <3> HIDE DEF full
    <3> QED BY <2>5, <3>1, <1>2
  <2> QED BY <2>1, <2>2, <2>3, <2>4, <2>5 DEF Algorithms
<1>4. AllGather(n, alg) = [k \in Ranks(n) |-> value(k)]
  BY DEF AllGather
<1> HIDE DEF value
<1> QED BY <1>3, <1>4

\* An allreduce takes every item once, and all ranks combine in one order
\* except on the ring.
LEMMA AllReduceDelivers ==
    ASSUME CollectivesAssumption, NEW n \in 1..MaxWorkers, NEW alg \in Algorithms,
           NEW r \in Ranks(n)
    PROVE  /\ OnceEach(AllReduce(n, alg)[r], n)
           /\ alg # "ring" => AllReduce(n, alg)[r] = AllReduce(n, alg)[0]
<1> DEFINE powerOfTwo == Dist[Rounds(n)] = n
           reduced == Reduce(n, 0, alg)[0]
           value(k) == CASE alg = "ring" -> [i \in 1..n |-> (k + n - (i - 1)) % n]
                         [] alg = "recursive_doubling" ->
                               IF powerOfTwo THEN Folded(n)[k] ELSE All(n)
                         [] OTHER -> IF Broadcast(n, 0, alg)[k] # <<>> THEN reduced ELSE <<>>
<1>1. n \in Nat /\ 0 \in Ranks(n)
  BY SizesAndRanks
<1>2. AllReduce(n, alg) = [k \in Ranks(n) |-> value(k)]
  BY DEF AllReduce
<1>3. CASE alg = "ring"
  <2>1. value(r) = [i \in 1..n |-> (r + n - (i - 1)) % n]
    BY <1>3
  <2> HIDE DEF value
  <2>2. AllReduce(n, alg)[r] = [i \in 1..n |-> (r + n - (i - 1)) % n]
    BY <1>2, <2>1
  <2> QED BY <1>1, <1>3, <2>2, RotationHasAll
<1>4. CASE alg = "recursive_doubling"
  <2>1. \A k \in Ranks(n) : value(k) = All(n)
    <3>1. \A k \in Ranks(n) : powerOfTwo => Folded(n)[k] = All(n)
      BY FoldedIsAll
    <3> HIDE DEF powerOfTwo
    <3> QED BY <1>4, <3>1
  <2> HIDE DEF value
  <2>2. AllReduce(n, alg)[r] = All(n) /\ AllReduce(n, alg)[0] = All(n)
    BY <1>1, <1>2, <2>1
  <2> QED BY <1>1, <2>2, AllHasAll
<1>5. CASE alg \in {"tree", "pairwise", "linear"}
  <2>1. \A k \in Ranks(n) : Broadcast(n, 0, alg)[k] = <<0>>
    BY <1>1, BroadcastDelivers
  <2>2. <<0>> # <<>>
    OBVIOUS
  <2>3. \A k \in Ranks(n) : value(k) = reduced
    <3> HIDE DEF reduced
    <3> QED BY <1>5, <2>1, <2>2
  <2> HIDE DEF value
  <2>4. AllReduce(n, alg)[r] = reduced /\ AllReduce(n, alg)[0] = reduced
    BY <1>1, <1>2, <2>3
  <2>5. OnceEach(reduced, n)
    BY <1>1, ReduceDelivers
  <2> QED BY <2>4, <2>5
<1> QED BY <1>3, <1>4, <1>5 DEF Algorithms

\* A scan gives each rank the items up to its own, in order.
LEMMA ScanDelivers ==
    ASSUME CollectivesAssumption, NEW n \in 1..MaxWorkers, NEW alg \in Algorithms,
           NEW r \in Ranks(n)
    PROVE  Scan(n, alg)[r] = All(r + 1)
<1> DEFINE Solves(g) == g = [k \in Ranks(n) |-> IF k = 0 THEN <<0>> ELSE g[k - 1] \o <<k>>]
           f == [k \in Ranks(n) |-> UpTo(k + 1)]
           handedOn == CHOOSE g : Solves(g)
           value(k) == CASE alg = "recursive_doubling" -> Shifted(n)[k]
                         [] alg = "tree" -> TreeScan(n)[k]
                         [] alg = "pairwise" -> All(k + 1)
                         [] OTHER -> handedOn[k]
<1>1. n \in Nat /\ n > 0 /\ 0 \in Ranks(n) /\ r \in Nat /\ r + 1 \in Nat
  BY SizesAndRanks DEF Ranks
<1>2. RanksFrom(0, r + 1) = All(r + 1)
  BY <1>1, RunsOfRanks DEF All
<1>3. Scan(n, alg) = [k \in Ranks(n) |-> value(k)]
  BY DEF Scan
<1>4. Ranks(n) = 0..(n - 1) /\ n - 1 \in Nat
  BY <1>1 DEF Ranks
<1>5. <<0>> = UpTo(1) /\ \A k \in 1..(n - 1) : UpTo(k) \o <<k>> = UpTo(k + 1)
  <2>1. <<0>> = RanksFrom(0, 1) /\ UpTo(1) = RanksFrom(0, 1)
    BY RunsOfRanks
  <2>2. \A k \in 1..(n - 1) : UpTo(k) \o <<k>> = UpTo(k + 1)
    <3>1. \A k \in 1..(n - 1) : k \in Nat
      OBVIOUS
    <3> QED BY <3>1, NextRank
  <2> QED BY <2>1, <2>2
<1>6. \A k \in Ranks(n) : f[k] = UpTo(k + 1)
  OBVIOUS
<1>7. \A k \in 1..(n - 1) : k \in Ranks(n) /\ k # 0 /\ k - 1 \in Ranks(n) /\ (k - 1) + 1 = k
  BY <1>4
<1>8. \A k \in Ranks(n) : k = 0 \/ k \in 1..(n - 1)
  BY <1>4
<1>9. Solves(f)
  <2> DEFINE h == [k \in Ranks(n) |-> IF k = 0 THEN <<0>> ELSE f[k - 1] \o <<k>>]
  <2>1. ASSUME NEW k \in Ranks(n) PROVE f[k] = h[k]
    <3>1. CASE k = 0
      <4>1. f[k] = UpTo(1)
        BY <3>1
      <4> QED BY <3>1, <4>1, <1>1, <1>5
    <3>2. CASE k # 0
      <4>1. k \in 1..(n - 1)
        BY <1>8, <3>2
      <4>2. f[k - 1] = UpTo(k) /\ f[k] = UpTo(k + 1)
        <5>1. f[k - 1] = UpTo((k - 1) + 1)
          BY <4>1, <1>6, <1>7
        <5> QED BY <5>1, <4>1, <1>6, <1>7
      <4> HIDE DEF f
      <4>3. h[k] = f[k - 1] \o <<k>>
        BY <3>2
      <4> QED BY <4>1, <4>2, <4>3, <1>5
    <3> QED BY <3>1, <3>2
  <2> QED BY <2>1
<1>10. Solves(handedOn)
  <2> HIDE DEF Solves
  <2> QED BY <1>9
<1> HIDE DEF f, handedOn
<1>11. \A k \in Ranks(n) : handedOn[k] = IF k = 0 THEN <<0>> ELSE handedOn[k - 1] \o <<k>>
  BY <1>10
<1> DEFINE T == {k \in 0..(n - 1) : handedOn[k] = UpTo(k + 1)}
<1>12. 0 \in T
  <2>1. handedOn[0] = <<0>>
    BY <1>1, <1>11
  <2>2. 0 \in 0..(n - 1) /\ 0 + 1 = 1
    BY <1>4
  <2>3. handedOn[0] = UpTo(0 + 1)
    BY <2>1, <2>2, <1>5
  <2> QED BY <2>2, <2>3
<1>13. ASSUME NEW k \in 1..(n - 1), k - 1 \in T PROVE k \in T
  <2>1. handedOn[k - 1] = UpTo(k)
    <3>1. handedOn[k - 1] = UpTo((k - 1) + 1)
      BY <1>13
    <3> QED BY <3>1, <1>7
  <2>2. handedOn[k] = handedOn[k - 1] \o <<k>>
    BY <1>7, <1>11
  <2>3. handedOn[k] = UpTo(k + 1) /\ k \in 0..(n - 1)
    <3>1. UpTo(k) \o <<k>> = UpTo(k + 1)
      BY <1>5
    <3>2. k \in 0..(n - 1)
      BY <1>4
    <3> QED BY <2>1, <2>2, <3>1, <3>2, Zenon
  <2> QED BY <2>3
<1> HIDE DEF T
<1>14. 0..(n - 1) \subseteq T
  BY <1>4, <1>12, <1>13, BoundedInduction
<1>15. handedOn[r] = All(r + 1)
  BY <1>4, <1>14 DEF T, All
<1>16. Shifted(n)[r] = All(r + 1)
  BY <1>2, ShiftedIsScan
<1>17. TreeScan(n)[r] = All(r + 1)
  BY <1>1, <1>2, TreeScanIsScan
<1>18. value(r) = All(r + 1)
  BY <1>15, <1>16, <1>17
<1> HIDE DEF value
<1> QED BY <1>3, <1>18

\* An alltoall gives every rank the item that each other has for it.
LEMMA AllToAllDelivers ==
    ASSUME CollectivesAssumption, NEW n \in 1..MaxWorkers, NEW alg \in Algorithms,
           NEW r \in Ranks(n)
    PROVE  AllToAll(n, alg)[r] = All(n)
<1> DEFINE near(c) == {Partner(c, Dist[k]) : k \in 0..(Rounds(n) - 1)} \cap Ranks(n)
           rotated(c) == {(c + n - k) % n : k \in 1..(n - 1)}
           from(c) == CASE alg \in {"pairwise", "ring"} -> rotated(c)
                        [] alg = "recursive_doubling" -> near(c) \cup (Ranks(n) \ near(c))
                        [] OTHER -> Ranks(n)
           senders(c) == {c} \cup from(c)
<1>1. n \in Nat
  BY SizesAndRanks
<1>2. AllToAll(n, alg) = [c \in Ranks(n) |-> Kept(All(n), senders(c))]
  BY DEF AllToAll
<1>3. Ranks(n) \subseteq senders(r)
  <2>1. CASE alg \in {"pairwise", "ring"}
    <3>1. from(r) = rotated(r)
      BY <2>1
    <3>2. Ranks(n) \subseteq {r} \cup rotated(r)
      BY <1>1, RotationsCover
    <3> HIDE DEF from, rotated
    <3> QED BY <3>1, <3>2
  <2>2. CASE alg = "recursive_doubling"
    <3>1. from(r) = near(r) \cup (Ranks(n) \ near(r))
      BY <2>2
    <3> HIDE DEF from, near
    <3> QED BY <3>1
  <2>3. CASE alg \in {"tree", "linear"}
    <3>1. from(r) = Ranks(n)
      BY <2>3
    <3> HIDE DEF from
    <3> QED BY <3>1
  <2> QED BY <2>1, <2>2, <2>3 DEF Algorithms
<1> HIDE DEF senders
<1>4. Kept(All(n), senders(r)) = All(n)
  BY <1>1, <1>3, AllAreKept
<1> QED BY <1>2, <1>4

-----------------------------------------------------------------------------
(* What holds at every moment: the result is that of the request, which is  *)
(* one that the code takes.                                                 *)
CollectivesInv ==
    /\ request.op \in Operations
    /\ request.alg \in Algorithms
    /\ request.n \in 1..MaxWorkers
    /\ request.root \in Ranks(request.n)
    /\ result = Perform(request)

\* So every rank has what it is owed.
LEMMA EachIsServed ==
    ASSUME CollectivesAssumption, CollectivesInv
    PROVE  CollectivesDeliver
<1> DEFINE q == request
           n == q.n
           owed(r) ==
               CASE q.op = "BROADCAST" -> result[r] = <<q.root>>
                 [] q.op = "SCATTER" -> result[r] = <<r>>
                 [] q.op = "GATHER" -> r = q.root => result[r] = All(q.n)
                 [] q.op = "REDUCE" -> r = q.root => OnceEach(result[r], q.n)
                 [] q.op = "ALLREDUCE" ->
                       /\ OnceEach(result[r], q.n)
                       /\ q.alg # "ring" => result[r] = result[0]
                 [] q.op = "SCAN" -> result[r] = All(r + 1)
                 [] OTHER -> result[r] = All(q.n)
<1> SUFFICES ASSUME NEW r \in Ranks(q.n) PROVE owed(r) \/ OffCentre(q)
  BY Zenon DEF CollectivesDeliver
<1>1. /\ q.alg \in Algorithms /\ q.n \in 1..MaxWorkers /\ q.root \in Ranks(q.n)
      /\ q.op \in Operations
  BY DEF CollectivesInv
<1>2. result = Perform(q)
  BY DEF CollectivesInv
<1>3. CASE q.op = "BROADCAST"
  <2>1. result = Broadcast(q.n, q.root, q.alg)
    BY <1>2, <1>3 DEF Perform
  <2>2. CASE OffCentre(q)
    BY <2>2
  <2>3. CASE ~ OffCentre(q)
    <3>1. q.alg \in {"tree", "recursive_doubling"} => q.root = 0
      BY <1>3, <2>3 DEF OffCentre
    <3>2. result[r] = <<q.root>>
      <4> HIDE DEF q
      <4> QED BY <1>1, <2>1, <3>1, BroadcastDelivers
    <3> QED BY <1>3, <3>2
  <2> QED BY <2>2, <2>3
<1>4. CASE q.op = "SCATTER"
  <2>1. result = Scatter(q.n, q.root, q.alg)
    BY <1>2, <1>4 DEF Perform
  <2>2. result[r] = <<r>>
    <3> HIDE DEF q
    <3> QED BY <1>1, <2>1, ScatterDelivers
  <2> QED BY <1>4, <2>2
<1>5. CASE q.op = "GATHER"
  <2>1. result = Gather(q.n, q.root, q.alg)
    BY <1>2, <1>5 DEF Perform
  <2>2. result[q.root] = All(q.n)
    <3> HIDE DEF q
    <3> QED BY <1>1, <2>1, GatherDelivers
  <2> QED BY <1>5, <2>2
<1>6. CASE q.op = "REDUCE"
  <2>1. result = Reduce(q.n, q.root, q.alg)
    BY <1>2, <1>6 DEF Perform
  <2>2. OnceEach(result[q.root], q.n)
    <3> HIDE DEF q
    <3> QED BY <1>1, <2>1, ReduceDelivers
  <2> QED BY <1>6, <2>2
<1>7. CASE q.op = "ALLREDUCE"
  <2>1. result = AllReduce(q.n, q.alg)
    BY <1>2, <1>7 DEF Perform
  <2>2. OnceEach(result[r], q.n) /\ (q.alg # "ring" => result[r] = result[0])
    <3> HIDE DEF q
    <3> QED BY <1>1, <2>1, AllReduceDelivers
  <2> QED BY <1>7, <2>2
<1>8. CASE q.op = "SCAN"
  <2>1. result = Scan(q.n, q.alg)
    BY <1>2, <1>8 DEF Perform
  <2>2. result[r] = All(r + 1)
    <3> HIDE DEF q
    <3> QED BY <1>1, <2>1, ScanDelivers
  <2> QED BY <1>8, <2>2
<1>9. CASE q.op = "ALLGATHER"
  <2>1. result = AllGather(q.n, q.alg)
    BY <1>2, <1>9 DEF Perform
  <2>2. result[r] = All(q.n)
    <3> HIDE DEF q
    <3> QED BY <1>1, <2>1, AllGatherDelivers
  <2> QED BY <1>9, <2>2
<1>10. CASE q.op = "ALLTOALL"
  <2>1. result = AllToAll(q.n, q.alg)
    BY <1>2, <1>10 DEF Perform
  <2>2. result[r] = All(q.n)
    <3> HIDE DEF q
    <3> QED BY <1>1, <2>1, AllToAllDelivers
  <2> QED BY <1>10, <2>2
<1> QED BY <1>1, <1>3, <1>4, <1>5, <1>6, <1>7, <1>8, <1>9, <1>10 DEF Operations

(* By every schedule, for every number of workers and every root, each      *)
(* operation of the collectives gives each rank what it is owed, but for    *)
(* the broadcast by a binomial tree that does not start at rank 0.          *)
THEOREM CollectivesAlwaysDeliver ==
    CollectivesSpec => []CollectivesDeliver
<1>0. CollectivesAssumption
  BY CollectivesAssumption
<1>1. CollectivesInit => CollectivesInv
  <2> SUFFICES ASSUME CollectivesInit PROVE CollectivesInv
    OBVIOUS
  <2>1. request = [op |-> "BROADCAST", alg |-> "linear", n |-> 1, root |-> 0]
    BY DEF CollectivesInit
  <2>2. /\ request.op = "BROADCAST" /\ request.alg = "linear" /\ request.n = 1
        /\ request.root = 0
    BY <2>1
  <2>3. 1 \in 1..MaxWorkers
    BY <1>0 DEF CollectivesAssumption
  <2>4. Ranks(1) = {0}
    BY DEF Ranks
  <2>5. Perform(request) = Broadcast(1, 0, "linear")
    BY <2>2 DEF Perform
  <2>6. Broadcast(1, 0, "linear") = [r \in {0} |-> <<0>>]
    <3>1. Broadcast(1, 0, "linear") = [r \in Ranks(1) |-> IF r \in Ranks(1) THEN <<0>> ELSE <<>>]
      BY DEF Broadcast
    <3> QED BY <3>1, <2>4
  <2> QED BY <2>2, <2>3, <2>4, <2>5, <2>6 DEF CollectivesInit, CollectivesInv, Operations, Algorithms
<1>2. CollectivesInv /\ [CollectivesNext]_collectiveVars => CollectivesInv'
  <2> SUFFICES ASSUME CollectivesInv, [CollectivesNext]_collectiveVars PROVE CollectivesInv'
    OBVIOUS
  <2>1. CASE CollectivesNext
    <3>1. PICK op \in Operations, alg \in Algorithms, n \in 1..MaxWorkers :
             \E root \in Ranks(n) :
                /\ request' = [op |-> op, alg |-> alg, n |-> n, root |-> root]
                /\ result' = Perform(request')
      BY <2>1 DEF CollectivesNext
    <3>2. PICK root \in Ranks(n) :
             /\ request' = [op |-> op, alg |-> alg, n |-> n, root |-> root]
             /\ result' = Perform(request')
      BY <3>1
    <3>3. /\ request'.op = op /\ request'.alg = alg /\ request'.n = n
          /\ request'.root = root
      BY <3>2
    <3> QED BY <3>2, <3>3 DEF CollectivesInv
  <2>2. CASE UNCHANGED collectiveVars
    BY <2>2 DEF CollectivesInv, collectiveVars
  <2> QED BY <2>1, <2>2
<1>3. CollectivesInv => CollectivesDeliver
  BY <1>0, EachIsServed
<1> QED BY <1>1, <1>2, <1>3, PTL DEF CollectivesSpec
=============================================================================
