--------------------------- MODULE ProgramProofs ----------------------------
(***************************************************************************)
(* Proofs about what happens to a program: the futures of AsyncEngine, the *)
(* ownership rules of lang.verify, for programs of any length over any     *)
(* keys, and the replicated objects.                                       *)
(*                                                                         *)
(* AsyncEngine: RunOnce is strengthened by Apart, its form in terms of     *)
(* what each drain holds, together with two facts: what is in a list was   *)
(* submitted (Fresh), and only the innermost drain is in its loop (Outer), *)
(* so that nothing changes between the moment a future is found blocked    *)
(* and the moment its drain gives up.                                      *)
(*                                                                         *)
(* Replicas: RepInv relates every replica to the set of updates it has     *)
(* seen. What a replica holds is a function of that set, for each kind of  *)
(* object (FaithfulTo):                                                    *)
(*   - a counter holds, for each writer, the sum of the writer's amounts   *)
(*     in the set. Of each writer's updates everybody has seen a prefix,   *)
(*     so of two such sums the larger is that of the larger set;           *)
(*   - a set holds the tags of the additions in it, less those a removal   *)
(*     in it names, and the removal was made where an addition of that tag *)
(*     was seen: a caller may pass a tag that is taken already;            *)
(*   - a register holds the latest write by (stamp, writer), and a vector  *)
(*     with the last stamp of each writer.                                 *)
(* Merging two replicas is then the union of two sets, and the merge laws  *)
(* are those of union. Of registers this needs StampsAdvance: set() takes  *)
(* a timestamp that is not later than the register's, and what the         *)
(* register then shows its own past outranks.                              *)
(*                                                                         *)
(* What one lexicographic round of merges does needs no such hypothesis.   *)
(* Under(k, x, y) says that merging x into y gives y: whatever a member    *)
(* met before is under what it has (Chained), the first member has heard   *)
(* of everything by the end of its part, and what the last has when it     *)
(* meets the others is what all end with.                                  *)
(***************************************************************************)
EXTENDS AsyncEngine, Ownership, Replicas, DataFacts, SequenceTheorems, FiniteSetTheorems,
        TLAPS

-----------------------------------------------------------------------------
Once(s) == \A i, j \in DOMAIN s : s[i] = s[j] => i = j

\* the futures a drain has still to run
Held(d) == Elems(d.remaining) \cup Elems(d.still)

Tidy(d) ==
    /\ Once(d.remaining) /\ Once(d.still)
    /\ Elems(d.remaining) \cap Elems(d.still) = {}
    /\ d.fut \notin Held(d)
    /\ d.at = "next" <=> d.fut = None

Fresh ==
    /\ \A f \in Futures : f \notin Known => state[f] = "NONE"
    /\ \A f \in Futures : after[f] \subseteq Known
    /\ Elems(pending) \subseteq Known
    /\ \A k \in DOMAIN drains :
          Held(drains[k]) \subseteq Known /\ drains[k].fut \in Known \cup {None}

Apart ==
    /\ Once(pending)
    /\ \A k \in DOMAIN drains :
          /\ Tidy(drains[k])
          /\ Held(drains[k]) \cap Elems(pending) = {}
          /\ drains[k].fut \notin Elems(pending)
          /\ \A l \in DOMAIN drains : k # l =>
                /\ Held(drains[k]) \cap Held(drains[l]) = {}
                /\ drains[l].fut \notin Held(drains[k])

HasRun == {f \in Futures : state[f] \in {"DONE", "FAILED"}}

Ran ==
    /\ HasRun \cap Elems(pending) = {}
    /\ \A k \in DOMAIN drains : HasRun \cap Held(drains[k]) = {}

\* what a future was submitted after is settled
Settled(f) == \A d \in after[f] : state[d] # "PENDING"

AllSettled ==
    /\ \A f \in HasRun : Settled(f)
    /\ \A k \in DOMAIN drains : drains[k].fut # None => Settled(drains[k].fut)

Outer == \A k \in DOMAIN drains : k < Len(drains) => drains[k].at # "next"

IInv ==
    /\ EngineTypeOK /\ Fresh /\ Apart /\ Ran /\ AllSettled /\ Outer
    /\ GivesUpOnlyBlocked
-----------------------------------------------------------------------------
(* Sequences as the sets of their elements.                                *)

\* Append adds one element.
LEMMA AppendElems ==
  ASSUME NEW S, NEW s \in Seq(S), NEW e \in S
  PROVE  /\ Elems(Append(s, e)) = Elems(s) \cup {e}
         /\ Once(s) /\ e \notin Elems(s) => Once(Append(s, e))
<1>1. /\ DOMAIN s = 1..Len(s) /\ Len(s) \in Nat
      /\ DOMAIN Append(s, e) = 1..(Len(s) + 1)
      /\ \A i \in 1..Len(s) : Append(s, e)[i] = s[i]
      /\ Append(s, e)[Len(s) + 1] = e
  BY AppendProperties
<1>2. 1..(Len(s) + 1) = 1..Len(s) \cup {Len(s) + 1}
  BY <1>1
<1>3. Elems(Append(s, e)) = Elems(s) \cup {e}
  BY <1>1, <1>2 DEF Elems
<1>4. ASSUME Once(s), e \notin Elems(s) PROVE Once(Append(s, e))
  BY <1>1, <1>2, <1>4 DEF Once, Elems
<1> QED BY <1>3, <1>4

\* Taking the head of a list without repetitions removes it from the list.
LEMMA TailElems ==
  ASSUME NEW S, NEW s \in Seq(S), s # <<>>
  PROVE  /\ Head(s) \in Elems(s) /\ Elems(s) = Elems(Tail(s)) \cup {Head(s)}
         /\ Once(s) => Once(Tail(s)) /\ Head(s) \notin Elems(Tail(s))
<1>1. /\ DOMAIN s = 1..Len(s) /\ Len(s) \in Nat \ {0} /\ Head(s) = s[1]
      /\ Tail(s) \in Seq(S) /\ DOMAIN Tail(s) = 1..(Len(s) - 1)
      /\ \A i \in 1..(Len(s) - 1) : Tail(s)[i] = s[i + 1]
  BY HeadTailProperties, EmptySeq
<1>2. /\ \A i \in 1..(Len(s) - 1) : i + 1 \in DOMAIN s /\ i + 1 # 1
      /\ \A j \in DOMAIN s : j = 1 \/ (j - 1 \in 1..(Len(s) - 1) /\ j - 1 + 1 = j)
      /\ 1 \in DOMAIN s
      /\ \A i, j \in 1..(Len(s) - 1) : i + 1 = j + 1 => i = j
  BY <1>1
<1>3. Elems(Tail(s)) \subseteq Elems(s) /\ Head(s) \in Elems(s)
  BY <1>1, <1>2 DEF Elems
<1>4. ASSUME NEW j \in DOMAIN s PROVE s[j] \in Elems(Tail(s)) \cup {Head(s)}
  BY <1>1, <1>2 DEF Elems
<1>5. Elems(s) = Elems(Tail(s)) \cup {Head(s)}
  BY <1>3, <1>4 DEF Elems
<1>6. ASSUME Once(s) PROVE Once(Tail(s)) /\ Head(s) \notin Elems(Tail(s))
  BY <1>1, <1>2, <1>6 DEF Once, Elems
<1> QED BY <1>3, <1>5, <1>6

\* The concatenation of disjoint lists without repetitions has none.
LEMMA ConcatElems ==
  ASSUME NEW S, NEW s \in Seq(S), NEW t \in Seq(S)
  PROVE  /\ Elems(s \o t) = Elems(s) \cup Elems(t)
         /\ Once(s) /\ Once(t) /\ Elems(s) \cap Elems(t) = {} => Once(s \o t)
<1> DEFINE c == s \o t
           m == Len(s)
           n == Len(t)
<1>1. /\ DOMAIN s = 1..m /\ DOMAIN t = 1..n /\ m \in Nat /\ n \in Nat
      /\ DOMAIN c = 1..(m + n)
      /\ \A i \in 1..(m + n) : c[i] = IF i <= m THEN s[i] ELSE t[i - m]
  BY ConcatProperties
<1> HIDE DEF c, m, n
<1>2. /\ \A i \in 1..(m + n) :
            \/ i \in 1..m /\ c[i] = s[i]
            \/ i - m \in 1..n /\ c[i] = t[i - m]
      /\ \A i \in 1..m : i \in 1..(m + n) /\ c[i] = s[i]
  BY <1>1
<1>3. \A i \in 1..n : i + m \in 1..(m + n) /\ c[i + m] = t[i]
  BY <1>1
<1>4. Elems(c) = Elems(s) \cup Elems(t)
  <2>1. ASSUME NEW i \in DOMAIN c PROVE c[i] \in Elems(s) \cup Elems(t)
    BY <1>1, <1>2 DEF Elems
  <2>2. ASSUME NEW i \in DOMAIN s PROVE s[i] \in Elems(c)
    BY <1>1, <1>2 DEF Elems
  <2>3. ASSUME NEW i \in DOMAIN t PROVE t[i] \in Elems(c)
    <3>1. i + m \in DOMAIN c /\ c[i + m] = t[i]
      BY <1>1, <1>3
    <3> QED BY <3>1 DEF Elems
  <2> QED BY <2>1, <2>2, <2>3 DEF Elems
<1>5. ASSUME Once(s), Once(t), Elems(s) \cap Elems(t) = {} PROVE Once(c)
  <2> SUFFICES ASSUME NEW i \in 1..(m + n), NEW j \in 1..(m + n), c[i] = c[j]
               PROVE  i = j
    BY <1>1 DEF Once
  <2>1. CASE i \in 1..m /\ c[i] = s[i] /\ j \in 1..m /\ c[j] = s[j]
    BY <1>1, <1>5, <2>1 DEF Once
  <2>2. CASE i - m \in 1..n /\ c[i] = t[i - m] /\ j - m \in 1..n /\ c[j] = t[j - m]
    <3>1. i - m = j - m
      BY <1>1, <1>5, <2>2 DEF Once
    <3> QED BY <1>1, <3>1
  <2>3. CASE i \in 1..m /\ c[i] = s[i] /\ j - m \in 1..n /\ c[j] = t[j - m]
    BY <1>1, <1>5, <2>3 DEF Elems
  <2>4. CASE i - m \in 1..n /\ c[i] = t[i - m] /\ j \in 1..m /\ c[j] = s[j]
    BY <1>1, <1>5, <2>4 DEF Elems
  <2> QED BY <1>2, <2>1, <2>2, <2>3, <2>4
<1> QED BY <1>4, <1>5 DEF c

\* The empty list has no element.
LEMMA NoElems == Elems(<<>>) = {} /\ Once(<<>>)
  BY DEF Elems, Once
-----------------------------------------------------------------------------
(* The stack of drains.                                                    *)

\* The frame on top, and every frame, is a record of the right type.
LEMMA TopFacts ==
  ASSUME EngineTypeOK, Draining
  PROVE  /\ Top \in Drains /\ Top = drains[Len(drains)]
         /\ Len(drains) \in DOMAIN drains /\ Len(drains) \in Nat
         /\ \A k \in DOMAIN drains :
               drains[k] \in Drains /\ k \in Nat /\ k <= Len(drains)
  BY DEF EngineTypeOK, Draining, Top

\* Rewriting the frame on top leaves the others alone.
LEMMA SetTopFacts ==
  ASSUME EngineTypeOK, Draining, NEW d \in Drains, SetTop(d)
  PROVE  /\ drains' \in Seq(Drains) /\ Len(drains') = Len(drains)
         /\ DOMAIN drains' = DOMAIN drains /\ drains'[Len(drains)] = d
         /\ \A k \in DOMAIN drains : k # Len(drains) => drains'[k] = drains[k]
  BY ExceptSeq DEF EngineTypeOK, Draining, SetTop

\* Removing the frame on top leaves the others alone.
LEMMA PopTopFacts ==
  ASSUME EngineTypeOK, Draining, PopTop
  PROVE  /\ drains' \in Seq(Drains) /\ Len(drains') = Len(drains) - 1
         /\ DOMAIN drains' = DOMAIN drains \ {Len(drains)}
         /\ \A k \in DOMAIN drains' : drains'[k] = drains[k]
<1>1. Len(drains) \in Nat \ {0} /\ drains \in Seq(Drains)
  BY DEF EngineTypeOK, Draining
<1> DEFINE n == Len(drains) - 1
<1>2. n \in Int /\ \A i \in 1..n : drains[i] \in Drains
  BY <1>1
<1>3. /\ SubSeq(drains, 1, n) \in Seq(Drains)
      /\ Len(SubSeq(drains, 1, n)) = IF 1 <= n THEN n - 1 + 1 ELSE 0
      /\ \A i \in 1..(n - 1 + 1) : SubSeq(drains, 1, n)[i] = drains[1 + i - 1]
  BY <1>2, SubSeqProperties
<1>4. n \in Nat /\ n - 1 + 1 = n /\ \A i \in 1..n : 1 + i - 1 = i
  BY <1>1
<1>5. drains' = SubSeq(drains, 1, n) /\ DOMAIN drains = 1..(n + 1) /\ Len(drains) = n + 1
  BY <1>1 DEF PopTop
<1> HIDE DEF n
<1>6. Len(SubSeq(drains, 1, n)) = n
  BY <1>3, <1>4
<1>7. \A i \in 1..n : SubSeq(drains, 1, n)[i] = drains[i]
  BY <1>3, <1>4
<1>8. /\ drains' \in Seq(Drains) /\ DOMAIN drains' = 1..n /\ Len(drains') = n
      /\ 1..n = (1..(n + 1)) \ {n + 1} /\ n = n + 1 - 1
  BY <1>3, <1>4, <1>5, <1>6
<1> QED BY <1>5, <1>7, <1>8

\* A new frame leaves the others alone.
LEMMA PushFacts ==
  ASSUME EngineTypeOK, NEW d \in Drains, drains' = Append(drains, d)
  PROVE  /\ drains' \in Seq(Drains) /\ Len(drains') = Len(drains) + 1
         /\ Len(drains) \in Nat /\ Len(drains) + 1 \notin DOMAIN drains
         /\ DOMAIN drains' = DOMAIN drains \cup {Len(drains) + 1}
         /\ drains'[Len(drains) + 1] = d
         /\ \A k \in DOMAIN drains : k \in Nat /\ k <= Len(drains) /\ drains'[k] = drains[k]
  BY AppendProperties DEF EngineTypeOK
-----------------------------------------------------------------------------
(* What the steps preserve.                                                *)

\* An engine nothing was submitted to satisfies the invariant.
LEMMA InitIInv == EngineInit => IInv
<1> SUFFICES ASSUME EngineInit PROVE IInv
  OBVIOUS
<1>1. /\ DOMAIN drains = {} /\ DOMAIN pending = {} /\ Elems(pending) = {}
      /\ Known = {} /\ HasRun = {}
  BY DEF EngineInit, Elems, Known, HasRun
<1>2. EngineTypeOK
  BY AsyncAssumption DEF EngineInit, EngineTypeOK, States
<1>3. Fresh /\ Apart /\ Ran /\ AllSettled /\ Outer
  BY <1>1 DEF EngineInit, Fresh, Apart, Ran, AllSettled, Outer, Once
<1>4. GivesUpOnlyBlocked
  BY DEF EngineInit, GivesUpOnlyBlocked, InLoop, Draining
<1> QED BY <1>2, <1>3, <1>4 DEF IInv

\* A step that leaves the lists alone, and settles futures by cancellation only.
LEMMA QuietPreserves ==
  ASSUME IInv, MayCall, UNCHANGED <<submitted, after, pending, drains>>, EngineTypeOK',
         \A f \in Futures : state'[f] # state[f] =>
             state[f] = "PENDING" /\ state'[f] = "CANCELLED"
  PROVE  IInv'
<1>1. Known' = Known /\ \A k \in DOMAIN drains : drains'[k] = drains[k]
  BY DEF Known
<1>2. HasRun' = HasRun
  BY DEF HasRun
<1>3. Fresh'
  BY <1>1 DEF IInv, Fresh
<1>4. Apart' /\ Ran' /\ Outer'
  BY <1>1, <1>2 DEF IInv, Apart, Ran, Outer
<1>5. \A f \in Futures : Settled(f) => Settled(f)'
  <2> SUFFICES ASSUME NEW f \in Futures, Settled(f), NEW d \in after[f]
               PROVE  state'[d] # "PENDING"
    BY DEF Settled
  <2>1. d \in Futures
    BY DEF IInv, EngineTypeOK
  <2> QED BY <2>1 DEF Settled
<1>6. \A k \in DOMAIN drains : drains[k].fut # None => drains[k].fut \in Futures
  <2>1. \A k \in DOMAIN drains : drains[k] \in Drains
    BY DEF IInv, EngineTypeOK
  <2> QED BY <2>1 DEF Drains
<1>7. AllSettled'
  <2>1. ASSUME NEW f \in HasRun PROVE Settled(f)'
    <3>1. f \in Futures /\ Settled(f)
      BY DEF IInv, AllSettled, HasRun
    <3> QED BY <1>5, <3>1
  <2>2. ASSUME NEW k \in DOMAIN drains, drains[k].fut # None
        PROVE  Settled(drains[k].fut)'
    <3>1. drains[k].fut \in Futures /\ Settled(drains[k].fut)
      BY <1>6, <2>2 DEF IInv, AllSettled
    <3>2. PICK f \in Futures : f = drains[k].fut
      BY <3>1
    <3> QED BY <1>1, <1>5, <3>1, <3>2 DEF Settled
  <2> QED BY <1>1, <1>2, <2>1, <2>2 DEF AllSettled, Settled
<1>8. GivesUpOnlyBlocked'
  BY DEF MayCall, GivesUpOnlyBlocked, InLoop, Draining, Top
<1> QED BY <1>3, <1>4, <1>7, <1>8 DEF IInv

\* A future that is submitted is nowhere but in the pending list.
LEMMA SubmitPreserves ==
  ASSUME IInv, MayCall, NEW deps \in SUBSET Known, Submit(deps)
  PROVE  IInv'
<1> DEFINE n == submitted + 1
<1>1. /\ n \in Futures /\ n \notin Known /\ Known' = Known \cup {n} /\ n # None
      /\ Known \subseteq Futures /\ submitted' \in 0..MaxFutures
  BY AsyncAssumption DEF Submit, Futures, Known, None, IInv, EngineTypeOK
<1>2. /\ state' = [state EXCEPT ![n] = "PENDING"] /\ after' = [after EXCEPT ![n] = deps]
      /\ pending' = Append(pending, n)
      /\ UNCHANGED <<added, drains, completions>>
  BY DEF Submit
<1> HIDE DEF n
<1>3. /\ state[n] = "NONE" /\ n \notin Elems(pending)
      /\ \A k \in DOMAIN drains : n \notin Held(drains[k]) /\ drains[k].fut # n
  BY <1>1 DEF IInv, Fresh
<1>4. /\ pending' \in Seq(Futures) /\ Elems(pending') = Elems(pending) \cup {n}
      /\ Once(pending')
  <2>1. pending \in Seq(Futures) /\ Once(pending)
    BY DEF IInv, EngineTypeOK, Apart
  <2> QED BY <1>1, <1>2, <1>3, <2>1, AppendElems, AppendProperties
<1>5. EngineTypeOK'
  BY <1>1, <1>2, <1>4 DEF IInv, EngineTypeOK, States
<1>6. /\ \A f \in Futures : f # n => state'[f] = state[f] /\ after'[f] = after[f]
      /\ state'[n] = "PENDING" /\ after'[n] = deps
      /\ \A f \in Futures : after[f] \subseteq Known
  BY <1>1, <1>2 DEF IInv, EngineTypeOK, Fresh
<1>7. HasRun' = HasRun /\ n \notin HasRun
  BY <1>3, <1>6 DEF HasRun
<1>8. Fresh'
  BY <1>1, <1>2, <1>4, <1>6 DEF IInv, Fresh
<1>9. Apart'
  BY <1>2, <1>3, <1>4 DEF IInv, Apart
<1>10. Ran' /\ Outer'
  BY <1>2, <1>4, <1>7 DEF IInv, Ran, Outer
<1>11. ASSUME NEW f \in Futures, f # n, Settled(f) PROVE Settled(f)'
  <2>1. after[f] \subseteq Futures /\ n \notin after[f]
    BY <1>1, <1>6
  <2> QED BY <1>6, <1>11, <2>1 DEF Settled
<1>12. AllSettled'
  <2>1. ASSUME NEW f \in HasRun PROVE Settled(f)'
    <3>1. f \in Futures /\ f # n /\ Settled(f)
      BY <1>7 DEF IInv, AllSettled, HasRun
    <3> QED BY <1>11, <3>1
  <2>2. ASSUME NEW k \in DOMAIN drains, drains[k].fut # None
        PROVE  \A d \in after'[drains[k].fut] : state'[d] # "PENDING"
    <3>1. drains[k].fut \in Known /\ Settled(drains[k].fut)
      BY <2>2 DEF IInv, Fresh, AllSettled
    <3>2. PICK f \in Futures : f = drains[k].fut /\ f # n
      BY <1>1, <3>1
    <3>3. Settled(f)'
      BY <1>11, <3>1, <3>2
    <3> QED BY <3>2, <3>3 DEF Settled
  <2> QED BY <1>2, <1>7, <2>1, <2>2 DEF AllSettled, Settled
<1>13. GivesUpOnlyBlocked'
  BY <1>2 DEF MayCall, GivesUpOnlyBlocked, InLoop, Draining, Top
<1> QED BY <1>5, <1>8, <1>9, <1>10, <1>12, <1>13 DEF IInv

\* A drain that begins moves the pending list into its frame.
LEMMA PushPreserves ==
  ASSUME IInv, MayCall, BeginDrain
  PROVE  IInv'
<1>1. PICK d : d = [remaining |-> pending, still |-> <<>>,
                    progress |-> FALSE, at |-> "next", fut |-> None]
  OBVIOUS
<1>2. /\ drains' = Append(drains, d) /\ pending' = <<>>
      /\ UNCHANGED <<submitted, state, after, added, completions>>
  BY <1>1 DEF BeginDrain
<1>3. d \in Drains /\ d.at = "next" /\ d.fut = None /\ d.still = <<>>
  BY <1>1 DEF Drains, IInv, EngineTypeOK
<1>4. Held(d) = Elems(pending) /\ Tidy(d) /\ None \notin Elems(pending)
  <2>1. None \notin Known
    BY DEF None, Known
  <2>2. Elems(d.remaining) = Elems(pending) /\ Elems(d.still) = {} /\ Once(d.still)
        /\ Once(d.remaining) /\ Elems(pending) \subseteq Known
    BY <1>1, NoElems DEF IInv, Apart, Fresh
  <2> QED BY <1>3, <2>1, <2>2 DEF Held, Tidy
<1> DEFINE n == Len(drains) + 1
<1>5. /\ drains' \in Seq(Drains) /\ Len(drains') = n /\ n \notin DOMAIN drains
      /\ DOMAIN drains' = DOMAIN drains \cup {n} /\ drains'[n] = d
      /\ \A k \in DOMAIN drains : drains'[k] = drains[k]
  BY <1>2, <1>3, PushFacts DEF IInv
<1>6. Elems(pending') = {} /\ Once(pending') /\ pending' \in Seq(Futures)
  BY <1>2, NoElems
<1>7. EngineTypeOK'
  BY <1>2, <1>5, <1>6 DEF IInv, EngineTypeOK
<1>8. Known' = Known /\ HasRun' = HasRun
  BY <1>2 DEF Known, HasRun
<1>9. Outer'
  <2>1. ASSUME NEW k \in DOMAIN drains PROVE drains[k].at # "next"
    <3>1. Draining /\ Top.at # "next"
      BY <2>1 DEF MayCall, Draining, IInv, EngineTypeOK
    <3> QED BY <3>1, TopFacts DEF IInv, Outer
  <2>2. ~ (n < n)
    BY DEF n, IInv, EngineTypeOK
  <2> QED BY <1>5, <2>1, <2>2 DEF Outer
<1> HIDE DEF n
<1>10. Fresh'
  BY <1>2, <1>3, <1>4, <1>5, <1>6, <1>8 DEF IInv, Fresh
<1>11. Apart'
  <2>1. ASSUME NEW k \in DOMAIN drains
        PROVE  /\ Tidy(drains'[k]) /\ Held(drains'[k]) \cap Held(d) = {}
               /\ drains'[k].fut \notin Held(d) /\ d.fut \notin Held(drains'[k])
    <3>1. None \notin Held(drains[k])
      BY DEF None, Known, IInv, Fresh
    <3> QED BY <1>3, <1>4, <1>5, <3>1 DEF IInv, Apart
  <2>2. ASSUME NEW k \in DOMAIN drains, NEW l \in DOMAIN drains, k # l
        PROVE  /\ Held(drains'[k]) \cap Held(drains'[l]) = {}
               /\ drains'[l].fut \notin Held(drains'[k])
    BY <1>5, <2>2 DEF IInv, Apart
  <2>3. ASSUME NEW k \in DOMAIN drains', NEW l \in DOMAIN drains', k # l
        PROVE  /\ Held(drains'[k]) \cap Held(drains'[l]) = {}
               /\ drains'[l].fut \notin Held(drains'[k])
    BY <1>5, <2>1, <2>2, <2>3
  <2>4. \A k \in DOMAIN drains' : Tidy(drains'[k])
    BY <1>4, <1>5, <2>1
  <2> QED BY <1>6, <2>3, <2>4 DEF Apart
<1>12. Ran'
  BY <1>4, <1>5, <1>6, <1>8 DEF IInv, Ran
<1>13. AllSettled'
  <2>1. \A f \in HasRun : Settled(f)'
    BY <1>2 DEF IInv, AllSettled, Settled
  <2>2. \A k \in DOMAIN drains' : drains'[k].fut # None =>
            k \in DOMAIN drains /\ drains'[k] = drains[k]
    BY <1>3, <1>5
  <2>3. \A k \in DOMAIN drains : drains[k].fut # None =>
            \A e \in after[drains[k].fut] : state[e] # "PENDING"
    BY DEF IInv, AllSettled, Settled
  <2>4. \A k \in DOMAIN drains' : drains'[k].fut # None =>
            \A e \in after'[drains'[k].fut] : state'[e] # "PENDING"
    BY <1>2, <2>2, <2>3
  <2> QED BY <1>8, <2>1, <2>4 DEF AllSettled, Settled
<1>14. GivesUpOnlyBlocked'
  <2>1. Top' = d
    BY <1>5 DEF Top
  <2> QED BY <1>3, <2>1, NoElems DEF GivesUpOnlyBlocked
<1> QED BY <1>7, <1>9, <1>10, <1>11, <1>12, <1>13, <1>14 DEF IInv

\* A drain that ends gives back part of what it held, or loses it.
LEMMA PopPreserves ==
  ASSUME IInv, Draining, PopTop, UNCHANGED <<submitted, state, after, added, completions>>,
         \/ pending' = pending
         \/ pending' = Top.still
  PROVE  IInv'
<1>1. /\ Top \in Drains /\ Top = drains[Len(drains)]
      /\ Len(drains) \in DOMAIN drains /\ Len(drains) \in Nat
      /\ \A k \in DOMAIN drains : k \in Nat /\ k <= Len(drains)
  BY TopFacts DEF IInv
<1>2. /\ drains' \in Seq(Drains) /\ Len(drains') = Len(drains) - 1
      /\ DOMAIN drains' = DOMAIN drains \ {Len(drains)}
      /\ \A k \in DOMAIN drains' : drains'[k] = drains[k]
  BY PopTopFacts DEF IInv
<1>3. Known' = Known /\ HasRun' = HasRun
  BY DEF Known, HasRun
<1>4. /\ pending' \in Seq(Futures) /\ Once(pending')
      /\ Elems(pending') \subseteq Elems(pending) \cup Held(Top)
  <2>1. Top.still \in Seq(Futures) /\ Once(Top.still)
    BY <1>1 DEF Drains, IInv, Apart, Tidy
  <2> QED BY <2>1 DEF Held, IInv, EngineTypeOK, Apart
<1>5. EngineTypeOK'
  BY <1>2, <1>4 DEF IInv, EngineTypeOK
<1>6. Fresh'
  <2>1. Elems(pending') \subseteq Known
    BY <1>1, <1>4 DEF IInv, Fresh
  <2> QED BY <1>2, <1>3, <2>1 DEF IInv, Fresh
<1>7. \A k \in DOMAIN drains' :
         /\ k \in DOMAIN drains /\ k # Len(drains)
         /\ Held(drains[k]) \cap Held(Top) = {} /\ drains[k].fut \notin Held(Top)
  BY <1>1, <1>2 DEF IInv, Apart
<1>8. Apart'
  BY <1>2, <1>4, <1>7 DEF IInv, Apart
<1>9. Ran'
  <2>1. HasRun \cap Held(Top) = {}
    BY <1>1 DEF IInv, Ran
  <2> QED BY <1>2, <1>3, <1>4, <2>1 DEF IInv, Ran
<1>10. AllSettled'
  BY <1>2, <1>3 DEF IInv, AllSettled, Settled
<1>11. \A k \in DOMAIN drains' : drains'[k].at # "next"
  <2>1. \A k \in DOMAIN drains' : k < Len(drains)
    BY <1>1, <1>7
  <2> QED BY <1>2, <2>1 DEF IInv, Outer
<1>12. Outer'
  BY <1>11 DEF Outer
<1>13. GivesUpOnlyBlocked'
  <2>1. Draining' => Top'.at # "next"
    <3>1. ASSUME Draining' PROVE Len(drains') \in DOMAIN drains'
      BY <1>2, <3>1 DEF Draining
    <3> QED BY <1>11, <3>1 DEF Top
  <2> QED BY <2>1 DEF GivesUpOnlyBlocked, InLoop
<1> QED BY <1>5, <1>6, <1>8, <1>9, <1>10, <1>12, <1>13 DEF IInv

\* A step of the innermost drain that keeps what it holds, or takes from it the
\* future it runs, and that resolves at most the future it runs.
LEMMA TopPreserves ==
  ASSUME IInv, Draining, UNCHANGED <<submitted, after, added, pending>>, EngineTypeOK',
         NEW d \in Drains, SetTop(d), Tidy(d), Held(d) \subseteq Held(Top),
         d.fut \in {None, Top.fut} \cup Held(Top),
         d.fut # None => Settled(d.fut),
         \A f \in Futures : state'[f] # state[f] =>
            f = Top.fut /\ state[f] = "PENDING" /\ state'[f] \in {"DONE", "FAILED"},
         (d.at = "next" /\ ~ d.progress) =>
            state' = state /\ \A f \in Elems(d.still) : Blocked(f)
  PROVE  IInv'
<1> DEFINE n == Len(drains)
<1>1. /\ Top \in Drains /\ Top = drains[n] /\ n \in DOMAIN drains /\ n \in Nat
      /\ \A k \in DOMAIN drains : drains[k] \in Drains
  BY TopFacts DEF IInv
<1>2. /\ Len(drains') = n /\ DOMAIN drains' = DOMAIN drains /\ drains'[n] = d
      /\ \A k \in DOMAIN drains : k # n => drains'[k] = drains[k]
  BY SetTopFacts DEF IInv
<1> HIDE DEF n
<1>3. Known' = Known /\ HasRun' \subseteq HasRun \cup {Top.fut}
      /\ HasRun \subseteq Futures /\ Known \subseteq Futures
  BY AsyncAssumption DEF Known, Futures, HasRun, IInv, EngineTypeOK
<1>4. \A f \in Futures : Settled(f) => Settled(f)'
  <2> SUFFICES ASSUME NEW f \in Futures, Settled(f), NEW e \in after[f]
               PROVE  state'[e] # "PENDING"
    BY DEF Settled
  <2>1. e \in Futures /\ state[e] # "PENDING"
    BY DEF IInv, EngineTypeOK, Settled
  <2> QED BY <2>1
<1>5. Top.fut \in Futures \cup {None} /\ d.fut \in Futures \cup {None}
  BY <1>1 DEF Drains
<1>6. Fresh'
  <2>1. \A f \in Futures : f \notin Known => state'[f] = state[f]
    BY DEF IInv, Fresh
  <2>2. Held(Top) \subseteq Known /\ Top.fut \in Known \cup {None}
    BY <1>1 DEF IInv, Fresh
  <2>3. ASSUME NEW k \in DOMAIN drains
        PROVE  Held(drains'[k]) \subseteq Known /\ drains'[k].fut \in Known \cup {None}
    BY <1>2, <2>2 DEF IInv, Fresh
  <2> QED BY <1>2, <1>3, <2>1, <2>3 DEF IInv, Fresh
<1>7. /\ None \notin Elems(pending) /\ None \notin Known
      /\ \A k \in DOMAIN drains : None \notin Held(drains[k])
  BY DEF None, Known, IInv, Fresh
<1>8. Apart'
  <2>1. /\ Held(d) \cap Elems(pending) = {} /\ d.fut \notin Elems(pending)
    BY <1>1, <1>7 DEF IInv, Apart
  <2>2. ASSUME NEW k \in DOMAIN drains, k # n
        PROVE  /\ Held(drains[k]) \cap Held(d) = {} /\ drains[k].fut \notin Held(d)
               /\ d.fut \notin Held(drains[k])
    <3>1. /\ Held(drains[k]) \cap Held(Top) = {} /\ drains[k].fut \notin Held(Top)
          /\ Top.fut \notin Held(drains[k])
      BY <1>1, <2>2 DEF IInv, Apart
    <3> QED BY <1>7, <3>1
  <2>3. ASSUME NEW k \in DOMAIN drains
        PROVE  /\ Tidy(drains'[k])
               /\ Held(drains'[k]) \cap Elems(pending) = {}
               /\ drains'[k].fut \notin Elems(pending)
               /\ \A l \in DOMAIN drains : k # l =>
                     /\ Held(drains'[k]) \cap Held(drains'[l]) = {}
                     /\ drains'[l].fut \notin Held(drains'[k])
    BY <1>2, <2>1, <2>2 DEF IInv, Apart
  <2> QED BY <1>2, <2>3 DEF IInv, Apart
<1>9. Ran'
  <2>1. /\ Top.fut \notin Elems(pending)
        /\ \A k \in DOMAIN drains : Top.fut \notin Held(drains[k])
    BY <1>1 DEF IInv, Apart, Tidy
  <2>2. \A k \in DOMAIN drains : \E l \in DOMAIN drains :
            Held(drains'[k]) \subseteq Held(drains[l])
    BY <1>1, <1>2
  <2>3. \A k \in DOMAIN drains : HasRun' \cap Held(drains[k]) = {}
    BY <1>3, <2>1 DEF IInv, Ran
  <2>4. HasRun' \cap Elems(pending) = {}
    BY <1>3, <2>1 DEF IInv, Ran
  <2>5. \A k \in DOMAIN drains : HasRun' \cap Held(drains'[k]) = {}
    BY <2>2, <2>3
  <2> QED BY <1>2, <2>4, <2>5 DEF Ran
<1>10. AllSettled'
  <2>1. ASSUME NEW k \in DOMAIN drains, drains'[k].fut # None
        PROVE  /\ drains'[k].fut \in Futures
               /\ \A e \in after[drains'[k].fut] : state'[e] # "PENDING"
    <3>1. drains'[k].fut \in Futures /\ Settled(drains'[k].fut)
      <4>1. CASE k = n
        BY <1>2, <1>5, <2>1, <4>1
      <4>2. CASE k # n
        BY <1>1, <1>2, <2>1, <4>2 DEF Drains, IInv, AllSettled
      <4> QED BY <4>1, <4>2
    <3>2. PICK f \in Futures : f = drains'[k].fut /\ Settled(f)
      BY <3>1
    <3>3. Settled(f)'
      BY <1>4, <3>2
    <3> QED BY <3>2, <3>3 DEF Settled
  <2>2. ASSUME NEW f \in HasRun' PROVE \A e \in after[f] : state'[e] # "PENDING"
    <3>1. f \in Futures /\ Settled(f)
      BY <1>1, <1>3, <2>2 DEF IInv, AllSettled, HasRun, None, Futures
    <3> QED BY <1>4, <3>1 DEF Settled
  <2> QED BY <1>2, <2>1, <2>2 DEF AllSettled, Settled
<1>11. Outer'
  BY <1>1, <1>2 DEF IInv, Outer, n
<1>12. GivesUpOnlyBlocked'
  <2>1. Top' = d /\ (InLoop' => d.at = "next")
    BY <1>2 DEF Top, InLoop
  <2>2. state' = state => \A f : Blocked(f) => Blocked(f)'
    BY <1>3 DEF Blocked
  <2> QED BY <2>1, <2>2 DEF GivesUpOnlyBlocked
<1> QED BY <1>6, <1>8, <1>9, <1>10, <1>11, <1>12 DEF IInv

\* The steps of the loop, and the end of foreign code, are such steps.
LEMMA AdvancePreserves ==
  ASSUME IInv, RunEngine
  PROVE  IInv'
<1> DEFINE f == Head(Top.remaining)
<1>1. ASSUME Draining
      PROVE  /\ Top \in Drains /\ Top.remaining \in Seq(Futures) /\ Top.still \in Seq(Futures)
             /\ Tidy(Top)
             /\ Top.fut # None => Settled(Top.fut)
  BY <1>1, TopFacts DEF Drains, IInv, Apart, AllSettled
<1>2. ASSUME NEW d \in Drains, Draining, SetTop(d), completions' \in Seq(Futures),
             state' \in [Futures -> States], UNCHANGED <<submitted, after, added, pending>>
      PROVE  EngineTypeOK'
  BY <1>2, SetTopFacts DEF IInv, EngineTypeOK
<1>3. ASSUME Draining, Top.remaining # <<>>
      PROVE  /\ f \in Futures /\ Tail(Top.remaining) \in Seq(Futures)
             /\ f \in Elems(Top.remaining) /\ f \notin Elems(Tail(Top.remaining))
             /\ Elems(Top.remaining) = Elems(Tail(Top.remaining)) \cup {f}
             /\ Once(Tail(Top.remaining)) /\ f \notin Elems(Top.still) /\ f # None
  <2>1. Top.remaining \in Seq(Futures) /\ Tidy(Top)
    BY <1>1, <1>3
  <2>2. f \in Futures /\ Tail(Top.remaining) \in Seq(Futures)
    BY <1>3, <2>1, HeadTailProperties
  <2>3. /\ f \in Elems(Top.remaining) /\ Elems(Top.remaining) = Elems(Tail(Top.remaining)) \cup {f}
        /\ Once(Top.remaining) => Once(Tail(Top.remaining)) /\ f \notin Elems(Tail(Top.remaining))
    BY <1>3, <2>1, TailElems
  <2>4. f # None
    BY <2>2 DEF Futures, None
  <2> HIDE DEF f
  <2> QED BY <2>1, <2>2, <2>3, <2>4 DEF Tidy
<1>s. state \in [Futures -> States] /\ completions \in Seq(Futures)
  BY DEF IInv, EngineTypeOK
<1>4. CASE PutOff
  <2>1. Draining /\ Top.at = "next" /\ Top.remaining # <<>> /\ Blocked(f)
        /\ UNCHANGED <<submitted, state, after, added, pending, completions>>
    BY <1>4 DEF PutOff, InLoop
  <2>2. PICK d : d = [Top EXCEPT !.remaining = Tail(@), !.still = Append(@, f)]
    OBVIOUS
  <2>3. /\ d.remaining = Tail(Top.remaining) /\ d.still = Append(Top.still, f)
        /\ d.at = Top.at /\ d.fut = Top.fut /\ d.progress = Top.progress
    BY <1>1, <2>1, <2>2 DEF Drains
  <2>4. /\ Elems(d.still) = Elems(Top.still) \cup {f} /\ Once(d.still)
        /\ d.still \in Seq(Futures)
    BY <1>1, <1>3, <2>1, <2>3, AppendElems, AppendProperties DEF Tidy
  <2>5. d \in Drains /\ SetTop(d)
    BY <1>1, <1>3, <1>4, <2>1, <2>2, <2>4, <2>3 DEF Drains, PutOff
  <2>6. Held(d) = Held(Top) /\ Tidy(d)
    BY <1>1, <1>3, <2>1, <2>3, <2>4 DEF Held, Tidy
  <2>7. ~ d.progress => \A g \in Elems(d.still) : Blocked(g)
    BY <2>1, <2>3, <2>4 DEF IInv, GivesUpOnlyBlocked, InLoop
  <2>8. EngineTypeOK'
    BY <1>2, <1>s, <2>1, <2>5
  <2> HIDE DEF f
  <2> QED BY <1>1, <2>1, <2>3, <2>5, <2>6, <2>7, <2>8, TopPreserves
<1>5. CASE RunThunk
  <2>1. Draining /\ Top.at = "next" /\ Top.remaining # <<>> /\ ~ Blocked(f)
        /\ UNCHANGED <<submitted, state, after, added, pending, completions>>
    BY <1>5 DEF RunThunk, InLoop
  <2>2. PICK d : d = [Top EXCEPT !.remaining = Tail(@), !.at = "thunk", !.fut = f]
    OBVIOUS
  <2>3. /\ d.remaining = Tail(Top.remaining) /\ d.still = Top.still
        /\ d.at = "thunk" /\ d.fut = f
    BY <1>1, <2>1, <2>2 DEF Drains
  <2>4. d \in Drains /\ SetTop(d)
    BY <1>1, <1>3, <1>5, <2>1, <2>2, <2>3 DEF Drains, RunThunk
  <2>5. Held(d) \subseteq Held(Top) /\ f \in Held(Top) /\ Tidy(d)
    BY <1>1, <1>3, <2>1, <2>3 DEF Held, Tidy
  <2>6. Settled(f)
    <3>1. after[f] \subseteq Known
      BY <1>3, <2>1 DEF IInv, Fresh
    <3> QED BY <2>1, <3>1 DEF Settled, Blocked
  <2>7. EngineTypeOK'
    BY <1>2, <1>s, <2>1, <2>4
  <2> HIDE DEF f
  <2> QED BY <1>1, <2>1, <2>3, <2>4, <2>5, <2>6, <2>7, TopPreserves
<1>6. CASE Resolve
  <2>1. PICK outcome \in {"DONE", "FAILED"} : state' = [state EXCEPT ![Top.fut] = outcome]
    BY <1>6 DEF Resolve
  <2>2. /\ Draining /\ Top.at = "thunk" /\ state[Top.fut] = "PENDING"
        /\ UNCHANGED <<submitted, after, added, pending, completions>>
    BY <1>6 DEF Resolve
  <2>3. PICK d : d = [Top EXCEPT !.at = "callbacks"]
    OBVIOUS
  <2>4. /\ d.remaining = Top.remaining /\ d.still = Top.still
        /\ d.at = "callbacks" /\ d.fut = Top.fut /\ d \in Drains /\ SetTop(d)
    BY <1>1, <1>6, <2>2, <2>3 DEF Drains, Resolve
  <2>5. Held(d) = Held(Top) /\ Tidy(d)
    BY <1>1, <2>2, <2>4 DEF Held, Tidy
  <2>6. state' \in [Futures -> States] /\ \A g \in Futures : g # Top.fut => state'[g] = state[g]
    BY <1>s, <2>1 DEF States, Done
  <2>7. Top.fut \in Futures
    BY <1>1, <2>2 DEF Tidy, Drains
  <2>8. EngineTypeOK'
    BY <1>2, <1>s, <2>2, <2>4, <2>6
  <2>9. \A g \in Futures : state'[g] # state[g] =>
            g = Top.fut /\ state[g] = "PENDING" /\ state'[g] \in {"DONE", "FAILED"}
    BY <1>s, <2>1, <2>2, <2>6, <2>7
  <2> QED BY <1>1, <2>2, <2>4, <2>5, <2>8, <2>9, TopPreserves
<1>7. CASE Complete
  <2>1. /\ Draining /\ Top.at = "callbacks" /\ completions' = Append(completions, Top.fut)
        /\ UNCHANGED <<submitted, state, after, added, pending>>
    BY <1>7 DEF Complete
  <2>2. PICK d : d = [Top EXCEPT !.at = "next", !.fut = None, !.progress = TRUE]
    OBVIOUS
  <2>3. /\ d.remaining = Top.remaining /\ d.still = Top.still
        /\ d.at = "next" /\ d.fut = None /\ d.progress /\ d \in Drains /\ SetTop(d)
    BY <1>1, <1>7, <2>1, <2>2 DEF Drains, Complete
  <2>4. None \notin Held(Top)
    BY <1>1, <2>1, TopFacts DEF None, Known, IInv, Fresh
  <2>5. Held(d) = Held(Top) /\ Tidy(d)
    BY <1>1, <2>1, <2>3, <2>4 DEF Held, Tidy
  <2>6. Top.fut \in Futures
    BY <1>1, <2>1 DEF Tidy, Drains
  <2>7. EngineTypeOK'
    BY <1>2, <1>s, <2>1, <2>3, <2>6, AppendProperties
  <2> QED BY <2>1, <2>3, <2>5, <2>7, TopPreserves
<1>8. CASE NextPass
  <2>1. /\ Draining /\ Top.at = "next" /\ Top.remaining = <<>>
        /\ UNCHANGED <<submitted, state, after, added, pending, completions>>
    BY <1>8 DEF NextPass, InLoop
  <2>2. PICK d : d = [Top EXCEPT !.remaining = Top.still, !.still = <<>>, !.progress = FALSE]
    OBVIOUS
  <2>3. /\ d.remaining = Top.still /\ d.still = <<>> /\ d.at = "next" /\ d.fut = Top.fut
        /\ d \in Drains /\ SetTop(d)
    BY <1>1, <1>8, <2>1, <2>2 DEF Drains, NextPass
  <2>4. Held(d) = Held(Top) /\ Tidy(d)
    BY <1>1, <2>1, <2>3, NoElems DEF Held, Tidy
  <2>5. Elems(d.still) = {}
    BY <2>3, NoElems
  <2>6. EngineTypeOK'
    BY <1>2, <1>s, <2>1, <2>3
  <2> QED BY <1>1, <2>1, <2>3, <2>4, <2>5, <2>6, TopPreserves
<1>9. CASE Escape \/ EndDrain
  <2>1. /\ Draining /\ PopTop /\ UNCHANGED <<submitted, state, after, added, completions>>
        /\ (pending' = pending \/ pending' = Top.still)
    BY <1>9 DEF Escape, EndDrain, InLoop
  <2> QED BY <2>1, PopPreserves
<1> QED BY <1>4, <1>5, <1>6, <1>7, <1>8, <1>9 DEF RunEngine, ForeignEnds

\* Every step preserves the invariant.
LEMMA NextIInv == IInv /\ [EngineNext]_engineVars => IInv'
<1> SUFFICES ASSUME IInv, [EngineNext]_engineVars PROVE IInv'
  OBVIOUS
<1>1. Known \subseteq Futures
  BY AsyncAssumption DEF Known, Futures, IInv, EngineTypeOK
<1>2. ASSUME NEW f \in Known, MayCall, CancelFuture(f) PROVE IInv'
  <2>1. f \in Futures /\ state[f] = "PENDING" /\ state' = [state EXCEPT ![f] = "CANCELLED"]
        /\ UNCHANGED <<submitted, after, added, pending, drains, completions>>
    BY <1>1, <1>2 DEF CancelFuture
  <2>2. EngineTypeOK'
    BY <2>1 DEF IInv, EngineTypeOK, States, Done
  <2>3. \A g \in Futures : state'[g] # state[g] =>
            state[g] = "PENDING" /\ state'[g] = "CANCELLED"
    BY <2>1 DEF IInv, EngineTypeOK
  <2> QED BY <1>2, <2>1, <2>2, <2>3, QuietPreserves
<1>3. ASSUME NEW a \in Known, NEW b \in Known, MayCall, AddHappensBefore(a, b) PROVE IInv'
  <2>1. EngineTypeOK' /\ UNCHANGED <<submitted, state, after, pending, drains>>
    BY <1>1, <1>3 DEF AddHappensBefore, IInv, EngineTypeOK
  <2> QED BY <1>3, <2>1, QuietPreserves
<1>4. ASSUME MayCall, PopCompletion PROVE IInv'
  <2>1. completions' \in Seq(Futures)
    BY <1>4, HeadTailProperties DEF PopCompletion, IInv, EngineTypeOK
  <2>2. EngineTypeOK' /\ UNCHANGED <<submitted, state, after, pending, drains>>
    BY <1>4, <2>1 DEF PopCompletion, IInv, EngineTypeOK
  <2> QED BY <1>4, <2>2, QuietPreserves
<1>5. CASE UNCHANGED engineVars
  BY <1>5 DEF engineVars, IInv, EngineTypeOK, Fresh, Apart, Ran, HasRun, AllSettled, Settled, Outer,
              GivesUpOnlyBlocked, InLoop, Draining, Top, Blocked, Known
<1> QED BY <1>2, <1>3, <1>4, <1>5, SubmitPreserves, PushPreserves, AdvancePreserves
        DEF EngineNext, CallEngine
-----------------------------------------------------------------------------
(* The theorems.                                                           *)

\* Futures, lists and frames stay well typed.
THEOREM EngineTypes == EngineSpec => []EngineTypeOK
<1>1. IInv => EngineTypeOK
  BY DEF IInv
<1> QED BY <1>1, InitIInv, NextIInv, PTL DEF EngineSpec

\* In terms of lists: what is pending, waiting or running is so once, and has
\* not been run.
LEMMA IInvRunOnce == IInv => RunOnce
<1> SUFFICES ASSUME IInv PROVE RunOnce
  OBVIOUS
<1>1. ASSUME NEW k \in DOMAIN drains
      PROVE  /\ Elems(Waiting(k)) = Held(drains[k])
             /\ \A i, j \in DOMAIN Waiting(k) : Waiting(k)[i] = Waiting(k)[j] => i = j
  <2>1. drains[k] \in Drains /\ Tidy(drains[k])
    BY DEF IInv, EngineTypeOK, Apart
  <2>2. drains[k].remaining \in Seq(Futures) /\ drains[k].still \in Seq(Futures)
    BY <2>1 DEF Drains
  <2>3. Once(Waiting(k)) /\ Elems(Waiting(k)) = Held(drains[k])
    BY <2>1, <2>2, ConcatElems DEF Tidy, Held, Waiting
  <2> QED BY <2>3 DEF Once
<1>2. \A i, j \in DOMAIN pending : pending[i] = pending[j] => i = j
  BY DEF IInv, Apart, Once
<1>3. ASSUME NEW k \in DOMAIN drains
      PROVE  /\ Elems(Waiting(k)) \cap Elems(pending) = {}
             /\ drains[k].fut \notin Elems(pending)
             /\ \A l \in DOMAIN drains :
                   /\ k # l => Elems(Waiting(k)) \cap Elems(Waiting(l)) = {}
                   /\ drains[l].fut \notin Elems(Waiting(k))
  BY <1>1 DEF IInv, Apart, Tidy
<1>4. ASSUME NEW f \in Futures, state[f] \in {"DONE", "FAILED"}
      PROVE  /\ f \notin Elems(pending)
             /\ \A k \in DOMAIN drains : f \notin Elems(Waiting(k))
  BY <1>1, <1>4 DEF IInv, Ran, HasRun
<1> QED BY <1>1, <1>2, <1>3, <1>4 DEF RunOnce

\* However drains and submissions nest, a thunk is run once.
THEOREM ThunksRunOnce == EngineSpec => []RunOnce
  BY InitIInv, NextIInv, IInvRunOnce, PTL DEF EngineSpec

\* A future that has run had everything it was submitted after settled.
THEOREM RunsAreCausal == EngineSpec => []Causal
<1>1. IInv => Causal
  BY DEF IInv, AllSettled, Settled, HasRun, Causal
<1> QED BY <1>1, InitIInv, NextIInv, PTL DEF EngineSpec

\* A drain that gives up gives back only futures that wait for somebody.
THEOREM DrainsGiveUpOnlyBlocked == EngineSpec => []GivesUpOnlyBlocked
<1>1. IInv => GivesUpOnlyBlocked
  BY DEF IInv
<1> QED BY <1>1, InitIInv, NextIInv, PTL DEF EngineSpec

\* No step changes a future that is done, failed or cancelled.
LEMMA ResolvedStep ==
  IInv /\ [EngineNext]_engineVars => \A f \in Futures : state[f] \in Done => state'[f] = state[f]
<1> SUFFICES ASSUME IInv, [EngineNext]_engineVars, NEW f \in Futures, state[f] \in Done
             PROVE  state'[f] = state[f]
  OBVIOUS
<1>1. state[f] # "PENDING" /\ state[f] # "NONE" /\ state \in [Futures -> States]
  BY DEF Done, IInv, EngineTypeOK
<1>2. ASSUME NEW deps \in SUBSET Known, Submit(deps) PROVE state'[f] = state[f]
  <2>1. submitted + 1 \in Futures /\ submitted + 1 \notin Known
    BY <1>2, AsyncAssumption DEF Submit, Futures, Known, IInv, EngineTypeOK
  <2>2. f # submitted + 1
    BY <1>1, <2>1 DEF IInv, Fresh
  <2> QED BY <1>1, <1>2, <2>2 DEF Submit
<1>3. ASSUME NEW g \in Known, CancelFuture(g) PROVE state'[f] = state[f]
  BY <1>1, <1>3 DEF CancelFuture
<1>4. ASSUME Resolve PROVE state'[f] = state[f]
  BY <1>1, <1>4 DEF Resolve
<1>5. CASE UNCHANGED engineVars
  BY <1>5 DEF engineVars
<1> QED BY <1>2, <1>3, <1>4, <1>5
        DEF EngineNext, CallEngine, RunEngine, ForeignEnds, AddHappensBefore, PopCompletion, BeginDrain,
            PutOff, RunThunk, Complete, Escape, NextPass, EndDrain

\* A resolved or cancelled future stays as it is.
THEOREM ResolutionsAreFinal == EngineSpec => ResolvedStays
<1>1. IInv /\ [EngineNext]_engineVars =>
        [\A f \in Futures : state[f] \in Done => state'[f] = state[f]]_engineVars
  BY ResolvedStep
<1> QED BY <1>1, InitIInv, NextIInv, PTL DEF EngineSpec, ResolvedStays

-----------------------------------------------------------------------------
(* At most one key of a table of records holds a state that has not moved   *)
(* on, and the states that some key holds live.                             *)
LinearIn(r) ==
    \A k, l \in ObjectKeys :
        /\ r[k].state \notin {"NONE", "MOVED"} /\ r[l].state \notin {"NONE", "MOVED"}
        /\ r[k].lineage = r[l].lineage
        => k = l
LiveIn(r) == {r[k].lineage : k \in {l \in ObjectKeys : r[l].state = "LIVE"}}
Tables == [ObjectKeys -> OwnershipRecords \cup {NoRecord}]
MintedIn(r, n) == \A k \in ObjectKeys : r[k].lineage <= n

Minted(r, k, n, node) ==
    [r EXCEPT ![k] = [lineage |-> n + 1, state |-> "LIVE", node |-> node]]

OwnInv ==
    /\ OwnershipTypeOK
    /\ LinearIn(own)
    /\ MintedIn(own, lineages)

(* A move takes the lineage of a live state with it, so that no other key   *)
(* can hold it afterwards.                                                  *)
LEMMA MovesAreLinear ==
    ASSUME NEW r \in Tables, LinearIn(r), NEW n \in Nat, MintedIn(r, n),
           NEW from \in ObjectKeys, NEW to \in ObjectKeys, NEW node \in Cells,
           r[from].state = "LIVE", NEW m, m = Moved(r, from, to, node)
    PROVE  /\ m \in Tables /\ LinearIn(m) /\ MintedIn(m, n)
           /\ LiveIn(m) \subseteq LiveIn(r)
           /\ m[to].state = "LIVE"
           /\ \A k \in ObjectKeys \ {from, to} : m[k] = r[k]
<1>1. r[from] \in OwnershipRecords
  BY DEF Tables, NoRecord
<1>2. /\ m[to] = [lineage |-> r[from].lineage, state |-> "LIVE", node |-> node]
      /\ from # to => m[from] = [r[from] EXCEPT !.state = "MOVED"]
      /\ \A k \in ObjectKeys \ {from, to} : m[k] = r[k]
      /\ DOMAIN m = ObjectKeys /\ m = [k \in ObjectKeys |-> m[k]]
  BY DEF Moved, Tables
<1>3. m[to] \in OwnershipRecords /\ [r[from] EXCEPT !.state = "MOVED"] \in OwnershipRecords
  BY <1>1, <1>2 DEF OwnershipRecords
<1>4. m \in Tables
  BY <1>2, <1>3 DEF Tables
<1>5. \A k \in ObjectKeys : k # to => m[k].lineage = r[k].lineage
  BY <1>1, <1>2 DEF OwnershipRecords
<1>6. MintedIn(m, n)
  <2> SUFFICES ASSUME NEW k \in ObjectKeys
               PROVE  m[k].lineage <= n
    BY DEF MintedIn
  <2>1. CASE k = to
    <3>1. m[k].lineage = r[from].lineage
      BY <2>1, <1>2
    <3> QED BY <3>1 DEF MintedIn
  <2>2. CASE k # to
    BY <2>2, <1>5 DEF MintedIn
  <2> QED BY <2>1, <2>2
<1>7. \A k \in ObjectKeys : k # to /\ m[k].state \notin {"NONE", "MOVED"} =>
          k # from /\ r[k].state = m[k].state
  BY <1>1, <1>2 DEF OwnershipRecords
<1>8. LinearIn(m)
  <2> SUFFICES ASSUME NEW k \in ObjectKeys, NEW l \in ObjectKeys,
                      m[k].state \notin {"NONE", "MOVED"},
                      m[l].state \notin {"NONE", "MOVED"},
                      m[k].lineage = m[l].lineage, k # l
               PROVE  FALSE
    BY DEF LinearIn
  <2>1. CASE k = to
    BY <2>1, <1>2, <1>5, <1>7 DEF LinearIn
  <2>2. CASE l = to
    BY <2>2, <1>2, <1>5, <1>7 DEF LinearIn
  <2>3. CASE k # to /\ l # to
    BY <2>3, <1>5, <1>7 DEF LinearIn
  <2> QED BY <2>1, <2>2, <2>3
<1>9. LiveIn(m) \subseteq LiveIn(r)
  <2> SUFFICES ASSUME NEW k \in ObjectKeys, m[k].state = "LIVE"
               PROVE  m[k].lineage \in LiveIn(r)
    BY DEF LiveIn
  <2>1. CASE k = to
    BY <2>1, <1>2 DEF LiveIn
  <2>2. CASE k # to
    BY <2>2, <1>5, <1>7 DEF LiveIn
  <2> QED BY <2>1, <2>2
<1>10. m[to].state = "LIVE"
  BY <1>2
<1> QED BY <1>2, <1>4, <1>6, <1>8, <1>9, <1>10

(* A key that ends its state, measured or released, leaves the others.      *)
LEMMA EndsAreLinear ==
    ASSUME NEW r \in Tables, LinearIn(r), NEW n \in Nat, MintedIn(r, n),
           NEW k \in ObjectKeys, r[k].state = "LIVE",
           NEW s \in {"MEASURED", "RELEASED"}, NEW m, m = [r EXCEPT ![k].state = s]
    PROVE  /\ m \in Tables /\ LinearIn(m) /\ MintedIn(m, n)
           /\ LiveIn(m) \subseteq LiveIn(r)
<1>1. r[k] \in OwnershipRecords
  BY DEF Tables, NoRecord
<1>2. /\ m[k] = [r[k] EXCEPT !.state = s]
      /\ \A l \in ObjectKeys \ {k} : m[l] = r[l]
      /\ m = [l \in ObjectKeys |-> m[l]]
  BY DEF Tables
<1>3. [r[k] EXCEPT !.state = s] \in OwnershipRecords
  BY <1>1 DEF OwnershipRecords
<1>4. m \in Tables
  BY <1>2, <1>3 DEF Tables
<1>5. \A l \in ObjectKeys : m[l].lineage = r[l].lineage
  BY <1>1, <1>2 DEF OwnershipRecords
<1>6. /\ m[k].state = s
      /\ \A l \in ObjectKeys : l # k => m[l].state = r[l].state
  BY <1>1, <1>2 DEF OwnershipRecords
<1>7. LinearIn(m)
  BY <1>5, <1>6 DEF LinearIn
<1>8. MintedIn(m, n)
  BY <1>5 DEF MintedIn
<1>9. LiveIn(m) \subseteq LiveIn(r)
  <2> SUFFICES ASSUME NEW l \in ObjectKeys, m[l].state = "LIVE"
               PROVE  m[l].lineage \in LiveIn(r)
    BY DEF LiveIn
  <2>1. l # k
    BY <1>6
  <2> QED BY <2>1, <1>5, <1>6 DEF LiveIn
<1> QED BY <1>4, <1>7, <1>8, <1>9

(* A key that is prepared holds a state no key has held.                    *)
LEMMA MintsAreLinear ==
    ASSUME NEW r \in Tables, LinearIn(r), NEW n \in Nat, MintedIn(r, n),
           NEW k \in ObjectKeys, NEW node \in Cells, NEW m,
           m = Minted(r, k, n, node)
    PROVE  /\ m \in Tables /\ LinearIn(m) /\ MintedIn(m, n + 1)
           /\ LiveIn(m) \subseteq LiveIn(r) \cup {n + 1}
<1> DEFINE new == [lineage |-> n + 1, state |-> "LIVE", node |-> node]
<1>1. /\ m[k] = new
      /\ \A l \in ObjectKeys \ {k} : m[l] = r[l]
      /\ m = [l \in ObjectKeys |-> m[l]]
  BY DEF Tables, Minted
<1>2. new \in OwnershipRecords
  BY DEF OwnershipRecords
<1>3. new.lineage = n + 1 /\ new.state = "LIVE"
  OBVIOUS
<1> HIDE DEF new
<1>4. m \in Tables
  BY <1>1, <1>2 DEF Tables
<1>5. \A l \in ObjectKeys : r[l].lineage \in Nat
  BY DEF Tables, OwnershipRecords, NoRecord
<1>6. MintedIn(m, n + 1)
  BY <1>1, <1>3, <1>5 DEF MintedIn
<1>7. LinearIn(m)
  <2> SUFFICES ASSUME NEW i \in ObjectKeys, NEW j \in ObjectKeys,
                      m[i].state \notin {"NONE", "MOVED"},
                      m[j].state \notin {"NONE", "MOVED"},
                      m[i].lineage = m[j].lineage, i # j
               PROVE  FALSE
    BY DEF LinearIn
  <2>1. CASE i = k
    BY <2>1, <1>1, <1>3, <1>5 DEF MintedIn
  <2>2. CASE j = k
    BY <2>2, <1>1, <1>3, <1>5 DEF MintedIn
  <2>3. CASE i # k /\ j # k
    BY <2>3, <1>1 DEF LinearIn
  <2> QED BY <2>1, <2>2, <2>3
<1>8. LiveIn(m) \subseteq LiveIn(r) \cup {n + 1}
  <2> SUFFICES ASSUME NEW l \in ObjectKeys, m[l].state = "LIVE"
               PROVE  m[l].lineage \in LiveIn(r) \cup {n + 1}
    BY DEF LiveIn
  <2>1. CASE l = k
    BY <2>1, <1>1, <1>3
  <2>2. CASE l # k
    BY <2>2, <1>1 DEF LiveIn
  <2> QED BY <2>1, <2>2
<1> QED BY <1>4, <1>6, <1>7, <1>8

(* What a row of the program leaves of the table of records.                *)
KeptByRow ==
    /\ own' \in Tables /\ lineages' \in Nat
    /\ LinearIn(own') /\ MintedIn(own', lineages')
    /\ LiveIn(own') \subseteq LiveIn(own) \cup {lineages + 1}

\* Each row of a program keeps the table: a mint, ...
LEMMA MintKeeps ==
    ASSUME OwnInv, NEW k \in ObjectKeys, NEW node \in Cells, Mint(k, node)
    PROVE  KeptByRow
<1>1. own \in Tables /\ lineages \in Nat /\ LinearIn(own) /\ MintedIn(own, lineages)
  BY DEF OwnInv, OwnershipTypeOK, Tables
<1>2. own' = Minted(own, k, lineages, node) /\ lineages' = lineages + 1
  BY DEF Mint, New, Minted
<1>3. /\ own' \in Tables /\ LinearIn(own') /\ MintedIn(own', lineages + 1)
      /\ LiveIn(own') \subseteq LiveIn(own) \cup {lineages + 1}
  BY <1>1, <1>2, MintsAreLinear
<1> QED BY <1>1, <1>2, <1>3 DEF KeptByRow

\* ... a teleport, ...
LEMMA TeleportKeeps ==
    ASSUME OwnInv, NEW from \in Slices, NEW to \in Slices, NEW node \in Cells,
           TeleportRow(from, to, node)
    PROVE  KeptByRow
<1> DEFINE touched == {from[i] : i \in DOMAIN from} \cup {to[i] : i \in DOMAIN to}
           first == Moved(own, from[1], to[1], node)
           both == Len(from) = 2 /\ Len(to) = 2
<1>1. own \in Tables /\ lineages \in Nat /\ LinearIn(own) /\ MintedIn(own, lineages)
  BY DEF OwnInv, OwnershipTypeOK, Tables
<1>2. CASE Reject
  BY <1>1, <1>2 DEF Reject, KeptByRow
<1>3. CASE /\ Usable(touched, node, TRUE) /\ \A i \in DOMAIN from : HasRecord(from[i])
           /\ own' = IF both THEN Moved(first, from[2], to[2], node) ELSE first
           /\ UNCHANGED <<bits, lineages, rejected>>
  <2>1. /\ from[1] \in ObjectKeys /\ to[1] \in ObjectKeys
        /\ 1 \in DOMAIN from /\ 1 \in DOMAIN to
    BY OwnershipAssumption
  <2>2. both => /\ from[2] \in ObjectKeys /\ to[2] \in ObjectKeys
                /\ 2 \in DOMAIN from /\ from[1] # from[2]
    BY OwnershipAssumption
  <2>3. \A i \in DOMAIN from : own[from[i]].state = "LIVE"
    BY <1>3 DEF Usable
  <2>4. /\ first \in Tables /\ LinearIn(first) /\ MintedIn(first, lineages)
        /\ LiveIn(first) \subseteq LiveIn(own)
        /\ first[to[1]].state = "LIVE"
        /\ \A k \in ObjectKeys \ {from[1], to[1]} : first[k] = own[k]
    BY <1>1, <2>1, <2>3, MovesAreLinear
  <2> HIDE DEF first
  <2>5. CASE ~ both
    BY <2>4, <2>5, <1>1, <1>3 DEF KeptByRow
  <2>6. CASE both
    <3>1. first[from[2]].state = "LIVE"
      BY <2>2, <2>3, <2>4, <2>6
    <3> DEFINE second == Moved(first, from[2], to[2], node)
    <3>2. /\ second \in Tables /\ LinearIn(second) /\ MintedIn(second, lineages)
          /\ LiveIn(second) \subseteq LiveIn(first)
      BY <3>1, <2>2, <2>4, <2>6, <1>1, MovesAreLinear
    <3>3. own' = second
      BY <1>3, <2>6
    <3> HIDE DEF second
    <3> QED BY <3>2, <3>3, <2>4, <1>1, <1>3 DEF KeptByRow
  <2> QED BY <2>5, <2>6
<1> QED BY <1>2, <1>3 DEF TeleportRow

\* ... and every other row.
LEMMA RowsKeep ==
    ASSUME OwnInv, OwnershipNext
    PROVE  KeptByRow
<1>1. own \in Tables /\ lineages \in Nat /\ LinearIn(own) /\ MintedIn(own, lineages)
  BY DEF OwnInv, OwnershipTypeOK, Tables
<1>2. ASSUME Reject PROVE KeptByRow
  BY <1>1, <1>2 DEF Reject, KeptByRow
<1>3. ASSUME NEW k \in ObjectKeys, NEW node \in Cells, PrepareRow(k, node)
      PROVE  KeptByRow
  BY <1>3, MintKeeps DEF PrepareRow
<1>4. ASSUME NEW k \in ObjectKeys, NEW node \in Cells, EntangleLink(k, node)
      PROVE  KeptByRow
  BY <1>2, <1>4, MintKeeps DEF EntangleLink
<1>5. ASSUME NEW k \in ObjectKeys, NEW bit \in Bits, NEW node \in Cells,
             NEW distributed \in BOOLEAN, MeasureRow(k, bit, node, distributed)
      PROVE  KeptByRow
  <2>1. CASE Reject
    BY <1>2, <2>1
  <2>2. CASE /\ Usable({k}, node, distributed) /\ HasRecord(k)
             /\ own' = [own EXCEPT ![k].state = "MEASURED"]
             /\ lineages' = lineages
    <3>1. own[k].state = "LIVE"
      BY <2>2 DEF Usable
    <3> QED BY <1>1, <2>2, <3>1, EndsAreLinear DEF KeptByRow
  <2>3. CASE own' = own /\ lineages' = lineages
    BY <1>1, <2>3 DEF KeptByRow
  <2> QED BY <1>5, <2>1, <2>2, <2>3 DEF MeasureRow
<1>6. ASSUME NEW from \in Slices, NEW to \in Slices, NEW node \in Cells,
             TeleportRow(from, to, node)
      PROVE  KeptByRow
  BY <1>6, TeleportKeeps
<1>7. ASSUME NEW k \in ObjectKeys, EprRelease(k)
      PROVE  KeptByRow
  <2>1. CASE Reject
    BY <1>2, <2>1
  <2>2. CASE /\ own[k].state = "LIVE" /\ own' = [own EXCEPT ![k].state = "RELEASED"]
             /\ lineages' = lineages
    BY <1>1, <2>2, EndsAreLinear DEF KeptByRow
  <2> QED BY <1>7, <2>1, <2>2 DEF EprRelease
<1>8. ASSUME NEW touched \in SUBSET ObjectKeys, NEW node \in Cells,
             GateRow(touched, node) \/ RemoteUse(touched, node)
      PROVE  KeptByRow
  BY <1>2, <1>8 DEF GateRow, RemoteUse
<1>9. ASSUME NEW bit \in Bits, ControlRow(bit)
      PROVE  KeptByRow
  BY <1>2, <1>9 DEF ControlRow
<1> QED BY <1>3, <1>4, <1>5, <1>6, <1>7, <1>8, <1>9 DEF OwnershipNext

(* Of every program, over any keys and nodes: until a row is rejected, no   *)
(* state is held by two keys, and none that no key holds live comes back.   *)
THEOREM StatesAreNotCloned == OwnershipSpec => NoCloning
<1>1. OwnershipInit => OwnInv
  <2> SUFFICES ASSUME OwnershipInit
               PROVE  OwnInv
    OBVIOUS
  <2>1. \A k \in ObjectKeys : own[k].state = "NONE" /\ own[k].lineage = 0
    BY DEF OwnershipInit, NoRecord
  <2>2. lineages = 0 /\ OwnershipTypeOK
    BY DEF OwnershipInit, OwnershipTypeOK
  <2> QED BY <2>1, <2>2 DEF OwnInv, LinearIn, MintedIn
<1>2. OwnInv /\ [OwnershipNext]_ownershipVars => OwnInv'
  <2> SUFFICES ASSUME OwnInv, [OwnershipNext]_ownershipVars
               PROVE  OwnInv'
    OBVIOUS
  <2>1. CASE UNCHANGED ownershipVars
    BY <2>1 DEF OwnInv, OwnershipTypeOK, ownershipVars, LinearIn, MintedIn
  <2>2. CASE OwnershipNext
    <3>1. KeptByRow
      BY <2>2, RowsKeep
    <3>2. bits' \in SUBSET Bits /\ rejected' \in BOOLEAN
      BY <2>2 DEF OwnershipNext, PrepareRow, EntangleLink, MeasureRow, TeleportRow,
                  EprRelease, GateRow, RemoteUse, ControlRow, Reject, Mint,
                  OwnInv, OwnershipTypeOK
    <3>3. /\ own' \in [ObjectKeys -> OwnershipRecords \cup {NoRecord}]
          /\ lineages' \in Nat
      BY <3>1 DEF KeptByRow, Tables
    <3>4. LinearIn(own') /\ MintedIn(own', lineages')
      BY <3>1 DEF KeptByRow
    <3> QED BY <3>2, <3>3, <3>4 DEF OwnInv, OwnershipTypeOK, LinearIn, MintedIn,
                                    OwnershipRecords
  <2> QED BY <2>1, <2>2
<1>3. OwnInv => Linear
  <2> SUFFICES ASSUME OwnInv, NEW k \in ObjectKeys, NEW l \in ObjectKeys,
                      HasRecord(k), HasRecord(l), own[k].lineage = own[l].lineage,
                      own[k].state # "MOVED", own[l].state # "MOVED"
               PROVE  k = l
    BY DEF Linear
  <2>1. own[k] \in OwnershipRecords /\ own[l] \in OwnershipRecords
    BY DEF OwnInv, OwnershipTypeOK, HasRecord
  <2>2. own[k].state # "NONE" /\ own[l].state # "NONE"
    BY <2>1 DEF OwnershipRecords
  <2> QED BY <2>2 DEF OwnInv, LinearIn
<1>4. OwnInv /\ [OwnershipNext]_ownershipVars =>
          [LiveLineages' \subseteq LiveLineages \cup {lineages + 1}]_ownershipVars
  <2> SUFFICES ASSUME OwnInv, OwnershipNext
               PROVE  LiveLineages' \subseteq LiveLineages \cup {lineages + 1}
    OBVIOUS
  <2>1. KeptByRow
    BY RowsKeep
  <2> QED BY <2>1 DEF KeptByRow, LiveIn, LiveLineages, Live
<1> QED BY <1>1, <1>2, <1>3, <1>4, PTL DEF OwnershipSpec, NoCloning
-----------------------------------------------------------------------------
(* Histories.  An update is numbered after those it has observed, and has   *)
(* observed all earlier ones of its own replica; what a replica has seen    *)
(* includes what was observed of it.                                        *)
Count(S) == [what : {"count"}, amount : S, by : Replica, observed : SUBSET Nat]
Edit(w) == [what : {w}, element : Elements, by : Replica, observed : SUBSET Nat]
Tagging ==
    [what : {"add"}, element : Elements, tag : Replica \X Nat, own : {TRUE}, by : Replica,
     observed : SUBSET Nat]
    \cup [what : {"add"}, element : Elements, tag : Tags, own : {FALSE}, by : Replica,
          observed : SUBSET Nat]
Stamping ==
    [what : {"set"}, element : Values, stamp : Nat \ {0}, by : Replica,
     observed : SUBSET Nat]

UpdateOf(k) ==
    CASE k = "GCounter" -> Count(Nat \ {0})
      [] k = "PNCounter" -> Count(Int)
      [] k = "GSet" -> Edit("add")
      [] k = "ORSet" -> Tagging \cup Edit("remove")
      [] k \in Registers -> Stamping

Isolated(o) ==
    \A i \in 1..Len(o) :
        /\ o[i].by \in Replica
        /\ o[i].observed \subseteq 1..(i - 1)
        /\ \A j \in 1..(i - 1) : o[j].by = o[i].by => j \in o[i].observed

\* an addition whose tag the object has taken itself
Own(op) == op.what = "add" /\ op.own

\* later tags that a replica takes are larger, and so are stamps
TagsGrow(o) ==
    \A i \in 1..Len(o) : Own(o[i]) =>
        /\ o[i].tag[1] = o[i].by
        /\ \A j \in o[i].observed : Own(o[j]) => o[j].tag[2] < o[i].tag[2]

StampsGrow(o) ==
    \A i \in 1..Len(o) : \A j \in o[i].observed : o[j].stamp < o[i].stamp

History(k, o) ==
    /\ o \in Seq(UpdateOf(k)) /\ Isolated(o)
    /\ k = "ORSet" => TagsGrow(o)
    /\ k \in Registers => StampsGrow(o)

CausallyClosed(S, o) == S \subseteq 1..Len(o) /\ \A i \in S : o[i].observed \subseteq S

By(S, w, o) == {i \in S : o[i].by = w}

(* Of the updates of one replica everybody has seen the first so many.      *)
LEMMA SeenInOrder ==
    ASSUME NEW o, Isolated(o), Len(o) \in Nat,
           NEW S, NEW T, CausallyClosed(S, o), CausallyClosed(T, o),
           NEW w
    PROVE  By(S, w, o) \subseteq By(T, w, o) \/ By(T, w, o) \subseteq By(S, w, o)
<1> SUFFICES ASSUME NEW i \in By(S, w, o), i \notin By(T, w, o),
                    NEW j \in By(T, w, o), j \notin By(S, w, o)
             PROVE  FALSE
  OBVIOUS
<1>1. /\ i \in S /\ j \in T /\ i \notin T /\ j \notin S /\ o[i].by = o[j].by
      /\ i \in 1..Len(o) /\ j \in 1..Len(o)
  BY DEF By, CausallyClosed
<1>2. CASE i < j
  <2>1. i \in 1..(j - 1)
    BY <1>1, <1>2
  <2>2. i \in o[j].observed
    BY <2>1, <1>1 DEF Isolated
  <2> QED BY <2>2, <1>1 DEF CausallyClosed
<1>3. CASE j < i
  <2>1. j \in 1..(i - 1)
    BY <1>1, <1>3
  <2>2. j \in o[i].observed
    BY <2>1, <1>1 DEF Isolated
  <2> QED BY <2>2, <1>1 DEF CausallyClosed
<1> QED BY <1>1, <1>2, <1>3

(* What is seen after an exchange is closed again.                          *)
LEMMA CausalTogether ==
    ASSUME NEW o, NEW S, NEW T, CausallyClosed(S, o), CausallyClosed(T, o)
    PROVE  CausallyClosed(S \cup T, o)
  BY DEF CausallyClosed
-----------------------------------------------------------------------------
(* The weight f of a set A of updates.                                      *)
Terms(A, f, n) == [i \in 1..n |-> IF i \in A THEN f[i] ELSE 0]
Weight(A, f, n) == SumTo(Terms(A, f, n), n)

\* Weights of naturals are naturals.
LEMMA WeightIsNatural ==
    ASSUME NEW n \in Nat, NEW f \in [1..n -> Nat], NEW A
    PROVE  Weight(A, f, n) \in Nat
<1> DEFINE t == Terms(A, f, n)
<1>1. \A k \in 1..n : t[k] \in Nat
  BY DEF Terms
<1> HIDE DEF t
<1>2. SumTo(t, n) \in Nat
  BY <1>1, SumOfNaturals
<1> QED BY <1>2 DEF t, Weight

\* More updates weigh more.
LEMMA WeightGrows ==
    ASSUME NEW n \in Nat, NEW f \in [1..n -> Nat], NEW A, NEW B, A \subseteq B
    PROVE  Weight(A, f, n) <= Weight(B, f, n)
<1> DEFINE t == Terms(A, f, n)
           u == Terms(B, f, n)
<1>1. \A k \in 1..n : t[k] \in Int /\ u[k] \in Int /\ t[k] <= u[k]
  BY DEF Terms
<1> HIDE DEF t, u
<1>2. SumTo(t, n) <= SumTo(u, n)
  BY <1>1, SumIsMonotone
<1> QED BY <1>2 DEF t, u, Weight

\* The larger of two naturals.
LEMMA LargerOne ==
    ASSUME NEW a \in Nat, NEW b \in Nat
    PROVE  /\ Larger(a, b) \in Nat /\ Larger(a, b) = Larger(b, a)
           /\ a <= b => Larger(a, b) = b
  BY DEF Larger

\* The later of two sets of updates of one replica has the larger weight.
LEMMA WeightOfUnion ==
    ASSUME NEW n \in Nat, NEW f \in [1..n -> Nat], NEW A, NEW B,
           A \subseteq B \/ B \subseteq A
    PROVE  Weight(A \cup B, f, n) = Larger(Weight(A, f, n), Weight(B, f, n))
<1>1. Weight(A, f, n) \in Nat /\ Weight(B, f, n) \in Nat
  BY WeightIsNatural
<1>2. CASE A \subseteq B
  <2>1. A \cup B = B
    BY <1>2
  <2>2. Weight(A, f, n) <= Weight(B, f, n)
    BY <1>2, WeightGrows
  <2> QED BY <2>1, <2>2, <1>1, LargerOne
<1>3. CASE B \subseteq A
  <2>1. A \cup B = A
    BY <1>3
  <2>2. Weight(B, f, n) <= Weight(A, f, n)
    BY <1>3, WeightGrows
  <2> QED BY <2>1, <2>2, <1>1, LargerOne
<1> QED BY <1>2, <1>3

\* A are some of the first n updates
Among(A, n) == A \subseteq 1..n

(* A new update has its weight where it is seen.                            *)
LEMMA WeightOfNext ==
    ASSUME NEW n \in Nat, NEW f, NEW g, SameTerms(g, f, n),
           NEW A, Among(A, n)
    PROVE  /\ Weight(A, g, n + 1) = Weight(A, f, n) + 0
           /\ Weight(A \cup {n + 1}, g, n + 1) = Weight(A, f, n) + g[n + 1]
<1>1. ASSUME NEW B, B \subseteq A \cup {n + 1}, A \subseteq B
      PROVE  Weight(B, g, n + 1)
                 = Weight(A, f, n) + (IF n + 1 \in B THEN g[n + 1] ELSE 0)
  <2> DEFINE t == Terms(B, g, n + 1)
             u == Terms(A, f, n)
  <2>1. /\ \A i \in 1..n : t[i] = u[i]
        /\ t[n + 1] = IF n + 1 \in B THEN g[n + 1] ELSE 0
    BY <1>1 DEF Terms, SameTerms
  <2> HIDE DEF t, u
  <2>2. SumTo(t, n) = SumTo(u, n)
    BY <2>1, SumSame
  <2>3. SumTo(t, n + 1) = SumTo(t, n) + t[n + 1]
    BY SumStep
  <2>4. SumTo(t, n + 1) = SumTo(u, n) + (IF n + 1 \in B THEN g[n + 1] ELSE 0)
    BY <2>1, <2>2, <2>3
  <2> QED BY <2>4 DEF t, u, Weight
<1>2. n + 1 \notin A
  BY DEF Among
<1>3. Weight(A, g, n + 1)
          = Weight(A, f, n) + (IF n + 1 \in A THEN g[n + 1] ELSE 0)
  BY <1>1
<1>4. Weight(A \cup {n + 1}, g, n + 1)
          = Weight(A, f, n) + (IF n + 1 \in A \cup {n + 1} THEN g[n + 1] ELSE 0)
  BY <1>1
<1> QED BY <1>2, <1>3, <1>4

Counts(c, S, f, o) ==
    c \in [Replica -> Nat] /\ \A w \in Replica : c[w] = Weight(By(S, w, o), f, Len(o))

(* Added up for all replicas the weights are those of all updates.          *)
LEMMA WeightsAddUp ==
    ASSUME NEW o, NEW n \in Nat, n = Len(o), N \in Nat, Isolated(o),
           NEW f \in [1..n -> Nat], NEW S,
           NEW c, Counts(c, S, f, o)
    PROVE  SumOf(c) = Weight(S, f, n)
<1> DEFINE t == [w \in 1..N |-> Terms(By(S, w, o), f, n)]
           s == Terms(S, f, n)
<1>1. t \in [1..N -> [1..n -> Int]]
  <2>1. \A w \in 1..N : Terms(By(S, w, o), f, n) \in [1..n -> Int]
    BY DEF Terms
  <2> QED BY <2>1
<1>2. \A w \in 1..N : c[w] = SumTo(t[w], n)
  BY DEF Weight, Replica, Counts
<1>3. ASSUME NEW i \in 1..n
      PROVE  s[i] = SumTo(Column(t, i, N), N)
  <2> DEFINE r == Column(t, i, N)
             v == o[i].by
  <2>1. v \in 1..N
    BY DEF Isolated, Replica
  <2>2. \A w \in 1..N : r[w] = IF i \in S /\ w = v THEN f[i] ELSE 0
    BY DEF Terms, By, Column
  <2>3. s[i] = IF i \in S THEN f[i] ELSE 0
    BY DEF Terms
  <2>4. f[i] \in Int
    OBVIOUS
  <2> HIDE DEF r, v, s
  <2>5. r[v] \in Int /\ r[v] = s[i] /\ \A w \in 1..N : w # v => r[w] = 0
    BY <2>1, <2>2, <2>3, <2>4
  <2>6. SumTo(r, N) = r[v]
    BY <2>1, <2>5, SumOfOne
  <2> QED BY <2>5, <2>6 DEF r
<1> HIDE DEF t, s
<1>4. SumTo(c, N) = SumTo(s, n)
  <2>1. AreColumnSums(s, t, N, n) /\ AreRowSums(c, t, N, n)
    BY <1>2, <1>3 DEF AreColumnSums, AreRowSums
  <2> QED BY <1>1, <2>1, SumOfColumns
<1> QED BY <1>4 DEF SumOf, Weight, s
-----------------------------------------------------------------------------
(* Counters. What a replica has counted of each writer is the weight of the *)
(* writer's updates that it has seen.                                       *)
Gain(o) == [i \in 1..Len(o) |-> IF o[i].amount > 0 THEN o[i].amount ELSE 0]
Loss(o) == [i \in 1..Len(o) |-> IF o[i].amount > 0 THEN 0 ELSE -o[i].amount]

(* The larger of two counts of a writer is that of all its updates that    *)
(* either has seen.                                                        *)
LEMMA CountsMerge ==
    ASSUME NEW o, Isolated(o), Len(o) \in Nat, NEW f \in [1..Len(o) -> Nat],
           NEW S, NEW T, CausallyClosed(S, o), CausallyClosed(T, o),
           NEW c, Counts(c, S, f, o), NEW d, Counts(d, T, f, o)
    PROVE  Counts(MaxOf(c, d), S \cup T, f, o)
<1>1. c \in [Replica -> Nat] /\ d \in [Replica -> Nat]
  BY DEF Counts
<1>2. MaxOf(c, d) \in [Replica -> Nat]
  BY <1>1, LargerOne DEF MaxOf
<1>3. ASSUME NEW w \in Replica
      PROVE  MaxOf(c, d)[w] = Weight(By(S \cup T, w, o), f, Len(o))
  <2> DEFINE A == By(S, w, o)
             B == By(T, w, o)
  <2>1. By(S \cup T, w, o) = A \cup B
    BY DEF By
  <2>2. A \subseteq B \/ B \subseteq A
    BY SeenInOrder
  <2>3. c[w] = Weight(A, f, Len(o)) /\ d[w] = Weight(B, f, Len(o))
    BY DEF Counts
  <2> HIDE DEF A, B
  <2>4. Weight(A \cup B, f, Len(o)) = Larger(c[w], d[w])
    BY <2>2, <2>3, WeightOfUnion
  <2> QED BY <2>1, <2>4 DEF MaxOf
<1> QED BY <1>2, <1>3 DEF Counts

\* What has been seen determines the counts.
LEMMA CountsAreUnique ==
    ASSUME NEW o, NEW f, NEW S, NEW c, Counts(c, S, f, o), NEW d, Counts(d, S, f, o)
    PROVE  c = d
  BY DEF Counts

\* A new counter has counted nothing.
LEMMA CountsOfNone ==
    ASSUME NEW o, Len(o) \in Nat, NEW f
    PROVE  Counts(Zero, {}, f, o)
<1>1. Zero \in [Replica -> Nat] /\ \A w \in Replica : Zero[w] = 0
  BY DEF Zero
<1>2. ASSUME NEW w \in Replica PROVE Weight(By({}, w, o), f, Len(o)) = 0
  <2> DEFINE t == Terms(By({}, w, o), f, Len(o))
  <2>1. \A k \in 1..Len(o) : t[k] = 0
    BY DEF Terms, By
  <2> HIDE DEF t
  <2>2. SumTo(t, Len(o)) = 0
    BY <2>1, SumOfZeros
  <2> QED BY <2>2 DEF t, Weight
<1> QED BY <1>1, <1>2 DEF Counts

(* The history o2 is o and one update more.                                 *)
Continues(o, o2) ==
    Len(o) \in Nat /\ Len(o2) = Len(o) + 1 /\ \A i \in 1..Len(o) : o2[i] = o[i]

(* What others have counted stays what it was; the writer r has counted m   *)
(* more of its own.                                                         *)
LEMMA CountsStay ==
    ASSUME NEW o, NEW o2, Continues(o, o2), NEW S, S \subseteq 1..Len(o),
           NEW f, NEW g, SameTerms(g, f, Len(o)),
           NEW c, Counts(c, S, f, o)
    PROVE  Counts(c, S, g, o2)
<1>1. ASSUME NEW w \in Replica PROVE c[w] = Weight(By(S, w, o2), g, Len(o2))
  <2> DEFINE A == By(S, w, o)
             n == Len(o)
  <2>1. By(S, w, o2) = A /\ Among(A, n) /\ Len(o2) = n + 1 /\ n \in Nat
    BY DEF By, Continues, Among
  <2>2. c[w] = Weight(A, f, n) /\ c[w] \in Nat
    BY DEF Counts
  <2> HIDE DEF A, n
  <2>3. SameTerms(g, f, n)
    BY DEF n
  <2>4. /\ Weight(A, g, n + 1) = Weight(A, f, n) + 0
        /\ Weight(A \cup {n + 1}, g, n + 1) = Weight(A, f, n) + g[n + 1]
    BY <2>1, <2>3, WeightOfNext
  <2> QED BY <2>1, <2>2, <2>4
<1> QED BY <1>1 DEF Counts

\* The writer that counts m more has counted its new update.
LEMMA CountsStep ==
    ASSUME NEW o, NEW o2, Continues(o, o2), NEW S, S \subseteq 1..Len(o),
           NEW f, NEW g, SameTerms(g, f, Len(o)),
           NEW c, Counts(c, S, f, o), g[Len(o) + 1] \in Nat,
           NEW r \in Replica, o2[Len(o) + 1].by = r
    PROVE  Counts([c EXCEPT ![r] = @ + g[Len(o) + 1]], S \cup {Len(o) + 1}, g, o2)
<1> DEFINE n == Len(o)
           d == [c EXCEPT ![r] = @ + g[n + 1]]
<1>1. c \in [Replica -> Nat]
  BY DEF Counts
<1>2. d \in [Replica -> Nat]
  BY <1>1
<1>3. ASSUME NEW w \in Replica
      PROVE  d[w] = Weight(By(S \cup {n + 1}, w, o2), g, Len(o2))
  <2> DEFINE A == By(S, w, o)
  <2>1. /\ By(S \cup {n + 1}, w, o2) = IF w = r THEN A \cup {n + 1} ELSE A
        /\ Among(A, n) /\ Len(o2) = n + 1 /\ n \in Nat
    BY DEF By, Continues, Among
  <2>2. c[w] = Weight(A, f, n) /\ c[w] \in Nat
    BY DEF Counts
  <2>3. d[w] = IF w = r THEN c[w] + g[n + 1] ELSE c[w]
    BY <1>1
  <2> HIDE DEF A, n, d
  <2>4. SameTerms(g, f, n)
    BY DEF n
  <2>5. /\ Weight(A, g, n + 1) = Weight(A, f, n) + 0
        /\ Weight(A \cup {n + 1}, g, n + 1) = Weight(A, f, n) + g[n + 1]
    BY <2>1, <2>4, WeightOfNext
  <2> QED BY <2>1, <2>2, <2>3, <2>5
<1> QED BY <1>2, <1>3 DEF Counts

(* What a replica shows is the total of the updates it has seen.            *)
TotalOf(S, o) ==
    SumTo([i \in DOMAIN o |-> IF i \in S THEN o[i].amount ELSE 0], Len(o))

\* The gains less the losses are the total of the amounts.
LEMMA CountsAddUp ==
    ASSUME N \in Nat, NEW o, Isolated(o), Len(o) \in Nat, DOMAIN o = 1..Len(o),
           \A i \in 1..Len(o) : o[i].amount \in Int,
           NEW S, NEW c, Counts(c, S, Gain(o), o), NEW d, Counts(d, S, Loss(o), o)
    PROVE  SumOf(c) - SumOf(d) = TotalOf(S, o)
<1> DEFINE n == Len(o)
           t == Terms(S, Gain(o), n)
           u == Terms(S, Loss(o), n)
           v == [i \in DOMAIN o |-> IF i \in S THEN o[i].amount ELSE 0]
<1>1. Gain(o) \in [1..n -> Nat] /\ Loss(o) \in [1..n -> Nat]
  BY DEF Gain, Loss
<1>2. SumOf(c) = Weight(S, Gain(o), n)
  BY <1>1, WeightsAddUp
<1>3. SumOf(d) = Weight(S, Loss(o), n)
  BY <1>1, WeightsAddUp
<1>4. \A i \in 1..n : v[i] \in Int /\ u[i] \in Int /\ t[i] = v[i] + u[i]
  BY DEF Terms, Gain, Loss
<1> HIDE DEF t, u, v
<1>5. SumTo(t, n) = SumTo(v, n) + SumTo(u, n)
  BY <1>4, SumOfSums
<1>6. SumTo(v, n) \in Int /\ SumTo(u, n) \in Int
  BY <1>4, SumOfIntegers
<1>7. SumOf(c) = SumTo(t, n) /\ SumOf(d) = SumTo(u, n) /\ TotalOf(S, o) = SumTo(v, n)
  BY <1>2, <1>3 DEF Weight, TotalOf, t, u, v
<1> QED BY <1>5, <1>6, <1>7
-----------------------------------------------------------------------------
(* Sets. An added element carries the tag of its addition; the tags that    *)
(* were removed are those of additions a removal has observed.              *)
Adds(S, o) == {i \in S : o[i].what = "add"}

Dead(S, o) ==
    {i \in Adds(S, o) : \E j \in S : /\ o[j].what = "remove"
                                     /\ o[j].element = o[i].element
                                     /\ i \in o[j].observed}

TaggedIn(S, o) == {<<o[i].element, o[i].tag>> : i \in S}
TagsIn(S, o) == {o[i].tag : i \in S}

SetOf(x, S, o) == x = [elements |-> {o[i].element : i \in S}]

TaggedSetOf(x, S, o) ==
    /\ x = [adds |-> TaggedIn(Adds(S, o), o), removed |-> TagsIn(Dead(S, o), o),
            counter |-> x.counter]
    /\ x.counter \in Nat
    /\ \A i \in S : Own(o[i]) => o[i].tag[2] <= x.counter

\* The updates of each type, one by one.
LEMMA UpdatesOfKinds ==
    /\ UpdateOf("GCounter") = Count(Nat \ {0})
    /\ UpdateOf("PNCounter") = Count(Int)
    /\ UpdateOf("GSet") = Edit("add")
    /\ UpdateOf("ORSet") = Tagging \cup Edit("remove")
    /\ \A k \in Registers : UpdateOf(k) = Stamping
  BY DEF UpdateOf, Registers

\* The second part of a tag that an object takes is a number.
LEMMA TagsAreNumbered ==
    ASSUME NEW o, o \in Seq(UpdateOf("ORSet")), NEW i \in 1..Len(o), Own(o[i])
    PROVE  o[i].tag[2] \in Nat
<1>1. o[i] \in Tagging \cup Edit("remove")
  BY UpdatesOfKinds
<1>2. o[i] \in Tagging
  BY <1>1 DEF Tagging, Edit, Own
<1>3. o[i].tag \in Replica \X Nat
  BY <1>2 DEF Tagging, Own
<1> QED BY <1>3

(* The union of two observed-remove sets is that of the updates either has *)
(* seen: a removal takes along the additions it has observed.              *)
LEMMA TaggedSetsMerge ==
    ASSUME NEW o, o \in Seq(UpdateOf("ORSet")),
           NEW S, NEW T, CausallyClosed(S, o), CausallyClosed(T, o),
           NEW x, TaggedSetOf(x, S, o), NEW y, TaggedSetOf(y, T, o)
    PROVE  TaggedSetOf(MergeORSets(x, y), S \cup T, o)
<1>1. Adds(S \cup T, o) = Adds(S, o) \cup Adds(T, o)
  BY DEF Adds
<1>2. Dead(S \cup T, o) = Dead(S, o) \cup Dead(T, o)
  <2>1. ASSUME NEW i \in Dead(S \cup T, o) PROVE i \in Dead(S, o) \cup Dead(T, o)
    <3>1. PICK j \in S \cup T : /\ o[j].what = "remove"
                                /\ o[j].element = o[i].element
                                /\ i \in o[j].observed
      BY DEF Dead
    <3>2. o[i].what = "add"
      BY DEF Dead, Adds
    <3>3. CASE j \in S
      <4>1. i \in S
        BY <3>1, <3>3 DEF CausallyClosed
      <4> QED BY <4>1, <3>1, <3>2, <3>3 DEF Dead, Adds
    <3>4. CASE j \in T
      <4>1. i \in T
        BY <3>1, <3>4 DEF CausallyClosed
      <4> QED BY <4>1, <3>1, <3>2, <3>4 DEF Dead, Adds
    <3> QED BY <3>3, <3>4
  <2>2. Dead(S, o) \subseteq Dead(S \cup T, o) /\ Dead(T, o) \subseteq Dead(S \cup T, o)
    BY DEF Dead, Adds
  <2> QED BY <2>1, <2>2
<1>3. /\ TaggedIn(Adds(S \cup T, o), o)
            = TaggedIn(Adds(S, o), o) \cup TaggedIn(Adds(T, o), o)
      /\ TagsIn(Dead(S \cup T, o), o)
            = TagsIn(Dead(S, o), o) \cup TagsIn(Dead(T, o), o)
  BY <1>1, <1>2 DEF TaggedIn, TagsIn
<1>4. /\ x.counter \in Nat /\ y.counter \in Nat
      /\ x.adds = TaggedIn(Adds(S, o), o) /\ x.removed = TagsIn(Dead(S, o), o)
      /\ y.adds = TaggedIn(Adds(T, o), o) /\ y.removed = TagsIn(Dead(T, o), o)
  BY DEF TaggedSetOf
<1> DEFINE z == MergeORSets(x, y)
<1>5. /\ z = [adds |-> TaggedIn(Adds(S \cup T, o), o),
              removed |-> TagsIn(Dead(S \cup T, o), o), counter |-> z.counter]
      /\ z.counter = Larger(x.counter, y.counter)
  BY <1>3, <1>4 DEF MergeORSets
<1>6. \A i \in S \cup T : Own(o[i]) => o[i].tag[2] \in Nat
  BY TagsAreNumbered DEF CausallyClosed
<1>7. ASSUME NEW i \in S \cup T, Own(o[i]) PROVE o[i].tag[2] <= z.counter
  <2>1. o[i].tag[2] \in Nat
    BY <1>6, <1>7
  <2>2. o[i].tag[2] <= x.counter \/ o[i].tag[2] <= y.counter
    BY <1>7 DEF TaggedSetOf
  <2> HIDE DEF z
  <2> QED BY <2>1, <2>2, <1>4, <1>5 DEF Larger
<1>8. z.counter \in Nat
  BY <1>4, <1>5, LargerOne
<1> QED BY <1>5, <1>7, <1>8 DEF TaggedSetOf

\* No two tags that objects have taken are the same.
LEMMA TagsDiffer ==
    ASSUME NEW o, o \in Seq(UpdateOf("ORSet")), Isolated(o), TagsGrow(o),
           NEW i \in 1..Len(o), NEW j \in 1..Len(o), i < j, Own(o[i]), Own(o[j])
    PROVE  o[i].tag # o[j].tag
<1> SUFFICES ASSUME o[i].tag = o[j].tag PROVE FALSE
  OBVIOUS
<1>1. o[i].by = o[j].by
  BY DEF TagsGrow
<1>2. o[i].tag[2] \in Nat /\ o[j].tag[2] \in Nat
  BY TagsAreNumbered
<1>3. i \in 1..(j - 1)
  OBVIOUS
<1>4. i \in o[j].observed
  BY <1>1, <1>3 DEF Isolated
<1>5. o[i].tag[2] < o[j].tag[2]
  BY <1>4 DEF TagsGrow
<1> QED BY <1>2, <1>5

\* the additions whose tags no removal has taken along
Alive(S, o) == {i \in Adds(S, o) : o[i].tag \notin TagsIn(Dead(S, o), o)}

(* What the set shows.                                                      *)
LEMMA TaggedSetShows ==
    ASSUME NEW o, NEW S, NEW x, TaggedSetOf(x, S, o)
    PROVE  Value("ORSet", x) = {o[i].element : i \in Alive(S, o)}
<1> DEFINE live == {b \in x.adds : b[2] \notin x.removed}
           V == {a[1] : a \in live}
<1>1. Value("ORSet", x) = V
  BY DEF Value, Registers
<1>2. x.adds = TaggedIn(Adds(S, o), o) /\ x.removed = TagsIn(Dead(S, o), o)
  BY DEF TaggedSetOf
<1>3. ASSUME NEW v \in V PROVE v \in {o[i].element : i \in Alive(S, o)}
  <2>1. PICK a \in live : v = a[1]
    OBVIOUS
  <2>2. PICK i \in Adds(S, o) : a = <<o[i].element, o[i].tag>>
    BY <1>2, <2>1 DEF TaggedIn
  <2>3. o[i].tag \notin TagsIn(Dead(S, o), o)
    BY <1>2, <2>1, <2>2
  <2>4. i \in Alive(S, o)
    BY <2>3 DEF Alive
  <2> QED BY <2>1, <2>2, <2>4
<1>4. ASSUME NEW i \in Alive(S, o) PROVE o[i].element \in V
  <2> DEFINE a == <<o[i].element, o[i].tag>>
  <2>1. a \in x.adds /\ a[1] = o[i].element /\ a[2] = o[i].tag
    BY <1>2 DEF TaggedIn, Alive
  <2>2. a[2] \notin x.removed
    BY <2>1, <1>2 DEF Alive
  <2>3. a \in live
    BY <2>1, <2>2
  <2> QED BY <2>1, <2>3
<1> QED BY <1>1, <1>3, <1>4
-----------------------------------------------------------------------------
\* Another replica's update leaves a grow-only set faithful.
LEMMA SetStays ==
    ASSUME NEW o, NEW o2, Continues(o, o2), NEW S, Among(S, Len(o)),
           NEW x, SetOf(x, S, o)
    PROVE  SetOf(x, S, o2)
  BY DEF SetOf, Continues, Among

\* An addition makes the set that of one update more.
LEMMA SetStep ==
    ASSUME NEW o, NEW o2, Continues(o, o2), NEW S, Among(S, Len(o)),
           NEW x, SetOf(x, S, o), NEW e, o2[Len(o) + 1].element = e
    PROVE  SetOf([elements |-> x.elements \cup {e}], S \cup {Len(o) + 1}, o2)
<1>1. x.elements = {o[i].element : i \in S}
  BY DEF SetOf
<1>2. \A i \in S : o2[i] = o[i]
  BY DEF Continues, Among
<1>3. {o2[i].element : i \in S \cup {Len(o) + 1}} = {o[i].element : i \in S} \cup {e}
  BY <1>2
<1> QED BY <1>1, <1>3 DEF SetOf

\* The union of two grow-only sets is that of the updates either has seen.
LEMMA SetsMerge ==
    ASSUME NEW o, NEW S, NEW T, NEW x, SetOf(x, S, o), NEW y, SetOf(y, T, o)
    PROVE  SetOf([elements |-> x.elements \cup y.elements], S \cup T, o)
  BY DEF SetOf

\* Another replica's update leaves an observed-remove set faithful.
LEMMA TaggedSetStays ==
    ASSUME NEW o, NEW o2, Continues(o, o2), NEW S, Among(S, Len(o)),
           NEW x, TaggedSetOf(x, S, o)
    PROVE  TaggedSetOf(x, S, o2)
<1>1. \A i \in S : o2[i] = o[i]
  BY DEF Continues, Among
<1>2. Adds(S, o2) = Adds(S, o)
  BY <1>1 DEF Adds
<1>3. Dead(S, o2) = Dead(S, o)
  BY <1>1, <1>2 DEF Dead, Adds
<1>4. /\ TaggedIn(Adds(S, o2), o2) = TaggedIn(Adds(S, o), o)
      /\ TagsIn(Dead(S, o2), o2) = TagsIn(Dead(S, o), o)
  BY <1>1, <1>2, <1>3 DEF TaggedIn, TagsIn, Dead, Adds
<1> QED BY <1>1, <1>2, <1>4 DEF TaggedSetOf, Own

Sets(A, R, c) == [adds |-> A, removed |-> R, counter |-> c]
Adding(x, D) == [x EXCEPT !.adds = @ \cup D, !.counter = @ + 1]
AddingTo(x, D) == [x EXCEPT !.adds = @ \cup D]
Removing(x, D) == [x EXCEPT !.removed = @ \cup D]

\* What an addition makes of the fields of a set.
LEMMA AddingToSets ==
    ASSUME NEW A, NEW R, NEW c, NEW D
    PROVE  Adding(Sets(A, R, c), D) = Sets(A \cup D, R, c + 1)
<1> DEFINE x == Sets(A, R, c)
           y == Adding(x, D)
           AD == A \cup D
<1>1. /\ DOMAIN y = {"adds", "removed", "counter"}
      /\ y.adds = AD /\ y.removed = R /\ y.counter = c + 1
  BY DEF Sets, Adding
<1>2. y = [f \in DOMAIN y |-> y[f]]
  BY DEF Sets, Adding
<1> HIDE DEF y, AD
<1>3. y = [adds |-> AD, removed |-> R, counter |-> c + 1]
  BY <1>1, <1>2
<1> QED BY <1>3 DEF y, AD, Sets

\* What an addition under a caller's tag makes of the fields of a set.
LEMMA AddingTagged ==
    ASSUME NEW A, NEW R, NEW c, NEW D
    PROVE  AddingTo(Sets(A, R, c), D) = Sets(A \cup D, R, c)
<1> DEFINE x == Sets(A, R, c)
           y == AddingTo(x, D)
           AD == A \cup D
<1>1. /\ DOMAIN y = {"adds", "removed", "counter"}
      /\ y.adds = AD /\ y.removed = R /\ y.counter = c
  BY DEF Sets, AddingTo
<1>2. y = [f \in DOMAIN y |-> y[f]]
  BY DEF Sets, AddingTo
<1> HIDE DEF y, AD
<1>3. y = [adds |-> AD, removed |-> R, counter |-> c]
  BY <1>1, <1>2
<1> QED BY <1>3 DEF y, AD, Sets

\* What a removal makes of the fields of a set.
LEMMA RemovingFromSets ==
    ASSUME NEW A, NEW R, NEW c, NEW D
    PROVE  Removing(Sets(A, R, c), D) = Sets(A, R \cup D, c)
<1> DEFINE x == Sets(A, R, c)
           y == Removing(x, D)
           RD == R \cup D
<1>1. /\ DOMAIN y = {"adds", "removed", "counter"}
      /\ y.adds = A /\ y.removed = RD /\ y.counter = c
  BY DEF Sets, Removing
<1>2. y = [f \in DOMAIN y |-> y[f]]
  BY DEF Sets, Removing
<1> HIDE DEF y, RD
<1>3. y = [adds |-> A, removed |-> RD, counter |-> c]
  BY <1>1, <1>2
<1> QED BY <1>3 DEF y, RD, Sets

(* An addition is of no removal seen before. Its tag is the one that the    *)
(* object takes next, or the caller's.                                      *)
LEMMA TaggedSetAdds ==
    ASSUME NEW o, NEW o2, Continues(o, o2), o2 \in Seq(UpdateOf("ORSet")),
           Isolated(o2), NEW S, Among(S, Len(o)),
           NEW x, TaggedSetOf(x, S, o), NEW e, NEW tag, NEW c \in Nat, x.counter <= c,
           LET new == o2[Len(o) + 1]
           IN  /\ new.what = "add" /\ new.element = e /\ new.tag = tag
               /\ Own(new) => tag[2] <= c,
           NEW y, y = Sets(x.adds \cup {<<e, tag>>}, x.removed, c)
    PROVE  TaggedSetOf(y, S \cup {Len(o) + 1}, o2)
<1> DEFINE n == Len(o)
           S2 == S \cup {n + 1}
<1>1. /\ \A i \in S : o2[i] = o[i] /\ i \in 1..n
      /\ n \in Nat /\ Len(o2) = n + 1
      /\ o2[n + 1].what = "add" /\ o2[n + 1].element = e /\ o2[n + 1].tag = tag
  BY DEF Continues, Among
<1>2. Adds(S2, o2) = Adds(S, o) \cup {n + 1}
  BY <1>1 DEF Adds
<1>3. ASSUME NEW j \in S2 PROVE n + 1 \notin o2[j].observed
  <2>1. j \in 1..(n + 1)
    BY <1>1
  <2>2. o2[j].observed \subseteq 1..(j - 1)
    BY <2>1, <1>1 DEF Isolated
  <2> QED BY <2>1, <2>2
<1>4. Dead(S2, o2) = Dead(S, o)
  <2>1. ASSUME NEW i \in Dead(S2, o2) PROVE i \in Dead(S, o)
    <3>1. PICK j \in S2 : /\ o2[j].what = "remove"
                          /\ o2[j].element = o2[i].element
                          /\ i \in o2[j].observed
      BY DEF Dead
    <3>2. j # n + 1 /\ i # n + 1
      BY <3>1, <1>1, <1>3
    <3>3. i \in Adds(S, o) /\ j \in S
      BY <3>2, <1>2 DEF Dead
    <3>4. o2[i] = o[i] /\ o2[j] = o[j]
      BY <3>3, <1>1 DEF Adds
    <3> QED BY <3>1, <3>3, <3>4 DEF Dead
  <2>2. ASSUME NEW i \in Dead(S, o) PROVE i \in Dead(S2, o2)
    BY <1>1, <1>2 DEF Dead, Adds
  <2> QED BY <2>1, <2>2
<1>5. /\ TaggedIn(Adds(S2, o2), o2) = TaggedIn(Adds(S, o), o) \cup {<<e, tag>>}
      /\ TagsIn(Dead(S2, o2), o2) = TagsIn(Dead(S, o), o)
  BY <1>1, <1>2, <1>4 DEF TaggedIn, TagsIn, Adds, Dead
<1>6. /\ x.counter \in Nat
      /\ x.adds = TaggedIn(Adds(S, o), o) /\ x.removed = TagsIn(Dead(S, o), o)
  BY DEF TaggedSetOf
<1>7. /\ y = [adds |-> TaggedIn(Adds(S2, o2), o2), removed |-> TagsIn(Dead(S2, o2), o2),
              counter |-> c]
      /\ y.counter = c
  BY <1>5, <1>6 DEF Sets
<1>8. ASSUME NEW i \in S2, Own(o2[i]) PROVE o2[i].tag[2] <= c
  <2>1. CASE i = n + 1
    BY <2>1, <1>1, <1>8
  <2>2. CASE i \in S
    <3>1. o2[i] = o[i] /\ i \in 1..Len(o2)
      BY <2>2, <1>1
    <3>2. o2[i].tag[2] \in Nat
      BY <3>1, <1>8, TagsAreNumbered
    <3>3. o[i].tag[2] <= x.counter
      BY <2>2, <3>1, <1>8 DEF TaggedSetOf
    <3> QED BY <3>1, <3>2, <3>3, <1>6
  <2> QED BY <2>1, <2>2
<1> QED BY <1>7, <1>8 DEF TaggedSetOf

TagsOf(x, e) == {a[2] : a \in {b \in x.adds : b[1] = e}}

\* A removal is of the tags of the element that the replica has seen.
LEMMA TaggedSetRemoves ==
    ASSUME NEW o, NEW o2, Continues(o, o2), NEW S, Among(S, Len(o)),
           NEW x, TaggedSetOf(x, S, o), NEW e,
           LET new == o2[Len(o) + 1]
           IN  new.what = "remove" /\ new.element = e /\ new.observed = S
    PROVE  TaggedSetOf(
               [x EXCEPT !.removed = @ \cup TagsOf(x, e)],
               S \cup {Len(o) + 1}, o2)
<1> DEFINE n == Len(o)
           S2 == S \cup {n + 1}
           tags == TagsOf(x, e)
           y == [x EXCEPT !.removed = @ \cup tags]
           Of == {i \in Adds(S, o) : o[i].element = e}
<1>1. /\ \A i \in S : o2[i] = o[i] /\ i \in 1..n
      /\ n \in Nat /\ Len(o2) = n + 1
      /\ o2[n + 1].what = "remove" /\ o2[n + 1].element = e /\ o2[n + 1].observed = S
  BY DEF Continues, Among
<1>2. Adds(S2, o2) = Adds(S, o)
  BY <1>1 DEF Adds
<1>3. Dead(S2, o2) = Dead(S, o) \cup Of
  <2>1. ASSUME NEW i \in Dead(S2, o2) PROVE i \in Dead(S, o) \cup Of
    <3>1. PICK j \in S2 : /\ o2[j].what = "remove"
                          /\ o2[j].element = o2[i].element
                          /\ i \in o2[j].observed
      BY DEF Dead
    <3>2. i \in Adds(S, o) /\ o2[i] = o[i]
      BY <1>1, <1>2 DEF Dead, Adds
    <3>3. CASE j = n + 1
      BY <3>1, <3>2, <3>3, <1>1
    <3>4. CASE j \in S
      BY <3>1, <3>2, <3>4, <1>1 DEF Dead
    <3> QED BY <3>3, <3>4
  <2>2. ASSUME NEW i \in Dead(S, o) PROVE i \in Dead(S2, o2)
    BY <1>1, <1>2 DEF Dead, Adds
  <2>3. ASSUME NEW i \in Of PROVE i \in Dead(S2, o2)
    <3>1. i \in Adds(S2, o2) /\ i \in S /\ o2[i].element = e /\ n + 1 \in S2
      BY <1>1, <1>2 DEF Adds
    <3> QED BY <3>1, <1>1 DEF Dead
  <2> QED BY <2>1, <2>2, <2>3
<1>4. /\ x.counter \in Nat
      /\ x = [adds |-> TaggedIn(Adds(S, o), o), removed |-> TagsIn(Dead(S, o), o),
              counter |-> x.counter]
  BY DEF TaggedSetOf
<1>5. tags = TagsIn(Of, o)
  <2>1. x.adds = TaggedIn(Adds(S, o), o)
    BY <1>4
  <2>2. ASSUME NEW t \in tags PROVE t \in TagsIn(Of, o)
    <3>1. PICK a \in x.adds : a[1] = e /\ t = a[2]
      BY DEF TagsOf
    <3>2. PICK i \in Adds(S, o) : a = <<o[i].element, o[i].tag>>
      BY <3>1, <2>1 DEF TaggedIn
    <3> QED BY <3>1, <3>2 DEF TagsIn
  <2>3. ASSUME NEW i \in Of PROVE o[i].tag \in tags
    <3> DEFINE a == <<o[i].element, o[i].tag>>
    <3>1. a \in x.adds /\ a[1] = e /\ a[2] = o[i].tag
      BY <2>1 DEF TaggedIn
    <3> QED BY <3>1 DEF TagsOf
  <2> QED BY <2>2, <2>3 DEF TagsIn
<1>6. /\ TaggedIn(Adds(S2, o2), o2) = TaggedIn(Adds(S, o), o)
      /\ TagsIn(Dead(S2, o2), o2) = TagsIn(Dead(S, o), o) \cup TagsIn(Of, o)
  BY <1>1, <1>2, <1>3 DEF TaggedIn, TagsIn, Adds, Dead
<1>7. y = [adds |-> TaggedIn(Adds(S2, o2), o2), removed |-> TagsIn(Dead(S2, o2), o2),
           counter |-> x.counter]
  <2> HIDE DEF tags
  <2>1. y = [adds |-> TaggedIn(Adds(S, o), o), removed |-> TagsIn(Dead(S, o), o) \cup tags,
             counter |-> x.counter]
    <3> DEFINE A == TaggedIn(Adds(S, o), o)
               R == TagsIn(Dead(S, o), o)
               c == x.counter
    <3>1. y = Removing(x, tags) /\ x = Sets(A, R, c)
      BY <1>4 DEF Removing, Sets
    <3> HIDE DEF A, R, c, y
    <3>2. y = Sets(A, R \cup tags, c)
      BY <3>1, RemovingFromSets
    <3> QED BY <3>2 DEF Sets, A, R, c
  <2> QED BY <2>1, <1>5, <1>6
<1>8. \A i \in S2 : Own(o2[i]) => o2[i].tag[2] <= x.counter
  BY <1>1 DEF TaggedSetOf, Own
<1> HIDE DEF y
<1>9. TaggedSetOf(y, S2, o2)
  BY <1>4, <1>7, <1>8 DEF TaggedSetOf
<1> QED BY <1>9 DEF y
-----------------------------------------------------------------------------
(* Registers. A register shows the latest of the updates seen, by stamp and *)
(* writer, and its version has the latest stamp of each writer. w is the    *)
(* writer of a register that nobody has written.                            *)
Register ==
    [value : Values \cup {NullValue}, timestamp : Nat, writer : Replica,
     version : [Replica -> Nat]]

Precedes(s, a, t, b) == s < t \/ (s = t /\ a <= b)

Leads(i, S, o) ==
    \A j \in S : Precedes(o[j].stamp, o[j].by, o[i].stamp, o[i].by)

Versions(v, S, o) ==
    \A w \in Replica :
        /\ \A i \in By(S, w, o) : o[i].stamp <= v[w]
        /\ v[w] = 0 \/ \E i \in By(S, w, o) : o[i].stamp = v[w]

Holds(x, i, o) ==
    x.value = o[i].element /\ x.timestamp = o[i].stamp /\ x.writer = o[i].by

RegisterOf(x, S, w, o) ==
    /\ x \in Register /\ Versions(x.version, S, o)
    /\ S = {} => x.value = NullValue /\ x.timestamp = 0 /\ x.writer = w
    /\ S # {} => \E i \in S : Holds(x, i, o) /\ Leads(i, S, o)

StampedBy(o) == o \in Seq(Stamping) /\ Len(o) \in Nat /\ Isolated(o) /\ StampsGrow(o)

\* The types of a write; its stamp is positive.
LEMMA StampTypes ==
    ASSUME NEW o, StampedBy(o), NEW i \in 1..Len(o)
    PROVE  /\ o[i].stamp \in Nat /\ o[i].stamp >= 1
           /\ o[i].by \in Replica /\ o[i].element \in Values
<1>1. o[i] \in Stamping
  BY DEF StampedBy
<1>2. o[i].stamp \in Nat /\ o[i].stamp # 0
  BY <1>1 DEF Stamping
<1> QED BY <1>1, <1>2 DEF Stamping

\* Of one writer the later update has the later stamp.
LEMMA StampsOrder ==
    ASSUME NEW o, StampedBy(o), NEW i \in 1..Len(o), NEW j \in 1..Len(o),
           o[i].by = o[j].by
    PROVE  /\ i < j => o[i].stamp < o[j].stamp
           /\ j < i => o[j].stamp < o[i].stamp
           /\ o[i].stamp = o[j].stamp => i = j
<1>1. ASSUME i < j PROVE o[i].stamp < o[j].stamp
  <2>1. i \in 1..(j - 1)
    BY <1>1
  <2>2. i \in o[j].observed
    BY <2>1 DEF StampedBy, Isolated
  <2> QED BY <2>2 DEF StampedBy, StampsGrow
<1>2. ASSUME j < i PROVE o[j].stamp < o[i].stamp
  <2>1. j \in 1..(i - 1)
    BY <1>2
  <2>2. j \in o[i].observed
    BY <2>1 DEF StampedBy, Isolated
  <2> QED BY <2>2 DEF StampedBy, StampsGrow
<1>3. o[i].stamp \in Nat /\ o[j].stamp \in Nat
  BY StampTypes
<1>4. i < j \/ j < i \/ i = j
  OBVIOUS
<1> QED BY <1>1, <1>2, <1>3, <1>4

\* A version that exceeds another is of a replica that has seen more.
LEMMA ExceedingSeesMore ==
    ASSUME NEW o, StampedBy(o), NEW S, NEW T, CausallyClosed(S, o), CausallyClosed(T, o),
           NEW u, u \in [Replica -> Nat], Versions(u, S, o),
           NEW v, v \in [Replica -> Nat], Versions(v, T, o),
           \A w \in Replica : u[w] >= v[w]
    PROVE  T \subseteq S
<1> SUFFICES ASSUME NEW j \in T PROVE j \in S
  OBVIOUS
<1> DEFINE w == o[j].by
<1>1. j \in 1..Len(o) /\ w \in Replica /\ j \in By(T, w, o)
  BY StampTypes DEF CausallyClosed, By, Replica
<1>2. o[j].stamp \in Nat /\ o[j].stamp >= 1 /\ o[j].stamp <= v[w]
  BY <1>1, StampTypes DEF Versions
<1>3. u[w] \in Nat /\ v[w] \in Nat /\ u[w] >= v[w]
  BY <1>1
<1>4. u[w] # 0
  BY <1>2, <1>3
<1>5. PICK i \in By(S, w, o) : o[i].stamp = u[w]
  BY <1>1, <1>4 DEF Versions
<1>6. i \in S /\ i \in 1..Len(o) /\ o[i].by = o[j].by
  BY DEF By, CausallyClosed
<1>7. ~ (i < j)
  <2> SUFFICES ASSUME i < j PROVE FALSE
    OBVIOUS
  <2>1. o[i].stamp < o[j].stamp
    BY <1>1, <1>6, StampsOrder
  <2> QED BY <2>1, <1>2, <1>3, <1>5
<1>8. CASE i = j
  BY <1>6, <1>8
<1>9. CASE j < i
  <2>1. j \in 1..(i - 1)
    BY <1>9, <1>6, <1>1
  <2>2. j \in o[i].observed
    BY <2>1, <1>6 DEF StampedBy, Isolated
  <2> QED BY <2>2, <1>6 DEF CausallyClosed
<1>10. i < j \/ i = j \/ j < i
  BY <1>1, <1>6
<1> QED BY <1>7, <1>8, <1>9, <1>10

\* The larger of two versions is that of the writes either has seen.
LEMMA VersionsMerge ==
    ASSUME NEW o, StampedBy(o), NEW S, NEW T, CausallyClosed(S, o), CausallyClosed(T, o),
           NEW u, u \in [Replica -> Nat], Versions(u, S, o),
           NEW v, v \in [Replica -> Nat], Versions(v, T, o)
    PROVE  MaxOf(u, v) \in [Replica -> Nat] /\ Versions(MaxOf(u, v), S \cup T, o)
<1> DEFINE m == MaxOf(u, v)
<1>1. m \in [Replica -> Nat] /\ \A w \in Replica : m[w] = Larger(u[w], v[w])
  BY LargerOne DEF MaxOf
<1> HIDE DEF m
<1>2. ASSUME NEW w \in Replica
      PROVE  /\ \A i \in By(S \cup T, w, o) : o[i].stamp <= m[w]
             /\ m[w] = 0 \/ \E i \in By(S \cup T, w, o) : o[i].stamp = m[w]
  <2>1. By(S \cup T, w, o) = By(S, w, o) \cup By(T, w, o)
    BY DEF By
  <2>2. u[w] \in Nat /\ v[w] \in Nat /\ m[w] = Larger(u[w], v[w])
    BY <1>1
  <2>3. ASSUME NEW i \in By(S \cup T, w, o) PROVE o[i].stamp <= m[w]
    <3>1. o[i].stamp \in Nat
      BY StampTypes DEF By, CausallyClosed
    <3>2. o[i].stamp <= u[w] \/ o[i].stamp <= v[w]
      BY <2>1 DEF Versions
    <3> QED BY <3>1, <3>2, <2>2 DEF Larger
  <2>4. CASE m[w] = u[w]
    BY <2>4, <2>1, <2>3 DEF Versions
  <2>5. CASE m[w] = v[w]
    BY <2>5, <2>1, <2>3 DEF Versions
  <2> QED BY <2>2, <2>4, <2>5 DEF Larger
<1> QED BY <1>1, <1>2 DEF Versions, m
-----------------------------------------------------------------------------
(* The order of stamps and writers is total, and of one update each.        *)
LEMMA PrecedesIsTotal ==
    ASSUME NEW s \in Nat, NEW a \in Replica, NEW t \in Nat, NEW b \in Replica,
           N \in Nat
    PROVE  /\ Precedes(s, a, t, b) \/ Precedes(t, b, s, a)
           /\ Precedes(s, a, t, b) /\ Precedes(t, b, s, a) => s = t /\ a = b
  BY DEF Precedes, Replica

\* The order of stamps and writers is transitive.
LEMMA PrecedesIsTransitive ==
    ASSUME NEW s \in Nat, NEW a \in Replica, NEW t \in Nat, NEW b \in Replica,
           NEW u \in Nat, NEW c \in Replica, N \in Nat,
           Precedes(s, a, t, b), Precedes(t, b, u, c)
    PROVE  Precedes(s, a, u, c)
  BY DEF Precedes, Replica

\* Only one update comes last.
LEMMA LatestIsOne ==
    ASSUME N \in Nat, NEW o, StampedBy(o), NEW S, CausallyClosed(S, o),
           NEW i \in S, Leads(i, S, o), NEW j \in S, Leads(j, S, o)
    PROVE  i = j
<1>1. i \in 1..Len(o) /\ j \in 1..Len(o)
  BY DEF CausallyClosed
<1>2. /\ o[i].stamp \in Nat /\ o[i].by \in Replica
      /\ o[j].stamp \in Nat /\ o[j].by \in Replica
  BY <1>1, StampTypes
<1>3. /\ Precedes(o[j].stamp, o[j].by, o[i].stamp, o[i].by)
      /\ Precedes(o[i].stamp, o[i].by, o[j].stamp, o[j].by)
  BY DEF Leads
<1>4. o[i].stamp = o[j].stamp /\ o[i].by = o[j].by
  BY <1>2, <1>3, PrecedesIsTotal
<1> QED BY <1>1, <1>4, StampsOrder

\* What has been seen determines the version.
LEMMA VersionsAreUnique ==
    ASSUME NEW o, StampedBy(o), NEW S, CausallyClosed(S, o),
           NEW u, u \in [Replica -> Nat], Versions(u, S, o),
           NEW v, v \in [Replica -> Nat], Versions(v, S, o)
    PROVE  u = v
<1>1. ASSUME NEW w \in Replica PROVE u[w] = v[w]
  <2>1. u[w] \in Nat /\ v[w] \in Nat
    OBVIOUS
  <2>2. u[w] <= v[w]
    <3>1. CASE u[w] = 0
      BY <3>1, <2>1
    <3>2. CASE u[w] # 0
      <4>1. PICK i \in By(S, w, o) : o[i].stamp = u[w]
        BY <3>2 DEF Versions
      <4> QED BY <4>1 DEF Versions
    <3> QED BY <3>1, <3>2
  <2>3. v[w] <= u[w]
    <3>1. CASE v[w] = 0
      BY <3>1, <2>1
    <3>2. CASE v[w] # 0
      <4>1. PICK i \in By(S, w, o) : o[i].stamp = v[w]
        BY <3>2 DEF Versions
      <4> QED BY <4>1 DEF Versions
    <3> QED BY <3>1, <3>2
  <2> QED BY <2>1, <2>2, <2>3
<1> QED BY <1>1

\* What has been seen determines the register.
LEMMA RegistersAreUnique ==
    ASSUME N \in Nat, NEW o, StampedBy(o), NEW S, CausallyClosed(S, o), NEW w,
           NEW x, RegisterOf(x, S, w, o), NEW y, RegisterOf(y, S, w, o)
    PROVE  x = y
<1>1. /\ x \in Register /\ y \in Register
      /\ x.version \in [Replica -> Nat] /\ y.version \in [Replica -> Nat]
  BY DEF RegisterOf, Register
<1>2. x.version = y.version
  BY <1>1, VersionsAreUnique DEF RegisterOf
<1>3. x.value = y.value /\ x.timestamp = y.timestamp /\ x.writer = y.writer
  <2>1. CASE S = {}
    BY <2>1 DEF RegisterOf
  <2>2. CASE S # {}
    <3>1. PICK i \in S : Holds(x, i, o) /\ Leads(i, S, o)
      BY <2>2 DEF RegisterOf
    <3>2. PICK j \in S : Holds(y, j, o) /\ Leads(j, S, o)
      BY <2>2 DEF RegisterOf
    <3>3. i = j
      BY <3>1, <3>2, LatestIsOne
    <3> QED BY <3>1, <3>2, <3>3 DEF Holds
  <2> QED BY <2>1, <2>2
<1> QED BY <1>1, <1>2, <1>3 DEF Register
-----------------------------------------------------------------------------
(* Whichever register a merge keeps, it is that of the latest update known. *)
Preferred(k, x, y) == IF Dominates(k, x, y) THEN x ELSE y

\* the registers of a merge: a blank one carries the larger writer
Winner(z, S, w, o) ==
    /\ S = {} => z.value = NullValue /\ z.timestamp = 0 /\ z.writer = w
    /\ S # {} => \E i \in S : Holds(z, i, o) /\ Leads(i, S, o)

\* Of the latest writes on two sides the later one leads both.
LEMMA LeadsBoth ==
    ASSUME N \in Nat, NEW o, StampedBy(o), NEW S, NEW T, CausallyClosed(S, o), CausallyClosed(T, o),
           NEW i \in S, Leads(i, S, o), NEW j \in T, Leads(j, T, o),
           Precedes(o[j].stamp, o[j].by, o[i].stamp, o[i].by)
    PROVE  Leads(i, S \cup T, o) /\ Leads(i, T \cup S, o)
<1>1. ASSUME NEW h \in T
      PROVE  Precedes(o[h].stamp, o[h].by, o[i].stamp, o[i].by)
  <2>1. /\ o[i].stamp \in Nat /\ o[i].by \in Replica
        /\ o[j].stamp \in Nat /\ o[j].by \in Replica
        /\ o[h].stamp \in Nat /\ o[h].by \in Replica
    <3>1. i \in 1..Len(o) /\ j \in 1..Len(o) /\ h \in 1..Len(o)
      BY DEF CausallyClosed
    <3> QED BY <3>1, StampTypes
  <2>2. Precedes(o[h].stamp, o[h].by, o[j].stamp, o[j].by)
    BY DEF Leads
  <2> QED BY <2>1, <2>2, PrecedesIsTransitive
<1> QED BY <1>1 DEF Leads

(* Of two registers nobody has written, a merge keeps the one of the       *)
(* larger writer.                                                          *)
LEMMA KeptBothBlank ==
    ASSUME N \in Nat, NEW k \in Registers, NEW o, NEW u \in Replica, NEW v \in Replica,
           NEW x, RegisterOf(x, {}, u, o), NEW y, RegisterOf(y, {}, v, o)
    PROVE  Winner(Preferred(k, x, y), {}, Larger(u, v), o)
<1>1. /\ x.version \in [Replica -> Nat] /\ y.version \in [Replica -> Nat]
  BY DEF RegisterOf, Register
<1>2. /\ \A w \in Replica : x.version[w] = 0
      /\ \A w \in Replica : y.version[w] = 0
  BY DEF RegisterOf, Versions, By
<1>3. x.version = y.version
  BY <1>1, <1>2
<1>4. /\ x.value = NullValue /\ x.timestamp = 0 /\ x.writer = u
      /\ y.value = NullValue /\ y.timestamp = 0 /\ y.writer = v
  BY DEF RegisterOf
<1>5. u \in Int /\ v \in Int
  BY DEF Replica
<1>6. ~ Exceeds(x.version, y.version)
  BY <1>3 DEF Exceeds
<1>7. NullValue \in Values \cup {NullValue}
  OBVIOUS
<1>8. Dominates(k, x, y) => u >= v
  BY <1>4, <1>5, <1>6 DEF Dominates, Later
<1>9. ~ Dominates(k, x, y) => v >= u
  BY <1>4, <1>5, <1>6 DEF Dominates, Later
<1>10. Preferred(k, x, y).writer = Larger(u, v)
  <2>1. CASE Dominates(k, x, y)
    <3>1. Preferred(k, x, y) = x
      BY <2>1 DEF Preferred
    <3>2. Larger(u, v) = u
      BY <2>1, <1>8 DEF Larger
    <3> QED BY <3>1, <3>2, <1>4
  <2>2. CASE ~ Dominates(k, x, y)
    <3>1. Preferred(k, x, y) = y
      BY <2>2 DEF Preferred
    <3>2. Larger(u, v) = v
      BY <2>2, <1>9, <1>5 DEF Larger
    <3> QED BY <3>1, <3>2, <1>4
  <2> QED BY <2>1, <2>2
<1>11. Preferred(k, x, y).value = NullValue /\ Preferred(k, x, y).timestamp = 0
  BY <1>4 DEF Preferred
<1> QED BY <1>10, <1>11 DEF Winner

\* A written register is kept before one that is not.
LEMMA KeptOneBlank ==
    ASSUME N \in Nat, NEW k \in Registers, NEW o, StampedBy(o),
           NEW S, CausallyClosed(S, o), S # {}, NEW u, NEW v, NEW w,
           NEW x, RegisterOf(x, S, u, o), NEW y, RegisterOf(y, {}, v, o)
    PROVE  Winner(Preferred(k, x, y), S, w, o) /\ Winner(Preferred(k, y, x), S, w, o)
<1>1. PICK i \in S : Holds(x, i, o) /\ Leads(i, S, o)
  BY DEF RegisterOf
<1>2. x.timestamp \in Nat /\ x.timestamp >= 1
  <2>1. i \in 1..Len(o)
    BY DEF CausallyClosed
  <2> QED BY <2>1, <1>1, StampTypes DEF Holds
<1>3. y.timestamp = 0
  BY DEF RegisterOf
<1>4. Dominates(k, x, y)
  BY <1>2, <1>3 DEF Dominates, Later
<1>5. ~ Exceeds(y.version, x.version)
  <2> SUFFICES ASSUME Exceeds(y.version, x.version) PROVE FALSE
    OBVIOUS
  <2>1. /\ x.version \in [Replica -> Nat] /\ y.version \in [Replica -> Nat]
        /\ Versions(x.version, S, o) /\ Versions(y.version, {}, o)
    BY DEF RegisterOf, Register
  <2>2. \A r \in Replica : y.version[r] >= x.version[r]
    BY DEF Exceeds
  <2>3. CausallyClosed({}, o)
    BY DEF CausallyClosed
  <2>4. S \subseteq {}
    BY <2>1, <2>2, <2>3, ExceedingSeesMore
  <2> QED BY <2>4
<1>6. ~ Later(y, x)
  BY <1>2, <1>3 DEF Later
<1>7. ~ Dominates(k, y, x)
  BY <1>5, <1>6 DEF Dominates
<1>8. Preferred(k, x, y) = x /\ Preferred(k, y, x) = x
  BY <1>4, <1>7 DEF Preferred
<1> QED BY <1>1, <1>8 DEF Winner

(* Of two written registers the one of the latest write is kept: a version *)
(* that exceeds the other belongs to a replica that has seen all the other *)
(* has.                                                                    *)
LEMMA KeptBothWritten ==
    ASSUME N \in Nat, NEW k \in Registers, NEW o, StampedBy(o),
           NEW S, NEW T, CausallyClosed(S, o), CausallyClosed(T, o), S # {}, T # {},
           NEW u, NEW v, NEW w,
           NEW x, RegisterOf(x, S, u, o), NEW y, RegisterOf(y, T, v, o)
    PROVE  Winner(Preferred(k, x, y), S \cup T, w, o)
<1>1. PICK i \in S : Holds(x, i, o) /\ Leads(i, S, o)
  BY DEF RegisterOf
<1>2. PICK j \in T : Holds(y, j, o) /\ Leads(j, T, o)
  BY DEF RegisterOf
<1>3. /\ x.timestamp = o[i].stamp /\ x.writer = o[i].by
      /\ y.timestamp = o[j].stamp /\ y.writer = o[j].by
      /\ x.timestamp \in Nat /\ y.timestamp \in Nat
      /\ x.writer \in Int /\ y.writer \in Int
  <2>1. i \in 1..Len(o) /\ j \in 1..Len(o)
    BY DEF CausallyClosed
  <2>2. /\ o[i].stamp \in Nat /\ o[i].by \in Replica
        /\ o[j].stamp \in Nat /\ o[j].by \in Replica
    BY <2>1, StampTypes
  <2> QED BY <1>1, <1>2, <2>2 DEF Holds, Replica
<1>4. CASE Dominates(k, x, y)
  <2>1. CASE Exceeds(x.version, y.version)
    <3>1. /\ x.version \in [Replica -> Nat] /\ y.version \in [Replica -> Nat]
          /\ Versions(x.version, S, o) /\ Versions(y.version, T, o)
      BY DEF RegisterOf, Register
    <3>2. \A r \in Replica : x.version[r] >= y.version[r]
      BY <2>1 DEF Exceeds
    <3>3. T \subseteq S
      BY <3>1, <3>2, ExceedingSeesMore
    <3>4. S \cup T = S
      BY <3>3
    <3> QED BY <3>4, <1>1, <1>4 DEF Winner, Preferred
  <2>2. CASE Later(x, y)
    <3>1. Precedes(y.timestamp, y.writer, x.timestamp, x.writer)
      BY <2>2, <1>3 DEF Later, Precedes
    <3>2. Leads(i, S \cup T, o)
      BY <3>1, <1>1, <1>2, <1>3, LeadsBoth
    <3>3. Preferred(k, x, y) = x
      BY <1>4 DEF Preferred
    <3> QED BY <3>2, <3>3, <1>1 DEF Winner
  <2> QED BY <1>4, <2>1, <2>2 DEF Dominates
<1>5. CASE ~ Dominates(k, x, y)
  <2>1. ~ Later(x, y)
    BY <1>5 DEF Dominates
  <2>2. Precedes(x.timestamp, x.writer, y.timestamp, y.writer)
    BY <2>1, <1>3 DEF Later, Precedes
  <2>3. Leads(j, S \cup T, o)
    BY <2>2, <1>1, <1>2, <1>3, LeadsBoth
  <2>4. Preferred(k, x, y) = y
    BY <1>5 DEF Preferred
  <2> QED BY <2>3, <2>4, <1>2 DEF Winner
<1> QED BY <1>4, <1>5

\* A merge of registers is the register of the writes either side has seen.
LEMMA RegistersMerge ==
    ASSUME N \in Nat, NEW k \in Registers, NEW o, StampedBy(o),
           NEW S, NEW T, CausallyClosed(S, o), CausallyClosed(T, o),
           NEW u \in Replica, NEW v \in Replica,
           NEW x, RegisterOf(x, S, u, o), NEW y, RegisterOf(y, T, v, o)
    PROVE  RegisterOf(MergeRegisters(k, x, y), S \cup T, Larger(u, v), o)
<1> DEFINE z == Preferred(k, x, y)
           m == MergeRegisters(k, x, y)
<1>1. Winner(z, S \cup T, Larger(u, v), o)
  <2>1. CASE S = {} /\ T = {}
    <3>1. Winner(z, {}, Larger(u, v), o)
      BY <2>1, KeptBothBlank
    <3> QED BY <2>1, <3>1
  <2>2. CASE S # {} /\ T = {}
    <3>1. Winner(z, S, Larger(u, v), o)
      BY <2>2, KeptOneBlank
    <3> QED BY <2>2, <3>1
  <2>3. CASE S = {} /\ T # {}
    <3>1. Winner(z, T, Larger(u, v), o)
      BY <2>3, KeptOneBlank
    <3> QED BY <2>3, <3>1
  <2>4. CASE S # {} /\ T # {}
    BY <2>4, KeptBothWritten
  <2> QED BY <2>1, <2>2, <2>3, <2>4
<1>2. x \in Register /\ y \in Register /\ z \in Register
  BY DEF RegisterOf, Preferred
<1>3. /\ MaxOf(x.version, y.version) \in [Replica -> Nat]
      /\ Versions(MaxOf(x.version, y.version), S \cup T, o)
  <2>1. /\ x.version \in [Replica -> Nat] /\ y.version \in [Replica -> Nat]
        /\ Versions(x.version, S, o) /\ Versions(y.version, T, o)
    BY DEF RegisterOf, Register
  <2> QED BY <2>1, VersionsMerge
<1>4. m = [value |-> z.value, timestamp |-> z.timestamp, writer |-> z.writer,
           version |-> MaxOf(x.version, y.version)]
  BY DEF MergeRegisters, Preferred
<1> HIDE DEF m, z
<1>5. m \in Register /\ m.version = MaxOf(x.version, y.version)
  BY <1>2, <1>3, <1>4 DEF Register
<1>6. m.value = z.value /\ m.timestamp = z.timestamp /\ m.writer = z.writer
  BY <1>4
<1>7. RegisterOf(m, S \cup T, Larger(u, v), o)
  BY <1>1, <1>3, <1>5, <1>6 DEF RegisterOf, Winner, Holds
<1> QED BY <1>7 DEF m
-----------------------------------------------------------------------------
(* A new write, later than all that its replica has seen.                   *)
LEMMA RegisterStays ==
    ASSUME NEW o, NEW o2, Continues(o, o2), NEW S, Among(S, Len(o)),
           NEW w, NEW x, RegisterOf(x, S, w, o)
    PROVE  RegisterOf(x, S, w, o2)
<1>1. \A i \in S : o2[i] = o[i]
  BY DEF Continues, Among
<1>2. Versions(x.version, S, o2)
  <2>1. \A r \in Replica : By(S, r, o2) = By(S, r, o)
    BY <1>1 DEF By
  <2>2. \A r \in Replica : \A i \in By(S, r, o) : o2[i].stamp = o[i].stamp
    BY <1>1 DEF By
  <2>3. Versions(x.version, S, o)
    BY DEF RegisterOf
  <2> QED BY <2>1, <2>2, <2>3 DEF Versions
<1>3. \A i \in S : /\ Holds(x, i, o) => Holds(x, i, o2)
                   /\ Leads(i, S, o) => Leads(i, S, o2)
  BY <1>1 DEF Holds, Leads
<1> QED BY <1>2, <1>3 DEF RegisterOf

\* A write whose stamp is later than the register is the latest of all seen.
LEMMA RegisterWritten ==
    ASSUME N \in Nat, NEW o, StampedBy(o), NEW o2, Continues(o, o2),
           NEW S, CausallyClosed(S, o), NEW w, NEW x, RegisterOf(x, S, w, o),
           NEW r \in Replica, NEW e \in Values, NEW t \in Nat, t > x.timestamp,
           o2[Len(o) + 1].by = r, o2[Len(o) + 1].stamp = t,
           o2[Len(o) + 1].element = e
    PROVE  RegisterOf([value |-> e, timestamp |-> t, writer |-> r,
                       version |-> [x.version EXCEPT ![r] = Larger(@, t)]],
                      S \cup {Len(o) + 1}, w, o2)
<1> DEFINE n == Len(o)
           S2 == S \cup {n + 1}
           u == [x.version EXCEPT ![r] = Larger(@, t)]
           y == [value |-> e, timestamp |-> t, writer |-> r, version |-> u]
<1>1. /\ \A i \in S : o2[i] = o[i]
      /\ n \in Nat /\ n + 1 \notin S
  BY DEF Continues, CausallyClosed
<1>2. /\ x.version \in [Replica -> Nat] /\ x.timestamp \in Nat
      /\ Versions(x.version, S, o)
  BY DEF RegisterOf, Register
<1>3. /\ u \in [Replica -> Nat] /\ u[r] = Larger(x.version[r], t)
      /\ \A q \in Replica : q # r => u[q] = x.version[q]
  BY <1>2, LargerOne
<1>4. \A i \in S : o[i].stamp \in Nat /\ o[i].stamp < t
  <2> SUFFICES ASSUME NEW i \in S PROVE o[i].stamp \in Nat /\ o[i].stamp < t
    OBVIOUS
  <2>1. PICK j \in S : Holds(x, j, o) /\ Leads(j, S, o)
    BY DEF RegisterOf
  <2>2. Precedes(o[i].stamp, o[i].by, x.timestamp, o[j].by)
    BY <2>1 DEF Leads, Holds
  <2>3. o[i].stamp \in Nat
    BY StampTypes DEF CausallyClosed
  <2> QED BY <2>2, <2>3, <1>2 DEF Precedes
<1>5. Leads(n + 1, S2, o2)
  <2> SUFFICES ASSUME NEW j \in S2
               PROVE  Precedes(o2[j].stamp, o2[j].by, t, r)
    BY DEF Leads
  <2>1. CASE j = n + 1
    BY <2>1 DEF Precedes, Replica
  <2>2. CASE j \in S
    BY <2>2, <1>1, <1>4 DEF Precedes
  <2> QED BY <2>1, <2>2
<1>6. y \in Register
  BY <1>3 DEF Register
<1>7. ASSUME NEW q \in Replica
      PROVE  /\ \A i \in By(S2, q, o2) : o2[i].stamp <= u[q]
             /\ u[q] = 0 \/ \E i \in By(S2, q, o2) : o2[i].stamp = u[q]
  <2> HIDE DEF u, n
  <2>1. \A i \in By(S, q, o) : i \in By(S2, q, o2) /\ o2[i].stamp = o[i].stamp
    BY <1>1 DEF By
  <2>2. \A i \in By(S2, q, o2) : i \in By(S, q, o) \/ (q = r /\ i = n + 1)
    BY <1>1 DEF By, n
  <2>3. x.version[q] \in Nat
    BY <1>2
  <2>4. /\ \A i \in By(S, q, o) : o[i].stamp <= x.version[q]
        /\ x.version[q] = 0 \/ \E i \in By(S, q, o) : o[i].stamp = x.version[q]
    BY <1>2 DEF Versions
  <2>5. CASE q # r
    <3>1. u[q] = x.version[q]
      BY <2>5, <1>3
    <3> QED BY <3>1, <2>1, <2>2, <2>4, <2>5
  <2>6. CASE q = r
    <3>1. u[q] = Larger(x.version[q], t)
      BY <2>6, <1>3
    <3>2. n + 1 \in By(S2, q, o2) /\ o2[n + 1].stamp = t
      BY <2>6 DEF By, n
    <3>3. \A i \in By(S, q, o) : o[i].stamp \in Nat
      BY <1>4 DEF By
    <3>4. ASSUME NEW i \in By(S2, q, o2) PROVE o2[i].stamp <= u[q]
      <4>1. CASE i = n + 1
        BY <4>1, <3>1, <3>2, <2>3 DEF Larger
      <4>2. CASE i \in By(S, q, o)
        <5>1. o2[i].stamp \in Nat /\ o2[i].stamp <= x.version[q]
          BY <4>2, <2>1, <2>4, <3>3
        <5> QED BY <5>1, <3>1, <2>3 DEF Larger
      <4> QED BY <4>1, <4>2, <2>2
    <3>5. u[q] = t \/ u[q] = x.version[q]
      BY <3>1 DEF Larger
    <3>6. CASE u[q] = t
      BY <3>6, <3>2, <3>4
    <3>7. CASE u[q] = x.version[q]
      BY <3>7, <2>1, <2>4, <3>4
    <3> QED BY <3>5, <3>6, <3>7
  <2> QED BY <2>5, <2>6
<1>8. Versions(u, S2, o2)
  BY <1>7 DEF Versions
<1>9. /\ y.version = u /\ y.value = e /\ y.timestamp = t /\ y.writer = r
      /\ n + 1 \in S2 /\ S2 # {}
  OBVIOUS
<1> HIDE DEF y, u, S2
<1>10. Holds(y, n + 1, o2)
  BY <1>9 DEF Holds, n
<1>11. RegisterOf(y, S2, w, o2)
  BY <1>5, <1>6, <1>8, <1>9, <1>10 DEF RegisterOf
<1> QED BY <1>11 DEF y, u, S2
-----------------------------------------------------------------------------
(* A replica's state is what the updates it has seen, S, make of it.        *)
CounterOf(x, S, o) == x = [counts |-> x.counts] /\ Counts(x.counts, S, Gain(o), o)

BalanceOf(x, S, o) ==
    /\ x = [positive |-> x.positive, negative |-> x.negative]
    /\ Counts(x.positive, S, Gain(o), o)
    /\ Counts(x.negative, S, Loss(o), o)

Faithful(k, x, S, w, o) ==
    /\ k = "GCounter" => CounterOf(x, S, o)
    /\ k = "PNCounter" => BalanceOf(x, S, o)
    /\ k = "GSet" => SetOf(x, S, o)
    /\ k = "ORSet" => TaggedSetOf(x, S, o)
    /\ k \in Registers => RegisterOf(x, S, w, o)

\* The replicated types, one by one.
LEMMA KindsAreSix ==
    ASSUME NEW k \in Kinds
    PROVE  /\ k = "GCounter" \/ k = "PNCounter" \/ k = "GSet" \/ k = "ORSet" \/ k \in Registers
           /\ k \in Registers => k # "GCounter" /\ k # "PNCounter" /\ k # "GSet" /\ k # "ORSet"
  BY DEF Kinds, Registers

\* What faithful means for each type.
LEMMA FaithfulOf ==
    ASSUME NEW x, NEW S, NEW w, NEW o
    PROVE  /\ Faithful("GCounter", x, S, w, o) <=> CounterOf(x, S, o)
           /\ Faithful("PNCounter", x, S, w, o) <=> BalanceOf(x, S, o)
           /\ Faithful("GSet", x, S, w, o) <=> SetOf(x, S, o)
           /\ Faithful("ORSet", x, S, w, o) <=> TaggedSetOf(x, S, o)
           /\ \A k \in Registers : Faithful(k, x, S, w, o) <=> RegisterOf(x, S, w, o)
  BY DEF Faithful, Registers

\* What a merge is for each type.
LEMMA MergeOf ==
    ASSUME NEW x, NEW y
    PROVE  /\ Merge("GCounter", x, y) = [counts |-> MaxOf(x.counts, y.counts)]
           /\ Merge("PNCounter", x, y) = [positive |-> MaxOf(x.positive, y.positive),
                                          negative |-> MaxOf(x.negative, y.negative)]
           /\ Merge("GSet", x, y) = [elements |-> x.elements \cup y.elements]
           /\ Merge("ORSet", x, y) = MergeORSets(x, y)
  BY DEF Merge, Registers

\* What a merge of registers is.
LEMMA MergeOfRegisters ==
    ASSUME NEW k \in Registers, NEW x, NEW y
    PROVE  Merge(k, x, y) = MergeRegisters(k, x, y)
  BY DEF Merge, Registers

\* What a history of each type is.
LEMMA HistoryOf ==
    ASSUME NEW k, NEW o, History(k, o)
    PROVE  /\ o \in Seq(UpdateOf(k)) /\ Isolated(o) /\ Len(o) \in Nat /\ DOMAIN o = 1..Len(o)
           /\ k = "ORSet" => TagsGrow(o)
           /\ k \in Registers => StampedBy(o)
<1>1. o \in Seq(UpdateOf(k)) /\ Isolated(o)
  BY DEF History
<1>2. Len(o) \in Nat /\ DOMAIN o = 1..Len(o)
  BY <1>1
<1>3. k \in Registers => UpdateOf(k) = Stamping
  BY UpdatesOfKinds
<1> QED BY <1>1, <1>2, <1>3 DEF History, StampedBy

\* Amounts are integers, those of a grow-only counter positive.
LEMMA GainsAreNatural ==
    ASSUME NEW k \in {"GCounter", "PNCounter"}, NEW o, History(k, o)
    PROVE  /\ \A i \in 1..Len(o) : o[i].amount \in Int
           /\ k = "GCounter" => \A i \in 1..Len(o) : o[i].amount > 0
           /\ Gain(o) \in [1..Len(o) -> Nat] /\ Loss(o) \in [1..Len(o) -> Nat]
<1>1. \A i \in 1..Len(o) : o[i] \in UpdateOf(k)
  BY HistoryOf
<1>2. CASE k = "GCounter"
  <2>1. \A i \in 1..Len(o) : o[i] \in Count(Nat \ {0})
    BY <1>1, <1>2, UpdatesOfKinds
  <2>2. \A i \in 1..Len(o) : o[i].amount \in Nat \ {0}
    BY <2>1 DEF Count
  <2> QED BY <2>2, <1>2 DEF Gain, Loss
<1>3. CASE k = "PNCounter"
  <2>1. \A i \in 1..Len(o) : o[i] \in Count(Int)
    BY <1>1, <1>3, UpdatesOfKinds
  <2>2. \A i \in 1..Len(o) : o[i].amount \in Int
    BY <2>1 DEF Count
  <2> QED BY <2>2, <1>3 DEF Gain, Loss
<1> QED BY <1>2, <1>3

(* A merge is faithful to what either side has seen.                        *)
LEMMA FaithfulMerge ==
    ASSUME N \in Nat, NEW k \in Kinds, NEW o, History(k, o),
           NEW S, NEW T, CausallyClosed(S, o), CausallyClosed(T, o),
           NEW u \in Replica, NEW v \in Replica,
           NEW x, Faithful(k, x, S, u, o), NEW y, Faithful(k, y, T, v, o)
    PROVE  Faithful(k, Merge(k, x, y), S \cup T, Larger(u, v), o)
<1> DEFINE w == Larger(u, v)
           m == Merge(k, x, y)
           U == S \cup T
<1>1. Isolated(o) /\ Len(o) \in Nat /\ o \in Seq(UpdateOf(k))
  BY HistoryOf
<1>2. CASE k = "GCounter"
  <2>1. Gain(o) \in [1..Len(o) -> Nat]
    BY <1>2, GainsAreNatural
  <2>2. Counts(x.counts, S, Gain(o), o) /\ Counts(y.counts, T, Gain(o), o)
    BY <1>2, FaithfulOf DEF CounterOf
  <2>3. Counts(MaxOf(x.counts, y.counts), U, Gain(o), o)
    BY <1>1, <2>1, <2>2, CountsMerge
  <2>4. m = [counts |-> MaxOf(x.counts, y.counts)]
    BY <1>2, MergeOf
  <2>5. CounterOf(m, U, o)
    BY <2>3, <2>4 DEF CounterOf
  <2> QED BY <1>2, <2>5, FaithfulOf
<1>3. CASE k = "PNCounter"
  <2>1. Gain(o) \in [1..Len(o) -> Nat] /\ Loss(o) \in [1..Len(o) -> Nat]
    BY <1>3, GainsAreNatural
  <2>2. /\ Counts(x.positive, S, Gain(o), o) /\ Counts(y.positive, T, Gain(o), o)
        /\ Counts(x.negative, S, Loss(o), o) /\ Counts(y.negative, T, Loss(o), o)
    BY <1>3, FaithfulOf DEF BalanceOf
  <2>3. Counts(MaxOf(x.positive, y.positive), U, Gain(o), o)
    BY <1>1, <2>1, <2>2, CountsMerge
  <2>4. Counts(MaxOf(x.negative, y.negative), U, Loss(o), o)
    BY <1>1, <2>1, <2>2, CountsMerge
  <2>5. m = [positive |-> MaxOf(x.positive, y.positive),
             negative |-> MaxOf(x.negative, y.negative)]
    BY <1>3, MergeOf
  <2>6. BalanceOf(m, U, o)
    BY <2>3, <2>4, <2>5 DEF BalanceOf
  <2> QED BY <1>3, <2>6, FaithfulOf
<1>4. CASE k = "GSet"
  <2>1. SetOf(x, S, o) /\ SetOf(y, T, o)
    BY <1>4, FaithfulOf
  <2>2. SetOf(m, U, o)
    BY <2>1, <1>4, MergeOf, SetsMerge
  <2> QED BY <1>4, <2>2, FaithfulOf
<1>5. CASE k = "ORSet"
  <2>1. TaggedSetOf(x, S, o) /\ TaggedSetOf(y, T, o)
    BY <1>5, FaithfulOf
  <2>2. TaggedSetOf(MergeORSets(x, y), U, o)
    BY <2>1, <1>1, <1>5, TaggedSetsMerge
  <2>3. TaggedSetOf(m, U, o)
    BY <2>2, <1>5, MergeOf
  <2> QED BY <1>5, <2>3, FaithfulOf
<1>6. CASE k \in Registers
  <2>1. RegisterOf(x, S, u, o) /\ RegisterOf(y, T, v, o)
    BY <1>6, FaithfulOf
  <2>2. StampedBy(o)
    BY <1>6, HistoryOf
  <2>3. RegisterOf(MergeRegisters(k, x, y), U, w, o)
    BY <2>1, <2>2, <1>6, RegistersMerge
  <2>4. m = MergeRegisters(k, x, y)
    BY <1>6, MergeOfRegisters
  <2> HIDE DEF m, U, w
  <2>5. RegisterOf(m, U, w, o)
    BY <2>3, <2>4 DEF U, w
  <2> QED BY <1>6, <2>5, FaithfulOf DEF m, U, w
<1> QED BY <1>2, <1>3, <1>4, <1>5, <1>6, KindsAreSix

(* What has been seen determines what is hashed.                            *)
LEMMA FaithfulIsOne ==
    ASSUME N \in Nat, NEW k \in Kinds, NEW o, History(k, o), NEW S, CausallyClosed(S, o), NEW w,
           NEW x, Faithful(k, x, S, w, o), NEW y, Faithful(k, y, S, w, o)
    PROVE  State(k, x) = State(k, y)
<1>1. CASE k = "GCounter"
  <2>1. CounterOf(x, S, o) /\ CounterOf(y, S, o)
    BY <1>1, FaithfulOf
  <2>2. x.counts = y.counts
    BY <2>1, CountsAreUnique DEF CounterOf
  <2>3. x = y
    BY <2>1, <2>2 DEF CounterOf
  <2> QED BY <2>3
<1>2. CASE k = "PNCounter"
  <2>1. BalanceOf(x, S, o) /\ BalanceOf(y, S, o)
    BY <1>2, FaithfulOf
  <2>2. x.positive = y.positive
    BY <2>1, CountsAreUnique DEF BalanceOf
  <2>3. x.negative = y.negative
    BY <2>1, CountsAreUnique DEF BalanceOf
  <2>4. x = y
    BY <2>1, <2>2, <2>3 DEF BalanceOf
  <2> QED BY <2>4
<1>3. CASE k = "GSet"
  <2>1. SetOf(x, S, o) /\ SetOf(y, S, o)
    BY <1>3, FaithfulOf
  <2> QED BY <2>1 DEF SetOf
<1>4. CASE k = "ORSet"
  <2>1. TaggedSetOf(x, S, o) /\ TaggedSetOf(y, S, o)
    BY <1>4, FaithfulOf
  <2>2. x.adds = y.adds /\ x.removed = y.removed
    BY <2>1 DEF TaggedSetOf
  <2> QED BY <2>2, <1>4 DEF State
<1>5. CASE k \in Registers
  <2>1. RegisterOf(x, S, w, o) /\ RegisterOf(y, S, w, o)
    BY <1>5, FaithfulOf
  <2>2. StampedBy(o)
    BY <1>5, HistoryOf
  <2>3. x = y
    BY <2>1, <2>2, RegistersAreUnique
  <2> QED BY <2>3
<1> QED BY <1>1, <1>2, <1>3, <1>4, <1>5, KindsAreSix

(* The laws hold of faithful states: the sets seen obey them.               *)
LEMMA MergeIsLawful ==
    ASSUME N \in Nat, NEW k \in Kinds, NEW o, History(k, o),
           NEW S, NEW T, NEW U, CausallyClosed(S, o), CausallyClosed(T, o), CausallyClosed(U, o),
           NEW u \in Replica, NEW v \in Replica, NEW w \in Replica,
           NEW x, Faithful(k, x, S, u, o), NEW y, Faithful(k, y, T, v, o),
           NEW z, Faithful(k, z, U, w, o)
    PROVE  /\ Idempotent(k, x) /\ Commutes(k, x, y) /\ Absorbs(k, x, y)
           /\ Associates(k, x, y, z)
<1> DEFINE xy == Merge(k, x, y)
           yz == Merge(k, y, z)
<1>1. \A a, b \in Replica : /\ Larger(a, b) \in Replica /\ Larger(a, b) = Larger(b, a)
                            /\ Larger(a, a) = a /\ Larger(Larger(a, b), b) = Larger(a, b)
  BY DEF Larger, Replica
<1>2. Larger(Larger(u, v), w) = Larger(u, Larger(v, w))
  BY DEF Larger, Replica
<1>3. /\ CausallyClosed(S \cup T, o)
      /\ CausallyClosed(T \cup U, o)
      /\ CausallyClosed(S \cup T \cup U, o)
  BY DEF CausallyClosed
<1>4. Faithful(k, xy, S \cup T, Larger(u, v), o)
  BY FaithfulMerge
<1>5. Faithful(k, yz, T \cup U, Larger(v, w), o)
  BY FaithfulMerge
<1> HIDE DEF xy, yz
<1>6. Idempotent(k, x)
  <2>1. Faithful(k, Merge(k, x, x), S \cup S, Larger(u, u), o)
    BY FaithfulMerge
  <2>2. Faithful(k, Merge(k, x, x), S, u, o)
    BY <2>1, <1>1
  <2>3. State(k, Merge(k, x, x)) = State(k, x)
    BY <2>2, FaithfulIsOne
  <2> QED BY <2>3 DEF Idempotent
<1>7. Commutes(k, x, y)
  <2>1. Faithful(k, Merge(k, y, x), T \cup S, Larger(v, u), o)
    BY FaithfulMerge
  <2>2. T \cup S = S \cup T /\ Larger(v, u) = Larger(u, v)
    BY <1>1
  <2>3. Faithful(k, Merge(k, y, x), S \cup T, Larger(u, v), o)
    BY <2>1, <2>2
  <2>4. State(k, xy) = State(k, Merge(k, y, x))
    BY <2>3, <1>3, <1>4, FaithfulIsOne
  <2> QED BY <2>4 DEF Commutes, xy
<1>8. Absorbs(k, x, y)
  <2>1. Faithful(k, Merge(k, xy, y), (S \cup T) \cup T, Larger(Larger(u, v), v), o)
    BY <1>1, <1>3, <1>4, FaithfulMerge
  <2>2. (S \cup T) \cup T = S \cup T /\ Larger(Larger(u, v), v) = Larger(u, v)
    BY <1>1
  <2>3. Faithful(k, Merge(k, xy, y), S \cup T, Larger(u, v), o)
    BY <2>1, <2>2
  <2>4. State(k, Merge(k, xy, y)) = State(k, xy)
    BY <2>3, <1>3, <1>4, FaithfulIsOne
  <2> QED BY <2>4 DEF Absorbs, xy
<1>9. Associates(k, x, y, z)
  <2>1. Faithful(k, Merge(k, xy, z), (S \cup T) \cup U, Larger(Larger(u, v), w), o)
    BY <1>1, <1>3, <1>4, FaithfulMerge
  <2>2. Faithful(k, Merge(k, x, yz), S \cup (T \cup U), Larger(u, Larger(v, w)), o)
    BY <1>1, <1>3, <1>5, FaithfulMerge
  <2>3. S \cup (T \cup U) = S \cup T \cup U
    OBVIOUS
  <2>4. Faithful(k, Merge(k, x, yz), S \cup T \cup U, Larger(Larger(u, v), w), o)
    BY <2>2, <2>3, <1>2
  <2>5. State(k, Merge(k, xy, z)) = State(k, Merge(k, x, yz))
    BY <2>1, <2>4, <1>3, FaithfulIsOne
  <2> QED BY <2>5 DEF Associates, xy, yz
<1> QED BY <1>6, <1>7, <1>8, <1>9
-----------------------------------------------------------------------------
FaithfulTo(r) == \E w \in Replica : Faithful(kind, rep[r], seen[r], w, ops)

\* the callers of a register pass only timestamps later than the one it has
StampsAdvance == kind \in Registers => ~ StampsMayLag

RepInv ==
    /\ StampsAdvance
    /\ kind \in Kinds /\ members \subseteq Replica
    /\ DOMAIN rep = Replica /\ seen \in [Replica -> SUBSET Nat]
    /\ History(kind, ops)
    /\ \A i \in 1..Len(ops) : i \in seen[ops[i].by]
    /\ \A r \in Replica : CausallyClosed(seen[r], ops) /\ FaithfulTo(r)

\* A new replica is what no update makes of it.
LEMMA NothingSeen ==
    ASSUME NEW k \in Kinds, NEW r \in Replica
    PROVE  Faithful(k, Empty(k, r), {}, r, <<>>)
<1>1. Len(<<>>) \in Nat
  OBVIOUS
<1>2. CASE k = "GCounter"
  <2>1. Empty(k, r) = [counts |-> Zero]
    BY <1>2 DEF Empty, Registers
  <2>2. CounterOf([counts |-> Zero], {}, <<>>)
    BY <1>1, CountsOfNone DEF CounterOf
  <2> QED BY <1>2, <2>1, <2>2, FaithfulOf
<1>3. CASE k = "PNCounter"
  <2>1. Empty(k, r) = [positive |-> Zero, negative |-> Zero]
    BY <1>3 DEF Empty, Registers
  <2>2. BalanceOf([positive |-> Zero, negative |-> Zero], {}, <<>>)
    BY <1>1, CountsOfNone DEF BalanceOf
  <2> QED BY <1>3, <2>1, <2>2, FaithfulOf
<1>4. CASE k = "GSet"
  <2>1. Empty(k, r) = [elements |-> {}]
    BY <1>4 DEF Empty, Registers
  <2>2. SetOf([elements |-> {}], {}, <<>>)
    BY DEF SetOf
  <2> QED BY <1>4, <2>1, <2>2, FaithfulOf
<1>5. CASE k = "ORSet"
  <2>1. Empty(k, r) = [adds |-> {}, removed |-> {}, counter |-> 0]
    BY <1>5 DEF Empty, Registers
  <2>2. TaggedSetOf([adds |-> {}, removed |-> {}, counter |-> 0], {}, <<>>)
    BY DEF TaggedSetOf, Adds, Dead, TaggedIn, TagsIn
  <2> QED BY <1>5, <2>1, <2>2, FaithfulOf
<1>6. CASE k \in Registers
  <2> DEFINE x == [value |-> NullValue, timestamp |-> 0, writer |-> r, version |-> Zero]
  <2>1. Empty(k, r) = x
    BY <1>6 DEF Empty, Registers
  <2>2. Zero \in [Replica -> Nat] /\ \A w \in Replica : Zero[w] = 0
    BY DEF Zero
  <2>3. x \in Register
    BY <2>2 DEF Register
  <2>4. Versions(Zero, {}, <<>>)
    BY <2>2 DEF Versions, By
  <2>5. x.version = Zero /\ x.value = NullValue /\ x.timestamp = 0 /\ x.writer = r
    OBVIOUS
  <2> HIDE DEF x
  <2>6. RegisterOf(x, {}, r, <<>>)
    BY <2>3, <2>4, <2>5 DEF RegisterOf
  <2> QED BY <1>6, <2>1, <2>6, FaithfulOf
<1> QED BY <1>2, <1>3, <1>4, <1>5, <1>6, KindsAreSix

\* Initially nothing has been seen.
LEMMA RepInvInit == ReplicasAssumption /\ Init /\ StampsAdvance => RepInv
<1> SUFFICES ASSUME ReplicasAssumption, Init, StampsAdvance PROVE RepInv
  OBVIOUS
<1>1. /\ kind \in Kinds /\ members \subseteq Replica
      /\ DOMAIN rep = Replica /\ seen \in [Replica -> SUBSET Nat]
  BY DEF Init
<1>2. ops = <<>> /\ Len(ops) = 0 /\ ops \in Seq(UpdateOf(kind))
  BY DEF Init
<1>3. History(kind, ops)
  BY <1>2 DEF History, Isolated, TagsGrow, StampsGrow
<1>4. ASSUME NEW r \in Replica PROVE CausallyClosed(seen[r], ops) /\ FaithfulTo(r)
  <2>1. seen[r] = {} /\ rep[r] = Empty(kind, r)
    BY DEF Init
  <2>2. Faithful(kind, rep[r], seen[r], r, ops)
    BY <1>1, <1>2, <2>1, NothingSeen
  <2> QED BY <2>1, <2>2 DEF CausallyClosed, FaithfulTo
<1> QED BY <1>1, <1>2, <1>3, <1>4 DEF RepInv
-----------------------------------------------------------------------------
\* A new update changes no earlier gain or loss.
LEMMA GainsStay ==
    ASSUME NEW o, NEW o2, Continues(o, o2)
    PROVE  SameTerms(Gain(o2), Gain(o), Len(o)) /\ SameTerms(Loss(o2), Loss(o), Len(o))
  BY DEF Continues, SameTerms, Gain, Loss

\* Another replica's update leaves a replica faithful to what it has seen.
LEMMA FaithfulStays ==
    ASSUME NEW k \in Kinds, NEW o, NEW o2, Continues(o, o2), NEW S, CausallyClosed(S, o),
           NEW w, NEW x, Faithful(k, x, S, w, o)
    PROVE  Faithful(k, x, S, w, o2)
<1>1. S \subseteq 1..Len(o) /\ Among(S, Len(o))
  BY DEF CausallyClosed, Among
<1>2. CASE k = "GCounter"
  <2>1. CounterOf(x, S, o)
    BY <1>2, FaithfulOf
  <2>2. Counts(x.counts, S, Gain(o2), o2)
    BY <2>1, <1>1, GainsStay, CountsStay DEF CounterOf
  <2> QED BY <1>2, <2>1, <2>2, FaithfulOf DEF CounterOf
<1>3. CASE k = "PNCounter"
  <2>1. BalanceOf(x, S, o)
    BY <1>3, FaithfulOf
  <2>2. Counts(x.positive, S, Gain(o2), o2)
    BY <2>1, <1>1, GainsStay, CountsStay DEF BalanceOf
  <2>3. Counts(x.negative, S, Loss(o2), o2)
    BY <2>1, <1>1, GainsStay, CountsStay DEF BalanceOf
  <2> QED BY <1>3, <2>1, <2>2, <2>3, FaithfulOf DEF BalanceOf
<1>4. CASE k = "GSet"
  BY <1>1, <1>4, FaithfulOf, SetStays
<1>5. CASE k = "ORSet"
  BY <1>1, <1>5, FaithfulOf, TaggedSetStays
<1>6. CASE k \in Registers
  BY <1>1, <1>6, FaithfulOf, RegisterStays
<1> QED BY <1>2, <1>3, <1>4, <1>5, <1>6, KindsAreSix

\* What an update adds to the history of its replica.
NewTo(k, S, o, r, op) ==
    /\ op \in UpdateOf(k) /\ op.by = r /\ op.observed = S
    /\ k = "ORSet" /\ Own(op) =>
          /\ op.tag[1] = r
          /\ \A j \in S : Own(o[j]) => o[j].tag[2] < op.tag[2]
    /\ k \in Registers => \A j \in S : o[j].stamp < op.stamp

\* The history with a new update of r is a history.
LEMMA HistoryGrows ==
    ASSUME NEW k \in Kinds, NEW o, History(k, o), NEW S, CausallyClosed(S, o),
           NEW r \in Replica, \A i \in 1..Len(o) : o[i].by = r => i \in S,
           NEW op, NewTo(k, S, o, r, op)
    PROVE  History(k, Append(o, op))
<1> DEFINE n == Len(o)
           o2 == Append(o, op)
<1>1. /\ o \in Seq(UpdateOf(k)) /\ n \in Nat /\ Isolated(o)
      /\ op \in UpdateOf(k) /\ op.by = r /\ op.observed = S
  BY HistoryOf DEF NewTo
<1>2. /\ o2 \in Seq(UpdateOf(k)) /\ Len(o2) = n + 1 /\ o2[n + 1] = op
      /\ \A i \in 1..n : o2[i] = o[i]
  BY <1>1
<1>3. S \subseteq 1..n
  BY DEF CausallyClosed
<1> HIDE DEF o2, n
<1>4. Isolated(o2)
  <2> SUFFICES ASSUME NEW i \in 1..(n + 1)
               PROVE  /\ o2[i].by \in Replica
                      /\ o2[i].observed \subseteq 1..(i - 1)
                      /\ \A j \in 1..(i - 1) : o2[j].by = o2[i].by => j \in o2[i].observed
    BY <1>2 DEF Isolated
  <2>1. CASE i = n + 1
    <3>1. i - 1 = n
      BY <2>1, <1>1 DEF n
    <3> QED BY <2>1, <3>1, <1>1, <1>2, <1>3 DEF n
  <2>2. CASE i \in 1..n
    <3>1. \A j \in 1..(i - 1) : j \in 1..n
      BY <2>2, <1>1
    <3>2. o2[i] = o[i] /\ \A j \in 1..(i - 1) : o2[j] = o[j]
      BY <2>2, <3>1, <1>2
    <3> QED BY <2>2, <3>2, <1>1 DEF Isolated, n
  <2> QED BY <2>1, <2>2, <1>1
<1>5. ASSUME NEW i \in 1..(n + 1) PROVE \A j \in o2[i].observed : o2[j] = o[j]
  <2>1. o2[i].observed \subseteq 1..(i - 1)
    BY <1>2, <1>4 DEF Isolated
  <2>2. 1..(i - 1) \subseteq 1..n
    BY <1>1
  <2> QED BY <2>1, <2>2, <1>2
<1>6. ASSUME k = "ORSet" PROVE TagsGrow(o2)
  <2>1. TagsGrow(o)
    BY <1>6, HistoryOf
  <2> SUFFICES ASSUME NEW i \in 1..(n + 1), Own(o2[i])
               PROVE  /\ o2[i].tag[1] = o2[i].by
                      /\ \A j \in o2[i].observed :
                            Own(o2[j]) => o2[j].tag[2] < o2[i].tag[2]
    BY <1>2 DEF TagsGrow
  <2>2. CASE i = n + 1
    BY <2>2, <1>1, <1>2, <1>5, <1>6 DEF NewTo
  <2>3. CASE i \in 1..n
    BY <2>1, <2>3, <1>2, <1>5 DEF TagsGrow, n
  <2> QED BY <2>2, <2>3, <1>1
<1>7. ASSUME k \in Registers PROVE StampsGrow(o2)
  <2>1. StampsGrow(o)
    BY <1>7, HistoryOf DEF StampedBy
  <2> SUFFICES ASSUME NEW i \in 1..(n + 1)
               PROVE  \A j \in o2[i].observed : o2[j].stamp < o2[i].stamp
    BY <1>2 DEF StampsGrow
  <2>2. CASE i = n + 1
    BY <2>2, <1>1, <1>2, <1>5, <1>7 DEF NewTo
  <2>3. CASE i \in 1..n
    BY <2>1, <2>3, <1>2, <1>5 DEF StampsGrow, n
  <2> QED BY <2>2, <2>3, <1>1
<1> QED BY <1>2, <1>4, <1>6, <1>7 DEF History, o2

\* An update whose result is faithful to one update more keeps the invariant.
LEMMA UpdatedKeeps ==
    ASSUME ReplicasAssumption, RepInv, NEW r \in Replica, NEW x, NEW op,
           Updated(r, x, op), UNCHANGED kind,
           NewTo(kind, seen[r], ops, r, op),
           \A w \in Replica : Faithful(kind, rep[r], seen[r], w, ops)
               => Faithful(kind, x, seen[r] \cup {Len(ops) + 1}, w, Append(ops, op))
    PROVE  RepInv'
<1> DEFINE n == Len(ops)
<1>1. /\ kind \in Kinds /\ members \subseteq Replica
      /\ DOMAIN rep = Replica /\ seen \in [Replica -> SUBSET Nat]
      /\ History(kind, ops)
      /\ \A q \in Replica : CausallyClosed(seen[q], ops) /\ FaithfulTo(q)
      /\ \A i \in 1..n : i \in seen[ops[i].by]
  BY DEF RepInv
<1>2. ops \in Seq(UpdateOf(kind)) /\ n \in Nat /\ Isolated(ops)
  BY <1>1, HistoryOf
<1>3. /\ pass = NoPass /\ pass' = pass /\ members' = members /\ kind' = kind
      /\ rep' = [rep EXCEPT ![r] = x] /\ ops' = Append(ops, op)
      /\ seen' = [seen EXCEPT ![r] = @ \cup {n + 1}]
  BY DEF Updated
<1>4. /\ DOMAIN rep' = Replica /\ rep'[r] = x
      /\ \A q \in Replica : q # r => rep'[q] = rep[q]
  BY <1>1, <1>3
<1>5. /\ seen' \in [Replica -> SUBSET Nat] /\ seen'[r] = seen[r] \cup {n + 1}
      /\ \A q \in Replica : q # r => seen'[q] = seen[q]
      /\ \A q \in Replica : seen[q] \subseteq seen'[q]
  BY <1>1, <1>2, <1>3
<1>6. /\ Len(ops') = n + 1 /\ ops'[n + 1] = op /\ \A i \in 1..n : ops'[i] = ops[i]
      /\ Continues(ops, ops')
  <2>1. op \in UpdateOf(kind)
    BY DEF NewTo
  <2>2. Len(ops') = n + 1 /\ ops'[n + 1] = op /\ \A i \in 1..n : ops'[i] = ops[i]
    BY <2>1, <1>2, <1>3
  <2> QED BY <2>2, <1>2 DEF Continues
<1>7. op.by = r /\ op.observed = seen[r]
  BY DEF NewTo
<1>8. History(kind, ops')
  <2>1. \A i \in 1..Len(ops) : ops[i].by = r => i \in seen[r]
    BY <1>1
  <2> QED BY <2>1, <1>1, <1>3, HistoryGrows
<1> HIDE DEF n
<1>9. \A i \in 1..(n + 1) : i \in seen'[ops'[i].by]
  <2> SUFFICES ASSUME NEW i \in 1..(n + 1) PROVE i \in seen'[ops'[i].by]
    OBVIOUS
  <2>1. CASE i = n + 1
    BY <2>1, <1>5, <1>6, <1>7
  <2>2. CASE i \in 1..n
    <3>1. ops[i].by \in Replica /\ i \in seen[ops[i].by]
      BY <2>2, <1>1, <1>2 DEF Isolated, n
    <3> QED BY <2>2, <3>1, <1>5, <1>6
  <2> QED BY <2>1, <2>2, <1>2 DEF n
<1>10. ASSUME NEW q \in Replica
       PROVE  /\ CausallyClosed(seen'[q], ops')
              /\ \E w \in Replica : Faithful(kind, rep'[q], seen'[q], w, ops')
  <2>1. CausallyClosed(seen[q], ops) /\ CausallyClosed(seen[q], ops')
    <3>1. CausallyClosed(seen[q], ops)
      BY <1>1
    <3> QED BY <3>1, <1>2, <1>6 DEF CausallyClosed, n
  <2>2. PICK w \in Replica : Faithful(kind, rep[q], seen[q], w, ops)
    BY <1>1 DEF FaithfulTo
  <2>3. CASE q = r
    <3>1. CausallyClosed(seen'[q], ops')
      BY <2>1, <2>3, <1>2, <1>5, <1>6, <1>7 DEF CausallyClosed, n
    <3>2. Faithful(kind, x, seen[r] \cup {Len(ops) + 1}, w, Append(ops, op))
      BY <2>2, <2>3
    <3> QED BY <3>1, <3>2, <2>3, <1>3, <1>4, <1>5 DEF n
  <2>4. CASE q # r
    <3>1. Faithful(kind, rep[q], seen[q], w, ops')
      BY <2>1, <2>2, <1>1, <1>6, FaithfulStays
    <3> QED BY <3>1, <2>1, <2>4, <1>4, <1>5
  <2> QED BY <2>3, <2>4
<1>11. \A q \in Replica : CausallyClosed(seen'[q], ops') /\ FaithfulTo(q)'
  BY <1>3, <1>10 DEF FaithfulTo
<1>12. /\ History(kind', ops') /\ kind' \in Kinds /\ members' \subseteq Replica
       /\ StampsAdvance'
  BY <1>1, <1>3, <1>8 DEF RepInv, StampsAdvance
<1>13. \A i \in 1..Len(ops') : i \in seen'[ops'[i].by]
  BY <1>6, <1>9
<1> QED BY <1>4, <1>5, <1>11, <1>12, <1>13 DEF RepInv
-----------------------------------------------------------------------------
\* Counters: the writer's own count grows, the other total stays.
LEMMA CountsUp ==
    ASSUME NEW o, NEW o2, Continues(o, o2), NEW S, CausallyClosed(S, o),
           NEW f, NEW g, SameTerms(g, f, Len(o)),
           NEW c, Counts(c, S, f, o), NEW m \in Nat, g[Len(o) + 1] = m,
           NEW r \in Replica, o2[Len(o) + 1].by = r
    PROVE  Counts([c EXCEPT ![r] = @ + m], S \cup {Len(o) + 1}, g, o2)
<1>1. S \subseteq 1..Len(o)
  BY DEF CausallyClosed
<1>2. g[Len(o) + 1] \in Nat
  OBVIOUS
<1>3. Counts([c EXCEPT ![r] = @ + g[Len(o) + 1]], S \cup {Len(o) + 1}, g, o2)
  BY <1>1, <1>2, CountsStep
<1> QED BY <1>3

\* An update that weighs nothing changes no count.
LEMMA CountsLevel ==
    ASSUME NEW o, NEW o2, Continues(o, o2), NEW S, CausallyClosed(S, o),
           NEW f, NEW g, SameTerms(g, f, Len(o)),
           NEW c, Counts(c, S, f, o), g[Len(o) + 1] = 0,
           NEW r \in Replica, o2[Len(o) + 1].by = r
    PROVE  Counts(c, S \cup {Len(o) + 1}, g, o2)
<1>1. Counts([c EXCEPT ![r] = @ + 0], S \cup {Len(o) + 1}, g, o2)
  BY CountsUp
<1>2. c \in [Replica -> Nat]
  BY DEF Counts
<1>3. [c EXCEPT ![r] = @ + 0] = c
  BY <1>2
<1> QED BY <1>1, <1>3

\* What the next update gains or loses.
LEMMA NextGain ==
    ASSUME NEW o, NEW o2, Continues(o, o2), NEW m \in Nat
    PROVE  /\ o2[Len(o) + 1].amount = m => Gain(o2)[Len(o) + 1] = m
           /\ o2[Len(o) + 1].amount = m => Loss(o2)[Len(o) + 1] = 0 \/ m = 0
           /\ o2[Len(o) + 1].amount = -m => Loss(o2)[Len(o) + 1] = m
           /\ o2[Len(o) + 1].amount = -m => Gain(o2)[Len(o) + 1] = 0
  BY DEF Continues, Gain, Loss

\* increment() of a grow-only counter counts one update more.
LEMMA CounterStep ==
    ASSUME NEW o, NEW o2, Continues(o, o2), NEW S, CausallyClosed(S, o),
           NEW x, CounterOf(x, S, o), NEW m \in Nat, NEW r \in Replica,
           o2[Len(o) + 1].by = r, o2[Len(o) + 1].amount = m
    PROVE  CounterOf([counts |-> [x.counts EXCEPT ![r] = @ + m]],
                     S \cup {Len(o) + 1}, o2)
<1>1. Counts(x.counts, S, Gain(o), o)
  BY DEF CounterOf
<1>2. Gain(o2)[Len(o) + 1] = m
  BY NextGain
<1>3. Counts([x.counts EXCEPT ![r] = @ + m], S \cup {Len(o) + 1}, Gain(o2), o2)
  BY <1>1, <1>2, GainsStay, CountsUp
<1> QED BY <1>3 DEF CounterOf

Balance(p, n) == [positive |-> p, negative |-> n]

Plus(c, r, m) == [c EXCEPT ![r] = @ + m]
Raised(x, r, m) == [x EXCEPT !.positive[r] = @ + m]
Lowered(x, r, m) == [x EXCEPT !.negative[r] = @ + m]

\* What an update makes of the two halves of a counter.
LEMMA BalanceChanges ==
    ASSUME NEW p \in [Replica -> Nat], NEW n \in [Replica -> Nat],
           NEW r \in Replica, NEW m \in Nat
    PROVE  /\ Raised(Balance(p, n), r, m) = Balance(Plus(p, r, m), n)
           /\ Lowered(Balance(p, n), r, m) = Balance(p, Plus(n, r, m))
  BY DEF Balance, Raised, Lowered, Plus

\* increment() of an up-down counter counts one update more.
LEMMA BalanceUp ==
    ASSUME NEW o, NEW o2, Continues(o, o2), NEW S, CausallyClosed(S, o),
           NEW x, BalanceOf(x, S, o), NEW m \in Nat, m # 0, NEW r \in Replica,
           o2[Len(o) + 1].by = r, o2[Len(o) + 1].amount = m
    PROVE  BalanceOf([x EXCEPT !.positive[r] = @ + m], S \cup {Len(o) + 1}, o2)
<1>1. /\ Counts(x.positive, S, Gain(o), o) /\ Counts(x.negative, S, Loss(o), o)
      /\ x = Balance(x.positive, x.negative)
  BY DEF BalanceOf, Balance
<1>2. x.positive \in [Replica -> Nat] /\ x.negative \in [Replica -> Nat]
  BY <1>1 DEF Counts
<1>3. Gain(o2)[Len(o) + 1] = m /\ Loss(o2)[Len(o) + 1] = 0
  BY NextGain
<1>4. Counts([x.positive EXCEPT ![r] = @ + m], S \cup {Len(o) + 1}, Gain(o2), o2)
  BY <1>1, <1>3, GainsStay, CountsUp
<1>5. Counts(x.negative, S \cup {Len(o) + 1}, Loss(o2), o2)
  BY <1>1, <1>3, GainsStay, CountsLevel
<1>6. [x EXCEPT !.positive[r] = @ + m]
         = Balance([x.positive EXCEPT ![r] = @ + m], x.negative)
  <2> DEFINE p == x.positive
             n == x.negative
  <2>1. x = Balance(p, n) /\ p \in [Replica -> Nat] /\ n \in [Replica -> Nat]
    BY <1>1, <1>2
  <2> HIDE DEF p, n
  <2>2. /\ Raised(x, r, m) = Balance(Plus(p, r, m), n)
        /\ Lowered(x, r, m) = Balance(p, Plus(n, r, m))
    BY <2>1, BalanceChanges
  <2> QED BY <2>2 DEF p, n, Raised, Lowered, Plus
<1> QED BY <1>4, <1>5, <1>6 DEF BalanceOf, Balance

\* decrement() of an up-down counter counts one update more.
LEMMA BalanceDown ==
    ASSUME NEW o, NEW o2, Continues(o, o2), NEW S, CausallyClosed(S, o),
           NEW x, BalanceOf(x, S, o), NEW m \in Nat, m # 0, NEW r \in Replica,
           o2[Len(o) + 1].by = r, o2[Len(o) + 1].amount = -m
    PROVE  BalanceOf([x EXCEPT !.negative[r] = @ + m], S \cup {Len(o) + 1}, o2)
<1>1. /\ Counts(x.positive, S, Gain(o), o) /\ Counts(x.negative, S, Loss(o), o)
      /\ x = Balance(x.positive, x.negative)
  BY DEF BalanceOf, Balance
<1>2. x.positive \in [Replica -> Nat] /\ x.negative \in [Replica -> Nat]
  BY <1>1 DEF Counts
<1>3. Gain(o2)[Len(o) + 1] = 0 /\ Loss(o2)[Len(o) + 1] = m
  BY NextGain
<1>4. Counts([x.negative EXCEPT ![r] = @ + m], S \cup {Len(o) + 1}, Loss(o2), o2)
  BY <1>1, <1>3, GainsStay, CountsUp
<1>5. Counts(x.positive, S \cup {Len(o) + 1}, Gain(o2), o2)
  BY <1>1, <1>3, GainsStay, CountsLevel
<1>6. [x EXCEPT !.negative[r] = @ + m]
         = Balance(x.positive, [x.negative EXCEPT ![r] = @ + m])
  <2> DEFINE p == x.positive
             n == x.negative
  <2>1. x = Balance(p, n) /\ p \in [Replica -> Nat] /\ n \in [Replica -> Nat]
    BY <1>1, <1>2
  <2> HIDE DEF p, n
  <2>2. /\ Raised(x, r, m) = Balance(Plus(p, r, m), n)
        /\ Lowered(x, r, m) = Balance(p, Plus(n, r, m))
    BY <2>1, BalanceChanges
  <2> QED BY <2>2 DEF p, n, Raised, Lowered, Plus
<1> QED BY <1>4, <1>5, <1>6 DEF BalanceOf, Balance
-----------------------------------------------------------------------------
\* The history after an update.
LEMMA Recorded ==
    ASSUME RepInv, NEW op, NEW T, T = UpdateOf(kind), op \in T
    PROVE  /\ Continues(ops, Append(ops, op)) /\ Append(ops, op)[Len(ops) + 1] = op
           /\ Len(Append(ops, op)) = Len(ops) + 1
<1>1. ops \in Seq(UpdateOf(kind)) /\ Len(ops) \in Nat
  BY HistoryOf DEF RepInv
<1> QED BY <1>1 DEF Continues

\* What a replica has seen are updates of the history.
LEMMA SeenBy ==
    ASSUME RepInv, NEW r \in Replica
    PROVE  /\ CausallyClosed(seen[r], ops) /\ Among(seen[r], Len(ops)) /\ seen[r] \in SUBSET Nat
           /\ Len(ops) \in Nat /\ kind \in Kinds /\ History(kind, ops)
<1>1. CausallyClosed(seen[r], ops) /\ seen[r] \in SUBSET Nat /\ kind \in Kinds /\ History(kind, ops)
  BY DEF RepInv
<1>2. Len(ops) \in Nat
  BY <1>1, HistoryOf
<1> QED BY <1>1, <1>2 DEF CausallyClosed, Among

\* increment() of a grow-only counter keeps the invariant.
LEMMA IncrementGKeeps ==
    ASSUME ReplicasAssumption, RepInv, NEW r \in Replica, NEW n \in Amounts,
           IncrementG(r, n)
    PROVE  RepInv'
<1> DEFINE op == Counted(r, n)
           x == [counts |-> [rep[r].counts EXCEPT ![r] = @ + n]]
<1>1. kind = "GCounter" /\ Updated(r, x, op) /\ UNCHANGED kind
  BY DEF IncrementG, Updated
<1>2. n \in Nat \ {0}
  BY DEF ReplicasAssumption
<1>3. op \in UpdateOf(kind) /\ op.by = r /\ op.observed = seen[r] /\ op.amount = n
  BY <1>1, <1>2, SeenBy, UpdatesOfKinds DEF Counted, Count
<1> HIDE DEF op
<1>4. NewTo(kind, seen[r], ops, r, op)
  BY <1>1, <1>3 DEF NewTo, Registers
<1>5. ASSUME NEW w \in Replica, Faithful(kind, rep[r], seen[r], w, ops)
      PROVE  Faithful(kind, x, seen[r] \cup {Len(ops) + 1}, w, Append(ops, op))
  <2>1. CounterOf(rep[r], seen[r], ops)
    BY <1>1, <1>5, FaithfulOf
  <2>2. /\ Continues(ops, Append(ops, op)) /\ Append(ops, op)[Len(ops) + 1] = op
        /\ CausallyClosed(seen[r], ops)
    BY <1>3, Recorded, SeenBy
  <2>3. CounterOf(x, seen[r] \cup {Len(ops) + 1}, Append(ops, op))
    BY <2>1, <2>2, <1>2, <1>3, CounterStep
  <2> QED BY <2>3, <1>1, FaithfulOf
<1> HIDE DEF x
<1> QED BY <1>1, <1>4, <1>5, UpdatedKeeps

\* increment() of an up-down counter keeps the invariant.
LEMMA IncrementPNKeeps ==
    ASSUME ReplicasAssumption, RepInv, NEW r \in Replica, NEW n \in Amounts,
           IncrementPN(r, n)
    PROVE  RepInv'
<1> DEFINE op == Counted(r, n)
           x == [rep[r] EXCEPT !.positive[r] = @ + n]
<1>1. kind = "PNCounter" /\ Updated(r, x, op) /\ UNCHANGED kind
  BY DEF IncrementPN, Updated
<1>2. n \in Nat /\ n # 0
  BY DEF ReplicasAssumption
<1>3. op \in UpdateOf(kind) /\ op.by = r /\ op.observed = seen[r] /\ op.amount = n
  <2>1. op \in Count(Int)
    BY <1>2, SeenBy DEF Counted, Count
  <2> QED BY <2>1, <1>1, UpdatesOfKinds DEF Counted
<1> HIDE DEF op
<1>4. NewTo(kind, seen[r], ops, r, op)
  BY <1>1, <1>3 DEF NewTo, Registers
<1>5. ASSUME NEW w \in Replica, Faithful(kind, rep[r], seen[r], w, ops)
      PROVE  Faithful(kind, x, seen[r] \cup {Len(ops) + 1}, w, Append(ops, op))
  <2>1. BalanceOf(rep[r], seen[r], ops)
    BY <1>1, <1>5, FaithfulOf
  <2>2. /\ Continues(ops, Append(ops, op)) /\ Append(ops, op)[Len(ops) + 1] = op
        /\ CausallyClosed(seen[r], ops)
    BY <1>3, Recorded, SeenBy
  <2>3. BalanceOf(x, seen[r] \cup {Len(ops) + 1}, Append(ops, op))
    BY <2>1, <2>2, <1>2, <1>3, BalanceUp
  <2> QED BY <2>3, <1>1, FaithfulOf
<1> HIDE DEF x
<1> QED BY <1>1, <1>4, <1>5, UpdatedKeeps

\* decrement() keeps the invariant.
LEMMA DecrementKeeps ==
    ASSUME ReplicasAssumption, RepInv, NEW r \in Replica, NEW n \in Amounts,
           Decrement(r, n)
    PROVE  RepInv'
<1> DEFINE op == Counted(r, -n)
           x == [rep[r] EXCEPT !.negative[r] = @ + n]
<1>1. kind = "PNCounter" /\ Updated(r, x, op) /\ UNCHANGED kind
  BY DEF Decrement, Updated
<1>2. n \in Nat /\ n # 0
  BY DEF ReplicasAssumption
<1>3. op \in UpdateOf(kind) /\ op.by = r /\ op.observed = seen[r] /\ op.amount = -n
  <2>1. op \in Count(Int)
    BY <1>2, SeenBy DEF Counted, Count
  <2> QED BY <2>1, <1>1, UpdatesOfKinds DEF Counted
<1> HIDE DEF op
<1>4. NewTo(kind, seen[r], ops, r, op)
  BY <1>1, <1>3 DEF NewTo, Registers
<1>5. ASSUME NEW w \in Replica, Faithful(kind, rep[r], seen[r], w, ops)
      PROVE  Faithful(kind, x, seen[r] \cup {Len(ops) + 1}, w, Append(ops, op))
  <2>1. BalanceOf(rep[r], seen[r], ops)
    BY <1>1, <1>5, FaithfulOf
  <2>2. /\ Continues(ops, Append(ops, op)) /\ Append(ops, op)[Len(ops) + 1] = op
        /\ CausallyClosed(seen[r], ops)
    BY <1>3, Recorded, SeenBy
  <2>3. BalanceOf(x, seen[r] \cup {Len(ops) + 1}, Append(ops, op))
    BY <2>1, <2>2, <1>2, <1>3, BalanceDown
  <2> QED BY <2>3, <1>1, FaithfulOf
<1> HIDE DEF x
<1> QED BY <1>1, <1>4, <1>5, UpdatedKeeps

\* add() to a grow-only set keeps the invariant.
LEMMA AddGKeeps ==
    ASSUME ReplicasAssumption, RepInv, NEW r \in Replica, NEW e \in Elements,
           AddG(r, e)
    PROVE  RepInv'
<1> DEFINE op == Edited("add", r, e)
           x == [elements |-> rep[r].elements \cup {e}]
<1>1. kind = "GSet" /\ Updated(r, x, op) /\ UNCHANGED kind
  BY DEF AddG, Updated
<1>2. op \in UpdateOf(kind) /\ op.by = r /\ op.observed = seen[r] /\ op.element = e
  BY <1>1, SeenBy, UpdatesOfKinds DEF Edited, Edit
<1> HIDE DEF op
<1>3. NewTo(kind, seen[r], ops, r, op)
  BY <1>1, <1>2 DEF NewTo, Registers
<1>4. ASSUME NEW w \in Replica, Faithful(kind, rep[r], seen[r], w, ops)
      PROVE  Faithful(kind, x, seen[r] \cup {Len(ops) + 1}, w, Append(ops, op))
  <2>1. SetOf(rep[r], seen[r], ops)
    BY <1>1, <1>4, FaithfulOf
  <2>2. /\ Continues(ops, Append(ops, op)) /\ Append(ops, op)[Len(ops) + 1] = op
        /\ Among(seen[r], Len(ops))
    BY <1>2, Recorded, SeenBy
  <2>3. SetOf(x, seen[r] \cup {Len(ops) + 1}, Append(ops, op))
    BY <2>1, <2>2, <1>2, SetStep
  <2> QED BY <2>3, <1>1, FaithfulOf
<1> HIDE DEF x
<1> QED BY <1>1, <1>3, <1>4, UpdatedKeeps

\* add() to an observed-remove set keeps the invariant: the tag is new.
LEMMA AddORKeeps ==
    ASSUME ReplicasAssumption, RepInv, NEW r \in Replica, NEW e \in Elements,
           AddOR(r, e)
    PROVE  RepInv'
<1> DEFINE op == Tagged(r, e, NextTag(r), TRUE)
           x == [rep[r] EXCEPT !.adds = @ \cup {<<e, NextTag(r)>>}, !.counter = @ + 1]
           o2 == Append(ops, op)
<1>1. kind = "ORSet" /\ Updated(r, x, op) /\ UNCHANGED kind
  BY DEF AddOR, Updated
<1>2. TaggedSetOf(rep[r], seen[r], ops)
  BY <1>1, FaithfulOf DEF RepInv, FaithfulTo
<1>3. /\ rep[r].counter \in Nat
      /\ rep[r] = Sets(rep[r].adds, rep[r].removed, rep[r].counter)
  BY <1>2 DEF TaggedSetOf, Sets
<1>4. NextTag(r) \in Replica \X Nat /\ NextTag(r) = <<r, rep[r].counter + 1>>
  BY <1>3 DEF NextTag
<1>5. op \in Tagging
  BY <1>4, SeenBy DEF Tagged, Tagging
<1>6. /\ op \in UpdateOf(kind) /\ op.by = r /\ op.observed = seen[r] /\ op.what = "add"
      /\ op.element = e /\ op.tag = <<r, rep[r].counter + 1>>
  BY <1>1, <1>4, <1>5, UpdatesOfKinds DEF Tagged
<1> HIDE DEF op
<1>7. ASSUME NEW j \in seen[r], Own(ops[j]) PROVE ops[j].tag[2] < op.tag[2]
  <2>1. j \in 1..Len(ops) /\ ops \in Seq(UpdateOf("ORSet"))
    BY <1>1, SeenBy, HistoryOf DEF CausallyClosed
  <2>2. ops[j].tag[2] \in Nat
    BY <2>1, <1>7, TagsAreNumbered
  <2>3. ops[j].tag[2] <= rep[r].counter
    BY <1>2, <1>7 DEF TaggedSetOf
  <2> QED BY <2>2, <2>3, <1>3, <1>6
<1>8. NewTo(kind, seen[r], ops, r, op)
  BY <1>1, <1>6, <1>7 DEF NewTo, Registers
<1>9. /\ Continues(ops, o2) /\ o2[Len(ops) + 1] = op /\ Among(seen[r], Len(ops))
  BY <1>6, Recorded, SeenBy
<1>10. o2 \in Seq(UpdateOf("ORSet")) /\ Isolated(o2)
  <2>1. \A i \in 1..Len(ops) : ops[i].by = r => i \in seen[r]
    BY DEF RepInv
  <2>2. History(kind, o2)
    BY <2>1, <1>8, SeenBy, HistoryGrows
  <2> QED BY <2>2, <1>1, HistoryOf
<1> HIDE DEF o2
<1>11. x = Sets(rep[r].adds \cup {<<e, NextTag(r)>>}, rep[r].removed, rep[r].counter + 1)
  <2> DEFINE A == rep[r].adds
             R == rep[r].removed
             c == rep[r].counter
             D == {<<e, NextTag(r)>>}
  <2>1. x = Adding(rep[r], D) /\ rep[r] = Sets(A, R, c)
    BY <1>3 DEF Adding
  <2> HIDE DEF A, R, c, D, x
  <2>2. x = Sets(A \cup D, R, c + 1)
    BY <2>1, AddingToSets
  <2> QED BY <2>2 DEF A, R, c, D
<1> DEFINE c2 == rep[r].counter + 1
<1>12. /\ c2 \in Nat /\ rep[r].counter <= c2
       /\ NextTag(r)[2] <= c2
  BY <1>3, <1>4
<1> HIDE DEF x
<1>13. TaggedSetOf(x, seen[r] \cup {Len(ops) + 1}, o2)
  <2>1. /\ o2[Len(ops) + 1].what = "add" /\ o2[Len(ops) + 1].element = e
        /\ o2[Len(ops) + 1].tag = NextTag(r)
    BY <1>4, <1>6, <1>9
  <2>2. x = Sets(rep[r].adds \cup {<<e, NextTag(r)>>}, rep[r].removed, c2)
    BY <1>11
  <2> HIDE DEF c2
  <2> QED BY <2>1, <2>2, <1>2, <1>9, <1>10, <1>12, TaggedSetAdds
<1>14. \A w \in Replica : Faithful(kind, x, seen[r] \cup {Len(ops) + 1}, w, Append(ops, op))
  BY <1>1, <1>13, FaithfulOf DEF o2
<1> QED BY <1>1, <1>8, <1>14, UpdatedKeeps

\* add() under a tag of the caller keeps the invariant.
LEMMA AddTaggedKeeps ==
    ASSUME ReplicasAssumption, RepInv, NEW r \in Replica, NEW e \in Elements,
           NEW t \in Tags, AddTagged(r, e, t)
    PROVE  RepInv'
<1> DEFINE op == Tagged(r, e, t, FALSE)
           x == [rep[r] EXCEPT !.adds = @ \cup {<<e, t>>}]
           o2 == Append(ops, op)
<1>1. kind = "ORSet" /\ Updated(r, x, op) /\ UNCHANGED kind
  BY DEF AddTagged, Updated
<1>2. TaggedSetOf(rep[r], seen[r], ops)
  BY <1>1, FaithfulOf DEF RepInv, FaithfulTo
<1>3. /\ rep[r].counter \in Nat
      /\ rep[r] = Sets(rep[r].adds, rep[r].removed, rep[r].counter)
  BY <1>2 DEF TaggedSetOf, Sets
<1>4. op \in Tagging
  BY SeenBy DEF Tagged, Tagging
<1>5. /\ op \in UpdateOf(kind) /\ op.by = r /\ op.observed = seen[r] /\ op.what = "add"
      /\ op.element = e /\ op.tag = t /\ ~ Own(op)
  BY <1>1, <1>4, UpdatesOfKinds DEF Tagged, Own
<1> HIDE DEF op
<1>6. NewTo(kind, seen[r], ops, r, op)
  BY <1>1, <1>5 DEF NewTo, Registers
<1>7. /\ Continues(ops, o2) /\ o2[Len(ops) + 1] = op /\ Among(seen[r], Len(ops))
  BY <1>5, Recorded, SeenBy
<1>8. o2 \in Seq(UpdateOf("ORSet")) /\ Isolated(o2)
  <2>1. \A i \in 1..Len(ops) : ops[i].by = r => i \in seen[r]
    BY DEF RepInv
  <2>2. History(kind, o2)
    BY <2>1, <1>6, SeenBy, HistoryGrows
  <2> QED BY <2>2, <1>1, HistoryOf
<1> HIDE DEF o2
<1>9. x = Sets(rep[r].adds \cup {<<e, t>>}, rep[r].removed, rep[r].counter)
  <2> DEFINE A == rep[r].adds
             R == rep[r].removed
             c == rep[r].counter
             D == {<<e, t>>}
  <2>1. x = AddingTo(rep[r], D) /\ rep[r] = Sets(A, R, c)
    BY <1>3 DEF AddingTo
  <2> HIDE DEF A, R, c, D, x
  <2>2. x = Sets(A \cup D, R, c)
    BY <2>1, AddingTagged
  <2> QED BY <2>2 DEF A, R, c, D
<1> HIDE DEF x
<1>10. TaggedSetOf(x, seen[r] \cup {Len(ops) + 1}, o2)
  <2> DEFINE c2 == rep[r].counter
  <2>1. /\ c2 \in Nat /\ rep[r].counter <= c2
        /\ x = Sets(rep[r].adds \cup {<<e, t>>}, rep[r].removed, c2)
    BY <1>3, <1>9
  <2>2. /\ o2[Len(ops) + 1].what = "add" /\ o2[Len(ops) + 1].element = e
        /\ o2[Len(ops) + 1].tag = t /\ ~ Own(o2[Len(ops) + 1])
    BY <1>5, <1>7
  <2> HIDE DEF c2
  <2> QED BY <2>1, <2>2, <1>2, <1>7, <1>8, TaggedSetAdds
<1>11. \A w \in Replica : Faithful(kind, x, seen[r] \cup {Len(ops) + 1}, w, Append(ops, op))
  BY <1>1, <1>10, FaithfulOf DEF o2
<1> QED BY <1>1, <1>6, <1>11, UpdatedKeeps

\* remove() keeps the invariant.
LEMMA RemoveORKeeps ==
    ASSUME ReplicasAssumption, RepInv, NEW r \in Replica, NEW e \in Elements,
           RemoveOR(r, e)
    PROVE  RepInv'
<1> DEFINE op == Edited("remove", r, e)
           x == [rep[r] EXCEPT !.removed = @ \cup TagsOf(rep[r], e)]
<1>1. kind = "ORSet" /\ Updated(r, x, op) /\ UNCHANGED kind
  BY DEF RemoveOR, Updated, TagsOf
<1>2. op \in Edit("remove")
  BY SeenBy DEF Edited, Edit
<1>3. /\ op \in UpdateOf(kind) /\ op.by = r /\ op.observed = seen[r]
      /\ op.what = "remove" /\ op.element = e
  BY <1>1, <1>2, UpdatesOfKinds DEF Edited
<1> HIDE DEF op
<1>4. NewTo(kind, seen[r], ops, r, op)
  BY <1>1, <1>3 DEF NewTo, Registers, Own
<1>5. ASSUME NEW w \in Replica, Faithful(kind, rep[r], seen[r], w, ops)
      PROVE  Faithful(kind, x, seen[r] \cup {Len(ops) + 1}, w, Append(ops, op))
  <2>1. TaggedSetOf(rep[r], seen[r], ops)
    BY <1>1, <1>5, FaithfulOf
  <2>2. /\ Continues(ops, Append(ops, op)) /\ Append(ops, op)[Len(ops) + 1] = op
        /\ Among(seen[r], Len(ops))
    BY <1>3, Recorded, SeenBy
  <2>3. TaggedSetOf(x, seen[r] \cup {Len(ops) + 1}, Append(ops, op))
    BY <2>1, <2>2, <1>3, TaggedSetRemoves
  <2> QED BY <2>3, <1>1, FaithfulOf
<1> HIDE DEF x
<1> QED BY <1>1, <1>4, <1>5, UpdatedKeeps

\* set() keeps the invariant, if its stamp is later than the register.
LEMMA SetKeeps ==
    ASSUME ReplicasAssumption, RepInv,
           NEW r \in Replica, NEW v \in Values, Set(r, v)
    PROVE  RepInv'
<1> DEFINE x(t) == [value |-> v, timestamp |-> t, writer |-> r,
                    version |-> [rep[r].version EXCEPT ![r] = Larger(@, t)]]
<1>1. PICK t \in Times(r) : Updated(r, x(t), Stamped(r, v, t))
  BY DEF Set
<1> DEFINE op == Stamped(r, v, t)
           y == x(t)
<1>2. kind \in Registers /\ Updated(r, y, op) /\ UNCHANGED kind
  BY <1>1 DEF Set, Updated
<1>3. N \in Nat /\ Stamped(r, v, t) = op
  BY DEF ReplicasAssumption
<1>4. PICK w0 \in Replica : RegisterOf(rep[r], seen[r], w0, ops)
  BY <1>2, FaithfulOf DEF RepInv, FaithfulTo
<1>5. rep[r].timestamp \in Nat
  BY <1>4 DEF RegisterOf, Register
<1>6. t \in Nat /\ t > rep[r].timestamp
  <2>1. t = rep[r].timestamp + 1 \/ (t \in Stamps /\ t > rep[r].timestamp)
    BY <1>2 DEF Times, RepInv, StampsAdvance
  <2>2. Stamps \subseteq Nat
    BY DEF ReplicasAssumption
  <2>3. CASE t = rep[r].timestamp + 1
    <3> DEFINE s == rep[r].timestamp
    <3>1. s \in Nat /\ t = s + 1
      BY <2>3, <1>5
    <3> HIDE DEF s
    <3>2. t \in Nat /\ t > s
      BY <3>1
    <3> QED BY <3>2 DEF s
  <2> QED BY <2>1, <2>2, <2>3
<1>7. op \in Stamping
  BY <1>5, <1>6, SeenBy DEF Stamped, Stamping
<1>8. /\ op \in UpdateOf(kind) /\ op.by = r /\ op.observed = seen[r]
      /\ op.element = v /\ op.stamp = t
  BY <1>2, <1>7, UpdatesOfKinds DEF Stamped
<1> HIDE DEF op
<1>9. StampedBy(ops) /\ CausallyClosed(seen[r], ops) /\ kind \in Kinds
  BY <1>2, SeenBy, HistoryOf
<1>10. ASSUME NEW j \in seen[r] PROVE ops[j].stamp < op.stamp
  <2>1. PICK i \in seen[r] : Holds(rep[r], i, ops) /\ Leads(i, seen[r], ops)
    BY <1>4 DEF RegisterOf
  <2>2. Precedes(ops[j].stamp, ops[j].by, rep[r].timestamp, ops[i].by)
    BY <2>1 DEF Leads, Holds
  <2>3. ops[j].stamp \in Nat
    BY <1>9, StampTypes DEF CausallyClosed
  <2> QED BY <2>2, <2>3, <1>5, <1>6, <1>8 DEF Precedes
<1>11. NewTo(kind, seen[r], ops, r, op)
  BY <1>2, <1>8, <1>9, <1>10, KindsAreSix DEF NewTo
<1>12. ASSUME NEW w \in Replica, Faithful(kind, rep[r], seen[r], w, ops)
       PROVE  Faithful(kind, y, seen[r] \cup {Len(ops) + 1}, w, Append(ops, op))
  <2>1. RegisterOf(rep[r], seen[r], w, ops)
    BY <1>2, <1>12, FaithfulOf
  <2>2. /\ Continues(ops, Append(ops, op)) /\ Append(ops, op)[Len(ops) + 1] = op
    BY <1>8, Recorded
  <2>3. RegisterOf(y, seen[r] \cup {Len(ops) + 1}, w, Append(ops, op))
    BY <2>1, <2>2, <1>3, <1>6, <1>8, <1>9, RegisterWritten
  <2> HIDE DEF y
  <2> QED BY <2>3, <1>2, FaithfulOf
<1> HIDE DEF y
<1> QED BY <1>2, <1>11, <1>12, UpdatedKeeps

\* Every update keeps the invariant.
LEMMA UpdateKeeps ==
    ASSUME ReplicasAssumption, RepInv, NEW r \in Replica, Update(r)
    PROVE  RepInv'
  BY IncrementGKeeps, IncrementPNKeeps, DecrementKeeps, AddGKeeps, AddORKeeps,
     AddTaggedKeeps, RemoveORKeeps, SetKeeps DEF Update
-----------------------------------------------------------------------------
(* A round. The pair (a, b) is visited at place (a - 1) * N + b.            *)
Place(a, b) == (a - 1) * N + b

\* The pair at the place of (a, b) is (a, b).
LEMMA PlaceOfPair ==
    ASSUME N \in Nat, NEW a \in Replica, NEW b \in Replica
    PROVE  /\ Place(a, b) \in Nat /\ First(Place(a, b)) = a /\ Second(Place(a, b)) = b
           /\ Place(a, b) <= N * N
<1> DEFINE q == a - 1
           r == b - 1
<1>1. q \in Nat /\ q <= N - 1 /\ r \in 0..(N - 1) /\ N # 0
  BY DEF Replica
<1>2. Place(a, b) - 1 = q * N + r
  BY <1>1 DEF Place, Replica
<1>3. q * N \in Nat
  BY <1>1
<1>4. Place(a, b) \in Nat
  BY <1>1, <1>3 DEF Place, Replica
<1> HIDE DEF q, r
<1>5. (q * N + r) \div N = q
  BY <1>1, SMTT(60)
<1>6. (q * N + r) % N = r
  BY <1>1, SMTT(60)
<1>7. First(Place(a, b)) = 1 + q /\ Second(Place(a, b)) = 1 + r
  BY <1>2, <1>5, <1>6 DEF First, Second
<1>8. 1 + q = a /\ 1 + r = b
  BY DEF q, r, Replica
<1>9. Place(a, b) <= N * N
  <2>1. q * N + N <= N * N
    BY <1>1, SMTT(60)
  <2>2. Place(a, b) = q * N + b /\ b <= N
    BY DEF Place, q, Replica
  <2>3. b \in Nat /\ N * N \in Nat
    BY DEF Replica
  <2> QED BY <2>1, <2>2, <2>3, <1>3
<1> QED BY <1>4, <1>7, <1>8, <1>9

\* Places follow the lexicographic order of the pairs.
LEMMA PlacesInOrder ==
    ASSUME N \in Nat, NEW a \in Replica, NEW b \in Replica, NEW c \in Replica
    PROVE  /\ b < c => Place(a, b) < Place(a, c)
           /\ a < b => Place(a, c) < Place(b, c)
<1>1. (a - 1) * N \in Nat /\ (b - 1) * N \in Nat
  <2>1. a - 1 \in Nat /\ b - 1 \in Nat
    BY DEF Replica
  <2> QED BY <2>1
<1>2. ASSUME a < b PROVE (a - 1) * N < (b - 1) * N
  <2> DEFINE q == a - 1
             r == b - 1
  <2>1. q \in Nat /\ r \in Nat /\ q < r /\ N > 0
    BY <1>2 DEF Replica
  <2> HIDE DEF q, r
  <2>2. q * N + N <= r * N
    BY <2>1, SMTT(60)
  <2>3. q * N \in Nat /\ r * N \in Nat
    BY <2>1
  <2>4. q * N < r * N
    BY <2>1, <2>2, <2>3
  <2> QED BY <2>4 DEF q, r
<1> QED BY <1>1, <1>2 DEF Place, Replica

\* Places follow the lexicographic order, and name their pairs.
LEMMA PlacesAreLexicographic ==
    ASSUME N \in Nat, NEW a \in Replica, NEW b \in Replica, NEW c \in Replica,
           NEW d \in Replica
    PROVE  /\ a < c => Place(a, b) < Place(c, d)
           /\ Place(a, b) = Place(c, d) => a = c /\ b = d
<1>1. ASSUME a < c PROVE Place(a, b) < Place(c, d)
  <2> DEFINE q == a - 1
             r == c - 1
  <2>1. q \in Nat /\ r \in Nat /\ q < r /\ N > 0
    BY <1>1 DEF Replica
  <2> HIDE DEF q, r
  <2>2. q * N + N <= r * N
    BY <2>1, SMTT(60)
  <2>3. q * N \in Nat /\ r * N \in Nat
    BY <2>1
  <2>4. Place(a, b) = q * N + b /\ Place(c, d) = r * N + d
    BY DEF Place, q, r
  <2>5. b \in Nat /\ b <= N /\ d \in Nat /\ d >= 1
    BY DEF Replica
  <2> QED BY <2>2, <2>3, <2>4, <2>5
<1>2. ASSUME Place(a, b) = Place(c, d) PROVE a = c /\ b = d
  BY <1>2, PlaceOfPair
<1> QED BY <1>1, <1>2

\* The place of the pair that is visited there.
LEMMA PairAtPlace ==
    ASSUME N \in Nat \ {0}, NEW p \in Nat
    PROVE  Place(First(p + 1), Second(p + 1)) = p + 1
<1>1. (p + 1) - 1 = p
  OBVIOUS
<1> DEFINE q == p \div N
           r == p % N
<1>2. q \in Nat /\ r \in Nat /\ p = N * q + r
  OBVIOUS
<1>3. First(p + 1) = 1 + q /\ Second(p + 1) = 1 + r
  BY <1>1 DEF First, Second
<1> HIDE DEF q, r
<1>4. (1 + q) - 1 = q /\ N * q = q * N /\ N * q \in Nat
  BY <1>2
<1> QED BY <1>2, <1>3, <1>4 DEF Place
-----------------------------------------------------------------------------
\* what the members know together, if r knows g[r]
All(g) == UNION {g[m] : m \in members}

Joins(h, g, a, b) ==
    \A r \in Replica : h[r] = IF r \in {a, b} THEN g[a] \cup g[b] ELSE g[r]

StepOf(h, g, p) ==
    /\ Meets(First(p), Second(p)) => Joins(h, g, First(p), Second(p))
    /\ ~ Meets(First(p), Second(p)) => \A r \in Replica : h[r] = g[r]

\* After p places of a round that began with g0; lo and hi are the first
\* and the last member. Once they have met, both know all.
Spreads(p, g, g0, lo, hi) ==
    /\ \A r \in Replica : g0[r] \subseteq g[r]
    /\ \A m \in members : g[m] \subseteq All(g0)
    /\ \A q \in members : lo < q /\ Place(lo, q) <= p => g0[q] \subseteq g[lo]
    /\ lo < hi /\ Place(lo, hi) <= p => All(g0) \subseteq g[lo] /\ All(g0) \subseteq g[hi]
    /\ \A a \in members : a < hi /\ Place(a, hi) <= p => All(g0) \subseteq g[a]

Ends(lo, hi) ==
    /\ lo \in members /\ hi \in members
    /\ \A m \in members : lo <= m /\ m <= hi

\* Before the first place nothing has spread.
LEMMA SpreadsAtFirst ==
    ASSUME N \in Nat, members \subseteq Replica, NEW g0, NEW lo, NEW hi, Ends(lo, hi)
    PROVE  Spreads(0, g0, g0, lo, hi)
<1>1. ASSUME NEW a \in members, NEW b \in members, a < b PROVE ~ Place(a, b) <= 0
  <2>1. a \in Replica /\ b \in Replica
    OBVIOUS
  <2>2. (a - 1) * N \in Nat
    <3>1. a - 1 \in Nat
      BY <2>1 DEF Replica
    <3> QED BY <3>1
  <2> QED BY <2>1, <2>2 DEF Place, Replica
<1> QED BY <1>1 DEF Spreads, All, Ends

(* One place more: the first member has heard from all up to the one it    *)
(* meets; from the last it learns the rest, and every later member learns  *)
(* all when it meets the last.                                             *)
LEMMA RoundSpreads ==
    ASSUME N \in Nat, members \subseteq Replica, NEW g0, NEW lo, NEW hi, Ends(lo, hi),
           NEW p \in Nat, NEW g, Spreads(p, g, g0, lo, hi),
           NEW h, StepOf(h, g, p + 1)
    PROVE  Spreads(p + 1, h, g0, lo, hi)
<1>1. \A r \in Replica : g[r] \subseteq h[r]
  BY DEF StepOf, Joins
<1>2. \A a, b \in Replica : Place(a, b) \in Nat
  BY PlaceOfPair
<1>3. ASSUME NEW a \in members, NEW b \in members, a < b, Place(a, b) = p + 1
      PROVE  h[a] = g[a] \cup g[b] /\ h[b] = g[a] \cup g[b]
  <2>1. First(p + 1) = a /\ Second(p + 1) = b
    BY <1>3, PlaceOfPair
  <2>2. Meets(a, b)
    BY <1>3 DEF Meets
  <2> QED BY <2>1, <2>2 DEF StepOf, Joins
<1>4. lo \in Replica /\ hi \in Replica
  BY DEF Ends
<1>5. \A r \in Replica : g0[r] \subseteq h[r]
  BY <1>1 DEF Spreads
<1>6. ASSUME NEW m \in members PROVE h[m] \subseteq All(g0)
  <2>1. h[m] = g[m] \/ \E a, b \in members : h[m] = g[a] \cup g[b]
    BY DEF StepOf, Joins, Meets
  <2>2. \A a \in members : g[a] \subseteq All(g0)
    BY DEF Spreads
  <2> QED BY <2>1, <2>2
<1>7. ASSUME NEW q \in members, lo < q, Place(lo, q) <= p + 1
      PROVE  g0[q] \subseteq h[lo]
  <2>1. CASE Place(lo, q) <= p
    BY <2>1, <1>1, <1>4, <1>7 DEF Spreads
  <2>2. CASE Place(lo, q) = p + 1
    <3>1. h[lo] = g[lo] \cup g[q]
      BY <2>2, <1>3, <1>7 DEF Ends
    <3>2. g0[q] \subseteq g[q]
      BY DEF Spreads
    <3> QED BY <3>1, <3>2
  <2>3. Place(lo, q) \in Nat
    BY <1>2, <1>4
  <2> QED BY <2>1, <2>2, <2>3, <1>7
<1>8. ASSUME lo < hi, Place(lo, hi) <= p + 1
      PROVE  All(g0) \subseteq h[lo] /\ All(g0) \subseteq h[hi]
  <2>1. CASE Place(lo, hi) <= p
    BY <2>1, <1>1, <1>4, <1>8 DEF Spreads
  <2>2. CASE Place(lo, hi) = p + 1
    <3>1. h[lo] = g[lo] \cup g[hi] /\ h[hi] = g[lo] \cup g[hi]
      BY <2>2, <1>3, <1>8 DEF Ends
    <3>2. ASSUME NEW q \in members PROVE g0[q] \subseteq g[lo] \cup g[hi]
      <4>1. g0[lo] \subseteq g[lo] /\ g0[hi] \subseteq g[hi]
        BY <1>4 DEF Spreads
      <4>2. CASE q = lo \/ q = hi
        BY <4>1, <4>2
      <4>3. CASE q # lo /\ q # hi
        <5>1. lo < q /\ q < hi
          BY <4>3 DEF Ends, Replica
        <5>2. Place(lo, q) < Place(lo, hi)
          BY <5>1, <1>4, PlacesInOrder
        <5>3. Place(lo, q) <= p
          BY <5>2, <2>2, <1>2, <1>4
        <5> QED BY <5>1, <5>3 DEF Spreads
      <4> QED BY <4>2, <4>3
    <3> QED BY <3>1, <3>2 DEF All
  <2>3. Place(lo, hi) \in Nat
    BY <1>2, <1>4
  <2> QED BY <2>1, <2>2, <2>3, <1>8
<1>9. ASSUME NEW a \in members, a < hi, Place(a, hi) <= p + 1
      PROVE  All(g0) \subseteq h[a]
  <2>1. CASE Place(a, hi) <= p
    BY <2>1, <1>1, <1>9 DEF Spreads
  <2>2. CASE Place(a, hi) = p + 1 /\ a = lo
    BY <2>2, <1>8, <1>9
  <2>3. CASE Place(a, hi) = p + 1 /\ a # lo
    <3>1. h[a] = g[a] \cup g[hi]
      BY <2>3, <1>3, <1>9 DEF Ends
    <3>2. lo < a /\ lo < hi
      BY <2>3, <1>9 DEF Ends, Replica
    <3>3. Place(lo, hi) < Place(a, hi)
      BY <3>2, <1>4, PlacesInOrder
    <3>4. Place(lo, hi) <= p
      BY <3>3, <2>3, <1>2, <1>4
    <3> QED BY <3>1, <3>2, <3>4 DEF Spreads
  <2>4. Place(a, hi) \in Nat
    BY <1>2, <1>4
  <2> QED BY <2>1, <2>2, <2>3, <2>4, <1>9
<1> QED BY <1>5, <1>6, <1>7, <1>8, <1>9 DEF Spreads

\* After all places every member knows all.
LEMMA RoundReachesAll ==
    ASSUME N \in Nat, members \subseteq Replica, NEW g0, NEW lo, NEW hi, Ends(lo, hi),
           NEW g, Spreads(N * N, g, g0, lo, hi), NEW m \in members
    PROVE  g[m] = All(g0)
<1>1. \A a, b \in Replica : Place(a, b) <= N * N
  BY PlaceOfPair
<1>2. lo \in Replica /\ hi \in Replica /\ m \in Replica
  BY DEF Ends
<1>3. g[m] \subseteq All(g0)
  BY DEF Spreads
<1>4. CASE m < hi
  BY <1>1, <1>2, <1>3, <1>4 DEF Spreads
<1>5. CASE ~ m < hi
  <2>1. m = hi
    BY <1>2, <1>5 DEF Ends, Replica
  <2>2. CASE lo < hi
    BY <2>1, <2>2, <1>1, <1>2, <1>3 DEF Spreads
  <2>3. CASE ~ lo < hi
    <3>1. \A q \in members : q = hi
      BY <2>3, <1>2 DEF Ends, Replica
    <3>2. All(g0) \subseteq g0[hi] /\ g0[hi] \subseteq g[hi]
      BY <3>1, <1>2 DEF All, Spreads
    <3> QED BY <2>1, <3>2, <1>3
  <2> QED BY <2>2, <2>3
<1> QED BY <1>4, <1>5
-----------------------------------------------------------------------------
(* The state within a round: acc is faithful, and w[r] is the writer that a *)
(* register nobody has written carries at r.                                *)
Sound(acc, w) ==
    /\ DOMAIN acc.rep = Replica /\ acc.seen \in [Replica -> SUBSET Nat]
    /\ w \in [Replica -> Replica]
    /\ \A r \in Replica : /\ CausallyClosed(acc.seen[r], ops)
                          /\ Faithful(kind, acc.rep[r], acc.seen[r], w[r], ops)

Met(w, a, b) == [r \in Replica |-> IF r \in {a, b} THEN Larger(w[a], w[b]) ELSE w[r]]

\* An exchange leaves both sides faithful to what they know together.
LEMMA ExchangeIsSound ==
    ASSUME N \in Nat, kind \in Kinds, History(kind, ops),
           NEW acc, NEW w, Sound(acc, w), NEW a \in Replica, NEW b \in Replica
    PROVE  /\ Sound(Exchange(acc, a, b), Met(w, a, b))
           /\ Joins(Exchange(acc, a, b).seen, acc.seen, a, b)
<1> DEFINE merged == Merge(kind, acc.rep[a], acc.rep[b])
           known == acc.seen[a] \cup acc.seen[b]
           joined == Exchange(acc, a, b)
           z == Met(w, a, b)
<1>1. /\ DOMAIN acc.rep = Replica /\ acc.seen \in [Replica -> SUBSET Nat]
      /\ w \in [Replica -> Replica]
  BY DEF Sound
<1>2. /\ joined.rep = [acc.rep EXCEPT ![a] = merged, ![b] = merged]
      /\ joined.seen = [acc.seen EXCEPT ![a] = known, ![b] = known]
  BY DEF Exchange
<1>3. /\ DOMAIN joined.rep = Replica
      /\ \A r \in Replica : joined.rep[r] = IF r \in {a, b} THEN merged ELSE acc.rep[r]
  BY <1>1, <1>2
<1>4. /\ joined.seen \in [Replica -> SUBSET Nat]
      /\ \A r \in Replica : joined.seen[r] = IF r \in {a, b} THEN known ELSE acc.seen[r]
  <2>1. known \in SUBSET Nat
    <3>1. acc.seen[a] \in SUBSET Nat /\ acc.seen[b] \in SUBSET Nat
      BY <1>1
    <3> QED BY <3>1
  <2> HIDE DEF known, joined
  <2> QED BY <2>1, <1>1, <1>2
<1>5. Larger(w[a], w[b]) \in Replica
  BY <1>1 DEF Larger
<1>6. /\ z \in [Replica -> Replica]
      /\ \A r \in Replica : z[r] = IF r \in {a, b} THEN Larger(w[a], w[b]) ELSE w[r]
  BY <1>1, <1>5 DEF Met
<1>7. CausallyClosed(known, ops)
  BY CausalTogether DEF Sound
<1>8. Faithful(kind, merged, known, Larger(w[a], w[b]), ops)
  <2>1. /\ CausallyClosed(acc.seen[a], ops) /\ Faithful(kind, acc.rep[a], acc.seen[a], w[a], ops)
        /\ CausallyClosed(acc.seen[b], ops) /\ Faithful(kind, acc.rep[b], acc.seen[b], w[b], ops)
        /\ w[a] \in Replica /\ w[b] \in Replica
    BY <1>1 DEF Sound
  <2> QED BY <2>1, FaithfulMerge
<1> HIDE DEF merged, joined, z
<1>9. ASSUME NEW r \in Replica
      PROVE  /\ CausallyClosed(joined.seen[r], ops)
             /\ Faithful(kind, joined.rep[r], joined.seen[r], z[r], ops)
  <2>1. CASE r \in {a, b}
    BY <2>1, <1>3, <1>4, <1>6, <1>7, <1>8
  <2>2. CASE r \notin {a, b}
    <3>1. joined.rep[r] = acc.rep[r] /\ joined.seen[r] = acc.seen[r] /\ z[r] = w[r]
      BY <2>2, <1>3, <1>4, <1>6
    <3> QED BY <3>1 DEF Sound
  <2> QED BY <2>1, <2>2
<1>10. Sound(joined, z)
  BY <1>3, <1>4, <1>6, <1>9 DEF Sound
<1>11. Joins(joined.seen, acc.seen, a, b)
  BY <1>4 DEF Joins
<1> QED BY <1>10, <1>11 DEF joined, z

\* r has learned from others what it did not know
Learns(V) ==
    \A r \in Replica : \E from \in SUBSET members :
        V[r] = seen[r] \cup UNION {seen[q] : q \in from}

\* An exchange of two members is learning from members.
LEMMA LearnsMore ==
    ASSUME members \subseteq Replica,
           NEW V, Learns(V), NEW a \in members, NEW b \in members,
           NEW W, Joins(W, V, a, b)
    PROVE  Learns(W)
<1> SUFFICES ASSUME NEW r \in Replica
             PROVE  \E from \in SUBSET members :
                        W[r] = seen[r] \cup UNION {seen[q] : q \in from}
  BY DEF Learns
<1>1. CASE r \notin {a, b}
  BY <1>1 DEF Joins, Learns
<1>2. CASE r \in {a, b}
  <2>1. PICK A \in SUBSET members : V[a] = seen[a] \cup UNION {seen[q] : q \in A}
    BY DEF Learns
  <2>2. PICK B \in SUBSET members : V[b] = seen[b] \cup UNION {seen[q] : q \in B}
    BY DEF Learns
  <2> DEFINE C == A \cup B \cup {a, b}
  <2>3. W[r] = V[a] \cup V[b]
    BY <1>2 DEF Joins
  <2>4. C \in SUBSET members
    OBVIOUS
  <2>5. W[r] = seen[r] \cup UNION {seen[q] : q \in C}
    BY <2>1, <2>2, <2>3, <1>2
  <2> HIDE DEF C
  <2> QED BY <2>4, <2>5
<1> QED BY <1>1, <1>2

\* The invariant, as the state in which a round begins.
LEMMA NowIsSound ==
    ASSUME RepInv
    PROVE  /\ \E w : Sound(Now, w)
           /\ Now.seen = seen /\ Now.rep = rep /\ ~ Now.changed /\ Learns(seen)
<1>1. Now.seen = seen /\ Now.rep = rep /\ ~ Now.changed
  BY DEF Now
<1>2. \A r \in Replica : \E v \in Replica : Faithful(kind, rep[r], seen[r], v, ops)
  BY DEF RepInv, FaithfulTo
<1> DEFINE w == [r \in Replica |->
                    CHOOSE v \in Replica : Faithful(kind, rep[r], seen[r], v, ops)]
<1>3. /\ w \in [Replica -> Replica]
      /\ \A r \in Replica : Faithful(kind, rep[r], seen[r], w[r], ops)
  BY <1>2
<1> HIDE DEF w
<1>4. Sound(Now, w)
  BY <1>1, <1>3 DEF Sound, RepInv
<1>5. Learns(seen)
  <2>1. \A r \in Replica : seen[r] = seen[r] \cup UNION {seen[q] : q \in {}}
    OBVIOUS
  <2> QED BY <2>1 DEF Learns
<1> QED BY <1>1, <1>4, <1>5
-----------------------------------------------------------------------------
Visit(acc, p) ==
    IF Meets(First(p), Second(p)) THEN Exchange(acc, First(p), Second(p)) ELSE acc

Visits(g, n) == g = [p \in 0..n |-> IF p = 0 THEN Now ELSE Visit(g[p - 1], p)]

\* The recursion that defines a round has a solution.
LEMMA VisitsAreDefined == ASSUME NEW n \in Nat PROVE \E g : Visits(g, n)
<1> DEFINE Good == {m \in Nat : \E g : Visits(g, m)}
<1>1. 0 \in Good
  <2>1. Visits([p \in 0..0 |-> Now], 0)
    BY DEF Visits
  <2> QED BY <2>1
<1>2. ASSUME NEW m \in Nat, m \in Good PROVE m + 1 \in Good
  <2>1. PICK g : Visits(g, m)
    BY <1>2
  <2> DEFINE h == [p \in 0..(m + 1) |-> IF p <= m THEN g[p] ELSE Visit(g[m], m + 1)]
  <2>2. ASSUME NEW p \in 0..(m + 1)
        PROVE  h[p] = IF p = 0 THEN Now ELSE Visit(h[p - 1], p)
    <3>1. CASE p = m + 1
      <4>1. h[p - 1] = g[m] /\ h[p] = Visit(g[m], m + 1) /\ p # 0
        BY <3>1
      <4> HIDE DEF h
      <4> QED BY <4>1, <3>1
    <3>2. CASE p # m + 1 /\ p # 0
      <4>1. p \in 0..m /\ p - 1 \in 0..m /\ h[p] = g[p] /\ h[p - 1] = g[p - 1]
        BY <3>2
      <4> HIDE DEF h
      <4> QED BY <4>1, <3>2, <2>1 DEF Visits
    <3>3. CASE p = 0
      <4>1. p \in 0..m /\ h[p] = g[p]
        BY <3>3
      <4> HIDE DEF h
      <4> QED BY <4>1, <3>3, <2>1 DEF Visits
    <3> QED BY <3>1, <3>2, <3>3
  <2>3. Visits(h, m + 1)
    <3>1. h = [p \in 0..(m + 1) |-> h[p]]
      OBVIOUS
    <3> HIDE DEF h
    <3> QED BY <3>1, <2>2 DEF Visits
  <2> QED BY <2>3
<1>3. Nat \subseteq Good
  <2> HIDE DEF Good
  <2> QED BY <1>1, <1>2, SetInduction
<1> QED BY <1>3

\* A round is a visit of every place in turn.
LEMMA RoundVisits ==
    ASSUME N \in Nat
    PROVE  \E g : /\ AfterRound = g[N * N] /\ g[0] = Now
                  /\ \A p \in Nat : p + 1 <= N * N => g[p + 1] = Visit(g[p], p + 1)
<1> DEFINE g == CHOOSE h : Visits(h, N * N)
<1>1. N * N \in Nat
  OBVIOUS
<1>2. Visits(g, N * N)
  BY <1>1, VisitsAreDefined
<1>3. AfterRound = g[N * N]
  BY DEF AfterRound, Visits, Visit
<1> HIDE DEF g
<1>4. g[0] = Now
  BY <1>1, <1>2 DEF Visits
<1>5. ASSUME NEW p \in Nat, p + 1 <= N * N PROVE g[p + 1] = Visit(g[p], p + 1)
  <2>1. p + 1 \in 0..(N * N) /\ p + 1 # 0 /\ (p + 1) - 1 = p
    BY <1>1, <1>5
  <2> QED BY <2>1, <1>2 DEF Visits
<1> QED BY <1>3, <1>4, <1>5
-----------------------------------------------------------------------------
\* What holds within a round: replicas are faithful and learn.
Within(acc) == (\E w : Sound(acc, w)) /\ Learns(acc.seen)

\* A visit of the next place.
LEMMA VisitKeepsWithin ==
    ASSUME N \in Nat, kind \in Kinds, History(kind, ops), members \subseteq Replica,
           NEW p, NEW acc, Within(acc)
    PROVE  Within(Visit(acc, p))
<1> DEFINE a == First(p)
           b == Second(p)
<1>1. PICK w : Sound(acc, w)
  BY DEF Within
<1>2. CASE Meets(a, b)
  <2>1. a \in members /\ b \in members /\ a \in Replica /\ b \in Replica
    BY <1>2 DEF Meets
  <2> DEFINE e == Exchange(acc, a, b)
             z == Met(w, a, b)
  <2>2. Sound(e, z) /\ Joins(e.seen, acc.seen, a, b)
    BY <1>1, <2>1, ExchangeIsSound
  <2>3. Visit(acc, p) = e
    BY <1>2 DEF Visit
  <2> HIDE DEF e, z
  <2>4. Learns(e.seen)
    BY <2>1, <2>2, LearnsMore DEF Within
  <2> QED BY <2>2, <2>3, <2>4 DEF Within
<1>3. CASE ~ Meets(a, b)
  BY <1>3 DEF Visit
<1> QED BY <1>2, <1>3

\* A round leaves every replica faithful to what it has learned.
LEMMA RoundIsSound ==
    ASSUME N \in Nat, RepInv
    PROVE  Within(AfterRound)
<1>1. kind \in Kinds /\ History(kind, ops) /\ members \subseteq Replica
  BY DEF RepInv
<1>2. PICK g : /\ AfterRound = g[N * N] /\ g[0] = Now
               /\ \A p \in Nat : p + 1 <= N * N => g[p + 1] = Visit(g[p], p + 1)
  BY RoundVisits
<1> DEFINE Good == {p \in Nat : p <= N * N => Within(g[p])}
<1>3. 0 \in Good
  <2>1. Within(Now)
    BY NowIsSound DEF Within
  <2> QED BY <2>1, <1>2
<1>4. ASSUME NEW p \in Nat, p \in Good PROVE p + 1 \in Good
  <2> SUFFICES ASSUME p + 1 <= N * N PROVE Within(g[p + 1])
    OBVIOUS
  <2>1. p <= N * N
    <3>1. N * N \in Nat
      OBVIOUS
    <3> QED BY <3>1
  <2>2. Within(Visit(g[p], p + 1))
    BY <2>1, <1>1, <1>4, VisitKeepsWithin
  <2> QED BY <2>2, <1>2
<1>5. Nat \subseteq Good
  <2> HIDE DEF Good
  <2> QED BY <1>3, <1>4, SetInduction
<1>6. N * N \in Nat /\ N * N <= N * N
  OBVIOUS
<1> QED BY <1>2, <1>5, <1>6
-----------------------------------------------------------------------------
\* add_replica() keeps the invariant.
LEMMA AddReplicaKeeps ==
    ASSUME RepInv, NEW r \in Replica, AddReplica(r)
    PROVE  RepInv'
<1>1. /\ pass' = NoPass /\ members' = members \cup {r}
      /\ UNCHANGED <<kind, rep, ops, seen>>
  BY DEF AddReplica
<1>2. \A q \in Replica : CausallyClosed(seen[q], ops)' /\ FaithfulTo(q)'
  BY <1>1 DEF RepInv, FaithfulTo
<1>3. members' \subseteq Replica
  BY <1>1 DEF RepInv
<1> QED BY <1>1, <1>2, <1>3 DEF RepInv, StampsAdvance

\* sync() keeps the invariant, and is learning.
LEMMA SyncKeeps ==
    ASSUME N \in Nat, RepInv, NEW a \in Replica, NEW b \in Replica, Sync(a, b)
    PROVE  RepInv' /\ Learns(seen')
<1>1. PICK w : Sound(Now, w)
  BY NowIsSound
<1> DEFINE e == Exchange(Now, a, b)
           z == Met(w, a, b)
<1>2. kind \in Kinds /\ History(kind, ops) /\ members \subseteq Replica
  BY DEF RepInv
<1>3. Sound(e, z) /\ Joins(e.seen, Now.seen, a, b)
  BY <1>1, <1>2, ExchangeIsSound
<1>4. /\ rep' = e.rep /\ seen' = e.seen /\ pass' = NoPass
      /\ UNCHANGED <<kind, members, ops>> /\ a \in members /\ b \in members
  BY DEF Sync
<1> HIDE DEF e, z
<1>5. Learns(seen')
  <2>1. Now.seen = seen /\ Learns(seen)
    BY NowIsSound
  <2> QED BY <2>1, <1>2, <1>3, <1>4, LearnsMore
<1>6. \A i \in 1..Len(ops) : i \in seen'[ops[i].by]
  <2>1. \A i \in 1..Len(ops) : i \in seen[ops[i].by] /\ ops[i].by \in Replica
    BY <1>2, HistoryOf DEF RepInv, Isolated
  <2>2. \A r \in Replica : seen[r] \subseteq seen'[r]
    BY <1>5 DEF Learns
  <2> QED BY <2>1, <2>2
<1>7. ASSUME NEW r \in Replica PROVE CausallyClosed(seen'[r], ops') /\ FaithfulTo(r)'
  <2>1. CausallyClosed(e.seen[r], ops) /\ z[r] \in Replica
        /\ Faithful(kind, e.rep[r], e.seen[r], z[r], ops)
    BY <1>3 DEF Sound
  <2> QED BY <2>1, <1>4 DEF FaithfulTo
<1>8. DOMAIN rep' = Replica /\ seen' \in [Replica -> SUBSET Nat]
  BY <1>3, <1>4 DEF Sound
<1> QED BY <1>2, <1>4, <1>5, <1>6, <1>7, <1>8 DEF RepInv, StampsAdvance

\* The start of converge() keeps the invariant.
LEMMA StartConvergeKeeps ==
    ASSUME RepInv, NEW limit \in RoundLimits, StartConverge(limit)
    PROVE  RepInv'
<1>1. UNCHANGED <<kind, members, rep, ops, seen>>
  BY DEF StartConverge
<1>2. \A q \in Replica : CausallyClosed(seen[q], ops)' /\ FaithfulTo(q)'
  BY <1>1 DEF RepInv, FaithfulTo
<1> QED BY <1>1, <1>2 DEF RepInv, StampsAdvance

\* A round keeps the invariant, and is learning.
LEMMA RoundKeeps ==
    ASSUME N \in Nat, RepInv, Round
    PROVE  RepInv' /\ Learns(seen')
<1> DEFINE A == AfterRound
<1>1. rep' = A.rep /\ seen' = A.seen /\ UNCHANGED <<kind, members, ops>>
  BY DEF Round
<1>2. kind \in Kinds /\ History(kind, ops) /\ members \subseteq Replica
  BY DEF RepInv
<1>3. Within(A)
  BY RoundIsSound
<1> HIDE DEF A
<1>4. PICK w : Sound(A, w)
  BY <1>3 DEF Within
<1>5. Learns(seen')
  BY <1>1, <1>3 DEF Within
<1>6. \A i \in 1..Len(ops) : i \in seen'[ops[i].by]
  <2>1. \A i \in 1..Len(ops) : i \in seen[ops[i].by] /\ ops[i].by \in Replica
    BY <1>2, HistoryOf DEF RepInv, Isolated
  <2>2. \A r \in Replica : seen[r] \subseteq seen'[r]
    BY <1>5 DEF Learns
  <2> QED BY <2>1, <2>2
<1>7. ASSUME NEW r \in Replica PROVE CausallyClosed(seen'[r], ops') /\ FaithfulTo(r)'
  <2>1. CausallyClosed(A.seen[r], ops) /\ w[r] \in Replica
        /\ Faithful(kind, A.rep[r], A.seen[r], w[r], ops)
    BY <1>4 DEF Sound
  <2> QED BY <2>1, <1>1 DEF FaithfulTo
<1>8. DOMAIN rep' = Replica /\ seen' \in [Replica -> SUBSET Nat]
  BY <1>1, <1>4 DEF Sound
<1> QED BY <1>1, <1>2, <1>5, <1>6, <1>7, <1>8 DEF RepInv, StampsAdvance

\* Every step keeps the invariant.
LEMMA RepInvNext ==
    ASSUME ReplicasAssumption, RepInv, [Next]_vars
    PROVE  RepInv'
<1>1. N \in Nat
  BY DEF ReplicasAssumption
<1>2. CASE UNCHANGED vars
  <2>1. \A q \in Replica : CausallyClosed(seen[q], ops)' /\ FaithfulTo(q)'
    BY <1>2 DEF vars, RepInv, FaithfulTo
  <2> QED BY <1>2, <2>1 DEF vars, RepInv, StampsAdvance
<1>3. CASE Next
  BY <1>1, <1>3, AddReplicaKeeps, UpdateKeeps, SyncKeeps, StartConvergeKeeps, RoundKeeps
     DEF Next
<1> QED BY <1>2, <1>3

(* Whatever updates, exchanges and rounds of converge() happen, and in     *)
(* which order: every replica is what the updates it has seen make of it,  *)
(* as long as the callers of registers pass only timestamps later than the *)
(* register's.                                                             *)
THEOREM ReplicasAreFaithful == Spec /\ StampsAdvance => []RepInv
<1>1. ReplicasAssumption
  BY ReplicasAssumption
<1>2. Init /\ StampsAdvance => RepInv
  BY <1>1, RepInvInit
<1>3. RepInv /\ [Next]_vars => RepInv'
  BY <1>1, RepInvNext
<1> QED BY <1>2, <1>3, PTL DEF Spec
-----------------------------------------------------------------------------
(* What merge() is, apart from any history. Under(k, x, y): the merge of x  *)
(* into y is y. It orders the states of each type, but for registers of the *)
(* vector policy merge() is an upper bound of its first argument only.      *)
Proper(k, x) ==
    /\ k = "GCounter" => x = [counts |-> x.counts] /\ x.counts \in [Replica -> Nat]
    /\ k = "PNCounter" => /\ x = [positive |-> x.positive, negative |-> x.negative]
                          /\ x.positive \in [Replica -> Nat]
                          /\ x.negative \in [Replica -> Nat]
    /\ k = "GSet" => x = [elements |-> x.elements]
    /\ k = "ORSet" => x = Sets(x.adds, x.removed, x.counter) /\ x.counter \in Nat
    /\ k \in Registers => x \in Register

Atop(f, g) == \A r \in Replica : f[r] <= g[r]

Under(k, x, y) ==
    /\ k = "GCounter" => Atop(x.counts, y.counts)
    /\ k = "PNCounter" => Atop(x.positive, y.positive) /\ Atop(x.negative, y.negative)
    /\ k = "GSet" => x.elements \subseteq y.elements
    /\ k = "ORSet" => /\ x.adds \subseteq y.adds /\ x.removed \subseteq y.removed
                      /\ x.counter <= y.counter
    /\ k \in Registers => Atop(x.version, y.version) /\ ~ Later(x, y)

\* What proper means for each type.
LEMMA ProperOf ==
    ASSUME NEW x
    PROVE  /\ Proper("GCounter", x) <=>
                  x = [counts |-> x.counts] /\ x.counts \in [Replica -> Nat]
           /\ Proper("PNCounter", x) <=>
                  /\ x = [positive |-> x.positive, negative |-> x.negative]
                  /\ x.positive \in [Replica -> Nat] /\ x.negative \in [Replica -> Nat]
           /\ Proper("GSet", x) <=> x = [elements |-> x.elements]
           /\ Proper("ORSet", x) <=>
                  x = Sets(x.adds, x.removed, x.counter) /\ x.counter \in Nat
           /\ \A k \in Registers : Proper(k, x) <=> x \in Register
  BY DEF Proper, Registers

\* What the order is for each type.
LEMMA UnderOf ==
    ASSUME NEW x, NEW y
    PROVE  /\ Under("GCounter", x, y) <=> Atop(x.counts, y.counts)
           /\ Under("PNCounter", x, y) <=>
                  Atop(x.positive, y.positive) /\ Atop(x.negative, y.negative)
           /\ Under("GSet", x, y) <=> x.elements \subseteq y.elements
           /\ Under("ORSet", x, y) <=>
                  /\ x.adds \subseteq y.adds /\ x.removed \subseteq y.removed
                  /\ x.counter <= y.counter
           /\ \A k \in Registers :
                  Under(k, x, y) <=> Atop(x.version, y.version) /\ ~ Later(x, y)
  BY DEF Under, Registers

\* The larger of two counts is atop either.
LEMMA LargerIsAtop ==
    ASSUME NEW f \in [Replica -> Nat], NEW g \in [Replica -> Nat]
    PROVE  /\ MaxOf(f, g) \in [Replica -> Nat]
           /\ Atop(f, MaxOf(f, g)) /\ Atop(f, f)
           /\ Atop(f, g) => MaxOf(f, g) = g
<1> DEFINE m == MaxOf(f, g)
<1>1. m \in [Replica -> Nat] /\ \A w \in Replica : m[w] = Larger(f[w], g[w])
  BY LargerOne DEF MaxOf
<1>2. \A w \in Replica : f[w] \in Nat /\ g[w] \in Nat
  OBVIOUS
<1> HIDE DEF m
<1>3. \A w \in Replica : f[w] <= m[w] /\ (f[w] <= g[w] => m[w] = g[w])
  BY <1>1, <1>2 DEF Larger
<1>4. Atop(f, m) /\ Atop(f, f)
  BY <1>2, <1>3 DEF Atop
<1>5. Atop(f, g) => m = g
  <2> SUFFICES ASSUME Atop(f, g) PROVE m = g
    OBVIOUS
  <2>1. \A w \in Replica : m[w] = g[w]
    BY <1>3 DEF Atop
  <2> QED BY <2>1, <1>1
<1> QED BY <1>1, <1>4, <1>5 DEF m

\* Being atop is transitive.
LEMMA AtopAll ==
    ASSUME NEW f \in [Replica -> Nat], NEW g \in [Replica -> Nat],
           NEW h \in [Replica -> Nat], Atop(f, g), Atop(g, h)
    PROVE  Atop(f, h)
<1>1. ASSUME NEW w \in Replica PROVE f[w] <= h[w]
  <2>1. f[w] \in Nat /\ g[w] \in Nat /\ h[w] \in Nat
    OBVIOUS
  <2>2. f[w] <= g[w] /\ g[w] <= h[w]
    BY DEF Atop
  <2> QED BY <2>1, <2>2
<1> QED BY <1>1 DEF Atop

\* The text null comes in the order of the values.
LEMMA NullIsNatural == ASSUME ReplicasAssumption PROVE NullValue \in Nat
<1> DEFINE S == {0} \cup Values
<1>1. S \subseteq Nat /\ IsFiniteSet(S) /\ S # {}
  <2>1. Values \subseteq Nat /\ IsFiniteSet(Values)
    BY DEF ReplicasAssumption
  <2>2. IsFiniteSet(Values \cup {0})
    BY <2>1, FS_AddElement
  <2>3. S = Values \cup {0}
    OBVIOUS
  <2> QED BY <2>1, <2>2, <2>3
<1>2. Max(S) \in S
  <2> HIDE DEF S
  <2> QED BY <1>1, LargestNatural
<1>3. Max(S) \in Nat
  BY <1>1, <1>2
<1>4. NullValue = 1 + Max(S)
  BY DEF NullValue
<1> HIDE DEF S
<1> QED BY <1>3, <1>4

\* The fields of a register are numbers.
LEMMA RegisterFields ==
    ASSUME ReplicasAssumption, NEW x \in Register
    PROVE  /\ x.value \in Nat /\ x.timestamp \in Nat /\ x.writer \in Nat
           /\ x.version \in [Replica -> Nat]
           /\ x = [value |-> x.value, timestamp |-> x.timestamp, writer |-> x.writer,
                   version |-> x.version]
<1>1. Values \subseteq Nat /\ NullValue \in Nat /\ Replica \subseteq Nat
  BY NullIsNatural DEF ReplicasAssumption, Replica
<1>2. /\ x.value \in Values \cup {NullValue} /\ x.timestamp \in Nat /\ x.writer \in Replica
      /\ x.version \in [Replica -> Nat]
      /\ x = [value |-> x.value, timestamp |-> x.timestamp, writer |-> x.writer,
              version |-> x.version]
  BY DEF Register
<1> QED BY <1>1, <1>2

SameWrite(x, y) == x.value = y.value /\ x.timestamp = y.timestamp /\ x.writer = y.writer

(* Writes are totally ordered.                                              *)
LEMMA LaterIsTotal ==
    ASSUME ReplicasAssumption, NEW x \in Register, NEW y \in Register, NEW z \in Register
    PROVE  /\ ~ Later(x, x)
           /\ ~ (Later(x, y) /\ Later(y, x))
           /\ ~ Later(x, y) /\ ~ Later(y, x) => SameWrite(x, y)
           /\ Later(x, y) /\ Later(y, z) => Later(x, z)
           /\ ~ Later(x, y) /\ ~ Later(y, z) => ~ Later(x, z)
           /\ SameWrite(x, y) => Later(x, z) = Later(y, z) /\ Later(z, x) = Later(z, y)
<1>1. /\ x.value \in Nat /\ x.timestamp \in Nat /\ x.writer \in Nat
      /\ y.value \in Nat /\ y.timestamp \in Nat /\ y.writer \in Nat
      /\ z.value \in Nat /\ z.timestamp \in Nat /\ z.writer \in Nat
  BY RegisterFields
<1>2. /\ ~ Later(x, x)
      /\ ~ (Later(x, y) /\ Later(y, x))
      /\ ~ Later(x, y) /\ ~ Later(y, x) => SameWrite(x, y)
  BY <1>1 DEF Later, SameWrite
<1>3. /\ Later(x, y) /\ Later(y, z) => Later(x, z)
      /\ ~ Later(x, y) /\ ~ Later(y, z) => ~ Later(x, z)
  BY <1>1 DEF Later
<1>4. SameWrite(x, y) => Later(x, z) = Later(y, z) /\ Later(z, x) = Later(z, y)
  BY DEF Later, SameWrite
<1> QED BY <1>2, <1>3, <1>4

\* A merge of registers shows one of the two writes.
LEMMA RegisterMerged ==
    ASSUME ReplicasAssumption, NEW k \in Registers,
           NEW x \in Register, NEW y \in Register,
           NEW m, m = MergeRegisters(k, x, y)
    PROVE  /\ m \in Register /\ m.version = MaxOf(x.version, y.version)
           /\ Dominates(k, x, y) => SameWrite(m, x)
           /\ ~ Dominates(k, x, y) => SameWrite(m, y)
<1>1. x.version \in [Replica -> Nat] /\ y.version \in [Replica -> Nat]
  BY RegisterFields
<1>2. MaxOf(x.version, y.version) \in [Replica -> Nat]
  BY <1>1, LargerIsAtop
<1> DEFINE win == IF Dominates(k, x, y) THEN x ELSE y
           v == MaxOf(x.version, y.version)
<1>3. m = [value |-> win.value, timestamp |-> win.timestamp, writer |-> win.writer,
           version |-> v]
  BY DEF MergeRegisters
<1>4. win \in Register
  OBVIOUS
<1> HIDE DEF win, v
<1>5. m \in Register /\ m.version = v /\ SameWrite(m, win)
  BY <1>2, <1>3, <1>4 DEF Register, SameWrite, v
<1> QED BY <1>5 DEF win, v

\* A merge of states is a state.
LEMMA ProperMerge ==
    ASSUME ReplicasAssumption, NEW k \in Kinds,
           NEW x, Proper(k, x), NEW y, Proper(k, y)
    PROVE  Proper(k, Merge(k, x, y)) /\ Under(k, x, Merge(k, x, y))
<1> DEFINE m == Merge(k, x, y)
<1>1. CASE k = "GCounter"
  <2>1. x.counts \in [Replica -> Nat] /\ y.counts \in [Replica -> Nat]
    BY <1>1, ProperOf
  <2>2. m = [counts |-> MaxOf(x.counts, y.counts)]
    BY <1>1, MergeOf
  <2> HIDE DEF m
  <2>3. m.counts = MaxOf(x.counts, y.counts) /\ m = [counts |-> m.counts]
    BY <2>2
  <2> QED BY <1>1, <2>1, <2>3, LargerIsAtop, ProperOf, UnderOf DEF m
<1>2. CASE k = "PNCounter"
  <2>1. /\ x.positive \in [Replica -> Nat] /\ y.positive \in [Replica -> Nat]
        /\ x.negative \in [Replica -> Nat] /\ y.negative \in [Replica -> Nat]
    BY <1>2, ProperOf
  <2>2. m = [positive |-> MaxOf(x.positive, y.positive),
             negative |-> MaxOf(x.negative, y.negative)]
    BY <1>2, MergeOf
  <2> HIDE DEF m
  <2>3. /\ m.positive = MaxOf(x.positive, y.positive)
        /\ m.negative = MaxOf(x.negative, y.negative)
        /\ m = [positive |-> m.positive, negative |-> m.negative]
    BY <2>2
  <2> QED BY <1>2, <2>1, <2>3, LargerIsAtop, ProperOf, UnderOf DEF m
<1>3. CASE k = "GSet"
  <2>1. m = [elements |-> x.elements \cup y.elements]
    BY <1>3, MergeOf
  <2> HIDE DEF m
  <2>2. m.elements = x.elements \cup y.elements /\ m = [elements |-> m.elements]
    BY <2>1
  <2> QED BY <1>3, <2>2, ProperOf, UnderOf DEF m
<1>4. CASE k = "ORSet"
  <2>1. x.counter \in Nat /\ y.counter \in Nat
    BY <1>4, ProperOf
  <2>2. m = [adds |-> x.adds \cup y.adds, removed |-> x.removed \cup y.removed,
             counter |-> Larger(x.counter, y.counter)]
    BY <1>4, MergeOf DEF MergeORSets
  <2> HIDE DEF m
  <2>3. /\ m = Sets(m.adds, m.removed, m.counter)
        /\ m.adds = x.adds \cup y.adds /\ m.removed = x.removed \cup y.removed
        /\ m.counter = Larger(x.counter, y.counter)
    BY <2>2 DEF Sets
  <2>4. m.counter \in Nat /\ x.counter <= m.counter
    BY <2>1, <2>3 DEF Larger
  <2> QED BY <1>4, <2>3, <2>4, ProperOf, UnderOf DEF m
<1>5. CASE k \in Registers
  <2>1. x \in Register /\ y \in Register /\ m = MergeRegisters(k, x, y)
    BY <1>5, ProperOf, MergeOfRegisters
  <2> HIDE DEF m
  <2>2. /\ m \in Register /\ m.version = MaxOf(x.version, y.version)
        /\ Dominates(k, x, y) => SameWrite(m, x)
        /\ ~ Dominates(k, x, y) => SameWrite(m, y)
    BY <1>5, <2>1, RegisterMerged
  <2>3. Atop(x.version, m.version)
    BY <2>1, <2>2, RegisterFields, LargerIsAtop
  <2>4. ~ Later(x, m)
    <3>1. CASE SameWrite(m, x)
      <4>1. Later(m, x) = Later(x, x) /\ Later(x, m) = Later(x, x)
        BY <2>1, <2>2, <3>1, LaterIsTotal
      <4> QED BY <4>1, <2>1, LaterIsTotal
    <3>2. CASE SameWrite(m, y) /\ ~ Dominates(k, x, y)
      <4>1. ~ Later(x, y)
        BY <3>2 DEF Dominates
      <4>2. Later(x, m) = Later(x, y)
        BY <2>1, <2>2, <3>2, LaterIsTotal
      <4> QED BY <4>1, <4>2
    <3> QED BY <2>2, <3>1, <3>2
  <2> QED BY <1>5, <2>2, <2>3, <2>4, ProperOf, UnderOf DEF m
<1> QED BY <1>1, <1>2, <1>3, <1>4, <1>5, KindsAreSix

\* What is under another merges into it without a trace.
LEMMA MergeOfUnder ==
    ASSUME ReplicasAssumption, NEW k \in Kinds,
           NEW x, Proper(k, x), NEW y, Proper(k, y), Under(k, x, y)
    PROVE  Merge(k, x, y) = y
<1> DEFINE m == Merge(k, x, y)
<1>1. CASE k = "GCounter"
  <2>1. /\ x.counts \in [Replica -> Nat] /\ y.counts \in [Replica -> Nat]
        /\ Atop(x.counts, y.counts) /\ y = [counts |-> y.counts]
    BY <1>1, ProperOf, UnderOf
  <2>2. MaxOf(x.counts, y.counts) = y.counts
    BY <2>1, LargerIsAtop
  <2> QED BY <1>1, <2>1, <2>2, MergeOf
<1>2. CASE k = "PNCounter"
  <2>1. /\ x.positive \in [Replica -> Nat] /\ y.positive \in [Replica -> Nat]
        /\ x.negative \in [Replica -> Nat] /\ y.negative \in [Replica -> Nat]
        /\ Atop(x.positive, y.positive) /\ Atop(x.negative, y.negative)
        /\ y = [positive |-> y.positive, negative |-> y.negative]
    BY <1>2, ProperOf, UnderOf
  <2>2. /\ MaxOf(x.positive, y.positive) = y.positive
        /\ MaxOf(x.negative, y.negative) = y.negative
    BY <2>1, LargerIsAtop
  <2> QED BY <1>2, <2>1, <2>2, MergeOf
<1>3. CASE k = "GSet"
  <2>1. x.elements \subseteq y.elements /\ y = [elements |-> y.elements]
    BY <1>3, ProperOf, UnderOf
  <2> DEFINE e == x.elements \cup y.elements
  <2>2. m = [elements |-> e]
    BY <1>3, MergeOf
  <2>3. e = y.elements
    BY <2>1
  <2> HIDE DEF e, m
  <2>4. m = y
    BY <2>1, <2>2, <2>3
  <2> QED BY <2>4 DEF m
<1>4. CASE k = "ORSet"
  <2>1. /\ x.counter \in Nat /\ y.counter \in Nat /\ x.counter <= y.counter
        /\ x.adds \subseteq y.adds /\ x.removed \subseteq y.removed
        /\ y = Sets(y.adds, y.removed, y.counter)
    BY <1>4, ProperOf, UnderOf
  <2> DEFINE a == x.adds \cup y.adds
             d == x.removed \cup y.removed
             c == Larger(x.counter, y.counter)
  <2>2. m = Sets(a, d, c)
    BY <1>4, MergeOf DEF MergeORSets, Sets
  <2>3. a = y.adds /\ d = y.removed /\ c = y.counter
    BY <2>1 DEF Larger
  <2> HIDE DEF a, d, c, m
  <2>4. m = y
    BY <2>1, <2>2, <2>3
  <2> QED BY <2>4 DEF m
<1>5. CASE k \in Registers
  <2>1. /\ x \in Register /\ y \in Register /\ m = MergeRegisters(k, x, y)
        /\ Atop(x.version, y.version) /\ ~ Later(x, y)
    BY <1>5, ProperOf, UnderOf, MergeOfRegisters
  <2>2. x.version \in [Replica -> Nat] /\ y.version \in [Replica -> Nat]
    BY <2>1, RegisterFields
  <2>3. MaxOf(x.version, y.version) = y.version
    BY <2>1, <2>2, LargerIsAtop
  <2>4. ~ Exceeds(x.version, y.version)
    <3> DEFINE f == x.version
               g == y.version
    <3> SUFFICES ASSUME Exceeds(f, g) PROVE FALSE
      OBVIOUS
    <3>1. f \in [Replica -> Nat] /\ g \in [Replica -> Nat] /\ Atop(f, g)
      BY <2>1, <2>2
    <3> HIDE DEF f, g
    <3>2. f # g /\ \A r \in Replica : f[r] >= g[r] /\ f[r] <= g[r]
      BY <3>1 DEF Exceeds, Atop
    <3>3. \A r \in Replica : f[r] = g[r]
      BY <3>1, <3>2
    <3> QED BY <3>1, <3>2, <3>3
  <2>5. ~ Dominates(k, x, y)
    BY <2>1, <2>4 DEF Dominates
  <2>6. m = [value |-> y.value, timestamp |-> y.timestamp, writer |-> y.writer,
             version |-> y.version]
    BY <2>1, <2>3, <2>5 DEF MergeRegisters
  <2> HIDE DEF m
  <2>7. m = y
    BY <2>1, <2>6, RegisterFields
  <2> QED BY <2>7 DEF m
<1> QED BY <1>1, <1>2, <1>3, <1>4, <1>5, KindsAreSix

\* The order of states.
LEMMA UnderIsOrder ==
    ASSUME ReplicasAssumption, NEW k \in Kinds,
           NEW x, Proper(k, x), NEW y, Proper(k, y), NEW z, Proper(k, z)
    PROVE  /\ Under(k, x, x)
           /\ Under(k, x, y) /\ Under(k, y, z) => Under(k, x, z)
<1>1. CASE k = "GCounter"
  <2>1. /\ x.counts \in [Replica -> Nat] /\ y.counts \in [Replica -> Nat]
        /\ z.counts \in [Replica -> Nat]
    BY <1>1, ProperOf
  <2>2. Atop(x.counts, x.counts)
    BY <2>1, LargerIsAtop
  <2>3. Atop(x.counts, y.counts) /\ Atop(y.counts, z.counts) => Atop(x.counts, z.counts)
    BY <2>1, AtopAll
  <2> QED BY <1>1, <2>2, <2>3, UnderOf
<1>2. CASE k = "PNCounter"
  <2>1. /\ x.positive \in [Replica -> Nat] /\ y.positive \in [Replica -> Nat]
        /\ x.negative \in [Replica -> Nat] /\ y.negative \in [Replica -> Nat]
        /\ z.positive \in [Replica -> Nat] /\ z.negative \in [Replica -> Nat]
    BY <1>2, ProperOf
  <2>2. Atop(x.positive, x.positive) /\ Atop(x.negative, x.negative)
    BY <2>1, LargerIsAtop
  <2>3. /\ Atop(x.positive, y.positive) /\ Atop(y.positive, z.positive)
              => Atop(x.positive, z.positive)
        /\ Atop(x.negative, y.negative) /\ Atop(y.negative, z.negative)
              => Atop(x.negative, z.negative)
    BY <2>1, AtopAll
  <2> QED BY <1>2, <2>2, <2>3, UnderOf
<1>3. CASE k = "GSet"
  BY <1>3, UnderOf
<1>4. CASE k = "ORSet"
  <2>1. x.counter \in Nat /\ y.counter \in Nat /\ z.counter \in Nat
    BY <1>4, ProperOf
  <2>2. /\ x.counter <= x.counter
        /\ x.counter <= y.counter /\ y.counter <= z.counter => x.counter <= z.counter
    BY <2>1
  <2> QED BY <1>4, <2>2, UnderOf
<1>5. CASE k \in Registers
  <2>1. /\ x \in Register /\ y \in Register /\ z \in Register
    BY <1>5, ProperOf
  <2>2. /\ x.version \in [Replica -> Nat] /\ y.version \in [Replica -> Nat]
        /\ z.version \in [Replica -> Nat]
    BY <2>1, RegisterFields
  <2>3. Atop(x.version, x.version) /\ ~ Later(x, x)
    BY <2>1, <2>2, LargerIsAtop, LaterIsTotal
  <2>4. /\ Atop(x.version, y.version) /\ Atop(y.version, z.version)
              => Atop(x.version, z.version)
        /\ ~ Later(x, y) /\ ~ Later(y, z) => ~ Later(x, z)
    BY <2>1, <2>2, AtopAll, LaterIsTotal
  <2> QED BY <1>5, <2>3, <2>4, UnderOf
<1> QED BY <1>1, <1>2, <1>3, <1>4, <1>5, KindsAreSix
-----------------------------------------------------------------------------
\* the state within a round
Typed(acc) ==
    /\ DOMAIN acc.rep = Replica /\ DOMAIN acc.seen = Replica
    /\ \A r \in Replica : Proper(kind, acc.rep[r])

Puts(h, g, a, b, x) == \A r \in Replica : h[r] = IF r \in {a, b} THEN x ELSE g[r]

\* What an exchange does.
LEMMA ExchangeOf ==
    ASSUME ReplicasAssumption, kind \in Kinds, NEW acc, Typed(acc),
           NEW a \in Replica, NEW b \in Replica
    PROVE  /\ Typed(Exchange(acc, a, b))
           /\ Joins(Exchange(acc, a, b).seen, acc.seen, a, b)
           /\ Puts(Exchange(acc, a, b).rep, acc.rep, a, b,
                   Merge(kind, acc.rep[a], acc.rep[b]))
<1> DEFINE merged == Merge(kind, acc.rep[a], acc.rep[b])
           known == acc.seen[a] \cup acc.seen[b]
           e == Exchange(acc, a, b)
<1>1. /\ e.rep = [acc.rep EXCEPT ![a] = merged, ![b] = merged]
      /\ e.seen = [acc.seen EXCEPT ![a] = known, ![b] = known]
  BY DEF Exchange
<1>2. DOMAIN acc.rep = Replica /\ DOMAIN acc.seen = Replica
  BY DEF Typed
<1>3. Proper(kind, merged)
  BY ProperMerge DEF Typed
<1> HIDE DEF merged, known, e
<1>4. /\ DOMAIN e.rep = Replica /\ DOMAIN e.seen = Replica
      /\ Puts(e.rep, acc.rep, a, b, merged) /\ Puts(e.seen, acc.seen, a, b, known)
  BY <1>1, <1>2 DEF Puts
<1>5. \A r \in Replica : Proper(kind, e.rep[r])
  BY <1>3, <1>4 DEF Puts, Typed
<1>6. Joins(e.seen, acc.seen, a, b)
  BY <1>4 DEF Puts, Joins, known
<1> QED BY <1>4, <1>5, <1>6 DEF Typed, merged, e

(* After p places of a round, lo and hi the first and the last member.      *)
(* Members that have met the first are ordered, and under it until it has   *)
(* met the last; what has met the last is like it.                          *)
Chained(p, g, lo, hi) ==
    /\ \A u, v \in members :
          u # lo /\ u < v /\ Place(lo, v) <= p /\ p < Place(u, v) => Under(kind, g[u], g[v])
    /\ \A u \in members :
          u # lo /\ Place(lo, u) <= p /\ p < Place(lo, hi) => Under(kind, g[u], g[lo])
    /\ \A u \in members : u < hi /\ Place(u, hi) <= p => g[u] = g[hi]

\* A place at which nobody meets.
LEMMA NobodyMeets ==
    ASSUME members \subseteq Replica, N \in Nat, NEW lo, NEW hi, Ends(lo, hi), NEW p \in Nat,
           NEW g, Chained(p, g, lo, hi),
           \A a, b \in members : a < b => Place(a, b) # p + 1
    PROVE  Chained(p + 1, g, lo, hi)
<1>1. lo \in members /\ hi \in members /\ \A m \in members : lo <= m /\ m <= hi
  BY DEF Ends
<1>2. \A a, b \in members : Place(a, b) \in Nat
  BY PlaceOfPair
<1>3. \A a, b \in members : a < b => /\ (Place(a, b) <= p + 1 <=> Place(a, b) <= p)
                                     /\ (p + 1 < Place(a, b) => p < Place(a, b))
  BY <1>2
<1>4. \A u \in members : u # lo => lo < u /\ lo < hi
  BY <1>1 DEF Replica
<1>5. ASSUME NEW u \in members, NEW v \in members, u # lo, u < v, Place(lo, v) <= p + 1,
             p + 1 < Place(u, v)
      PROVE  Under(kind, g[u], g[v])
  <2>1. lo < v
    BY <1>1, <1>4, <1>5 DEF Replica
  <2>2. Place(lo, v) <= p /\ p < Place(u, v)
    BY <2>1, <1>1, <1>3, <1>5
  <2> QED BY <2>2, <1>5 DEF Chained
<1>6. ASSUME NEW u \in members, u # lo, Place(lo, u) <= p + 1, p + 1 < Place(lo, hi)
      PROVE  Under(kind, g[u], g[lo])
  BY <1>1, <1>3, <1>4, <1>6 DEF Chained
<1>7. ASSUME NEW u \in members, u < hi, Place(u, hi) <= p + 1
      PROVE  g[u] = g[hi]
  BY <1>1, <1>3, <1>7 DEF Chained
<1> QED BY <1>5, <1>6, <1>7 DEF Chained

(* The first member meets the next: what it had met is under it, and it     *)
(* under the outcome.                                                       *)
LEMMA FirstMeets ==
    ASSUME ReplicasAssumption, kind \in Kinds, members \subseteq Replica,
           NEW lo, NEW hi, Ends(lo, hi), NEW p \in Nat,
           NEW g, NEW h, \A r \in Replica : Proper(kind, g[r]) /\ Proper(kind, h[r]),
           Chained(p, g, lo, hi), NEW b \in members, lo < b, Place(lo, b) = p + 1,
           Puts(h, g, lo, b, Merge(kind, g[lo], g[b]))
    PROVE  Chained(p + 1, h, lo, hi)
<1>1. lo \in members /\ hi \in members /\ \A m \in members : lo <= m /\ m <= hi
  BY DEF Ends
<1>2. N \in Nat /\ members \subseteq Nat
  BY DEF ReplicasAssumption, Replica
<1>3. \A u, v \in members : Place(u, v) \in Nat
  BY <1>2, PlaceOfPair
<1> DEFINE m == h[lo]
<1>4. /\ h[lo] = m /\ h[b] = m /\ Proper(kind, m) /\ Under(kind, g[lo], m)
      /\ \A u \in members : u # lo /\ u # b => h[u] = g[u]
  <2>1. h[lo] = Merge(kind, g[lo], g[b]) /\ h[b] = h[lo]
    BY <1>1 DEF Puts
  <2>2. Under(kind, g[lo], h[lo])
    BY <1>1, <2>1, ProperMerge
  <2> QED BY <1>1, <2>1, <2>2 DEF Puts
<1> HIDE DEF m
<1>5. p < Place(lo, hi)
  <2>1. b = hi \/ b < hi
    BY <1>1, <1>2
  <2>2. b < hi => Place(lo, b) < Place(lo, hi)
    BY <1>1, <1>2, PlacesInOrder
  <2> QED BY <2>1, <2>2, <1>1, <1>3
<1>6. ASSUME NEW u \in members, u # lo, u < b PROVE Under(kind, h[u], m)
  <2>1. Place(lo, u) <= p
    <3>1. Place(lo, u) < Place(lo, b)
      BY <1>1, <1>2, <1>6, PlacesInOrder
    <3> QED BY <3>1, <1>1, <1>3
  <2>2. Under(kind, g[u], g[lo])
    BY <2>1, <1>5, <1>6 DEF Chained
  <2>3. Under(kind, g[u], m)
    BY <2>2, <1>1, <1>4, UnderIsOrder
  <2>4. u # b
    BY <1>2, <1>6
  <2> QED BY <2>3, <2>4, <1>4, <1>6
<1>7. ASSUME NEW u \in members, u # lo, Place(lo, u) <= p + 1 PROVE u < b \/ u = b
  <2>1. b < u => Place(lo, b) < Place(lo, u)
    BY <1>1, <1>2, PlacesInOrder
  <2>2. ~ b < u
    BY <2>1, <1>1, <1>3, <1>7
  <2> QED BY <2>2, <1>2
<1>8. ASSUME NEW u \in members, NEW v \in members, u # lo, u < v, Place(lo, v) <= p + 1,
             p + 1 < Place(u, v)
      PROVE  Under(kind, h[u], h[v])
  <2>1. v # lo
    BY <1>1, <1>2, <1>8
  <2>2. CASE v = b
    BY <2>2, <1>4, <1>6, <1>8
  <2>3. CASE v < b
    <3>1. u < b /\ u # b /\ v # b
      BY <2>3, <1>2, <1>8
    <3>2. Place(lo, v) <= p
      <4>1. Place(lo, v) < Place(lo, b)
        BY <2>3, <1>1, <1>2, PlacesInOrder
      <4> QED BY <4>1, <1>1, <1>3
    <3>3. p < Place(u, v)
      BY <1>3, <1>8
    <3>4. Under(kind, g[u], g[v])
      BY <3>2, <3>3, <1>8 DEF Chained
    <3> QED BY <3>1, <3>4, <2>1, <1>4, <1>8
  <2> QED BY <2>1, <2>2, <2>3, <1>7, <1>8
<1>9. ASSUME NEW u \in members, u # lo, Place(lo, u) <= p + 1, p + 1 < Place(lo, hi)
      PROVE  Under(kind, h[u], h[lo])
  <2>1. CASE u = b
    BY <2>1, <1>4, UnderIsOrder
  <2>2. CASE u < b
    BY <2>2, <1>4, <1>6, <1>9
  <2> QED BY <2>1, <2>2, <1>7, <1>9
<1>10. ASSUME NEW u \in members, u < hi, Place(u, hi) <= p + 1
       PROVE  h[u] = h[hi]
  <2>1. u = lo
    <3> SUFFICES ASSUME u # lo PROVE FALSE
      OBVIOUS
    <3>1. lo < u
      BY <1>1, <1>2
    <3>2. Place(lo, hi) < Place(u, hi)
      BY <3>1, <1>1, <1>2, PlacesInOrder
    <3> QED BY <3>2, <1>1, <1>3, <1>5, <1>10
  <2>2. b = hi
    <3>1. b < hi => Place(lo, b) < Place(lo, hi)
      BY <1>1, <1>2, PlacesInOrder
    <3>2. ~ b < hi
      BY <3>1, <2>1, <1>1, <1>3, <1>10
    <3> QED BY <3>2, <1>1, <1>2
  <2> QED BY <2>1, <2>2, <1>4
<1> QED BY <1>8, <1>9, <1>10 DEF Chained

(* Any other member takes over the state of the one it meets.               *)
LEMMA OthersMeet ==
    ASSUME ReplicasAssumption, kind \in Kinds, members \subseteq Replica,
           NEW lo, NEW hi, Ends(lo, hi), NEW p \in Nat,
           NEW g, NEW h, \A r \in Replica : Proper(kind, g[r]),
           Chained(p, g, lo, hi), NEW a \in members, NEW b \in members,
           a # lo, a < b, Place(a, b) = p + 1,
           Puts(h, g, a, b, Merge(kind, g[a], g[b]))
    PROVE  Chained(p + 1, h, lo, hi)
<1>1. lo \in members /\ hi \in members /\ \A m \in members : lo <= m /\ m <= hi
  BY DEF Ends
<1>2. N \in Nat /\ members \subseteq Nat
  BY DEF ReplicasAssumption, Replica
<1>3. \A u, v \in members : Place(u, v) \in Nat
  BY <1>2, PlaceOfPair
<1>4. lo < a /\ a < hi
  BY <1>1, <1>2
<1>5. \A v \in members : Place(lo, v) <= p
  <2> SUFFICES ASSUME NEW v \in members PROVE Place(lo, v) <= p
    OBVIOUS
  <2>1. Place(lo, v) < Place(a, b)
    BY <1>1, <1>2, <1>4, PlacesAreLexicographic
  <2> QED BY <2>1, <1>1, <1>3
<1>6. Under(kind, g[a], g[b])
  BY <1>3, <1>5 DEF Chained
<1>7. Merge(kind, g[a], g[b]) = g[b]
  BY <1>6, MergeOfUnder
<1>8. \A u \in members : h[u] = IF u = a THEN g[b] ELSE g[u]
  BY <1>7 DEF Puts
<1>9. ASSUME NEW u \in members, NEW v \in members, u # lo, u < v, p + 1 < Place(u, v)
      PROVE  Under(kind, h[u], h[v])
  <2>1. v # a
    <3> SUFFICES ASSUME v = a PROVE FALSE
      OBVIOUS
    <3>1. Place(u, a) < Place(a, b)
      BY <1>2, <1>9, PlacesAreLexicographic
    <3> QED BY <3>1, <1>3, <1>9
  <2>2. h[v] = g[v]
    BY <2>1, <1>8
  <2>3. CASE u # a
    <3>1. p < Place(u, v)
      BY <1>3, <1>9
    <3> QED BY <3>1, <2>2, <2>3, <1>5, <1>8, <1>9 DEF Chained
  <2>4. CASE u = a
    <3>1. b < v
      <4>1. v < b => Place(a, v) < Place(a, b)
        BY <1>2, PlacesInOrder
      <4>2. ~ v < b /\ v # b
        BY <4>1, <2>4, <1>3, <1>9
      <4> QED BY <4>2, <1>2
    <3>2. Place(a, b) < Place(b, v)
      BY <1>2, PlacesAreLexicographic
    <3>3. b # lo /\ p < Place(b, v)
      BY <3>2, <1>1, <1>2, <1>3, <1>4
    <3>4. Under(kind, g[b], g[v])
      BY <3>1, <3>3, <1>5 DEF Chained
    <3> QED BY <3>4, <2>2, <2>4, <1>8
  <2> QED BY <2>3, <2>4
<1>10. ~ p + 1 < Place(lo, hi)
  BY <1>1, <1>3, <1>5
<1>11. ASSUME NEW u \in members, u < hi, Place(u, hi) <= p + 1
       PROVE  h[u] = h[hi]
  <2>1. h[hi] = g[hi]
    BY <1>1, <1>2, <1>4, <1>8
  <2>2. CASE Place(u, hi) <= p
    <3>1. u # a
      <4> SUFFICES ASSUME u = a PROVE FALSE
        OBVIOUS
      <4>1. b < hi \/ b = hi
        BY <1>1, <1>2
      <4>2. b < hi => Place(a, b) < Place(a, hi)
        BY <1>1, <1>2, PlacesInOrder
      <4> QED BY <4>1, <4>2, <2>2, <1>1, <1>3
    <3> QED BY <3>1, <2>1, <2>2, <1>8, <1>11 DEF Chained
  <2>3. CASE Place(u, hi) = p + 1
    <3>1. u = a /\ hi = b
      BY <2>3, <1>1, <1>2, PlacesAreLexicographic
    <3> QED BY <3>1, <2>1, <1>8
  <2> QED BY <2>2, <2>3, <1>1, <1>3, <1>11
<1> QED BY <1>9, <1>10, <1>11 DEF Chained

\* A visit of the next place.
LEMMA VisitChains ==
    ASSUME ReplicasAssumption, kind \in Kinds, members \subseteq Replica,
           NEW lo, NEW hi, Ends(lo, hi), NEW p \in Nat, NEW acc, Typed(acc),
           Chained(p, acc.rep, lo, hi), Spreads(p, acc.seen, seen, lo, hi)
    PROVE  /\ Typed(Visit(acc, p + 1)) /\ Chained(p + 1, Visit(acc, p + 1).rep, lo, hi)
           /\ Spreads(p + 1, Visit(acc, p + 1).seen, seen, lo, hi)
<1> DEFINE a == First(p + 1)
           b == Second(p + 1)
           e == Exchange(acc, a, b)
<1>1. N \in Nat \ {0}
  BY DEF ReplicasAssumption, Ends, Replica
<1>2. Place(a, b) = p + 1
  BY <1>1, PairAtPlace
<1>3. CASE ~ Meets(a, b)
  <2>1. Visit(acc, p + 1) = acc
    BY <1>3 DEF Visit
  <2>2. StepOf(acc.seen, acc.seen, p + 1)
    BY <1>3 DEF StepOf
  <2>3. \A c, d \in members : c < d => Place(c, d) # p + 1
    <3> SUFFICES ASSUME NEW c \in members, NEW d \in members, c < d, Place(c, d) = p + 1
                 PROVE  FALSE
      OBVIOUS
    <3>1. a = c /\ b = d
      BY <1>1, PlaceOfPair
    <3> QED BY <3>1, <1>3 DEF Meets
  <2> QED BY <2>1, <2>2, <2>3, <1>1, NobodyMeets, RoundSpreads
<1>4. CASE Meets(a, b)
  <2>1. a \in members /\ b \in members /\ a < b
    BY <1>4 DEF Meets
  <2>2. Visit(acc, p + 1) = e
    BY <1>4 DEF Visit
  <2>3. /\ Typed(e) /\ Joins(e.seen, acc.seen, a, b)
        /\ Puts(e.rep, acc.rep, a, b, Merge(kind, acc.rep[a], acc.rep[b]))
    BY <2>1, ExchangeOf
  <2> HIDE DEF e
  <2>4. StepOf(e.seen, acc.seen, p + 1)
    BY <2>3, <1>4 DEF StepOf
  <2>5. Spreads(p + 1, e.seen, seen, lo, hi)
    BY <2>4, <1>1, RoundSpreads
  <2> HIDE DEF a, b
  <2>6. Chained(p + 1, e.rep, lo, hi)
    <3>1. CASE a = lo
      BY <3>1, <2>1, <2>3, <1>2, FirstMeets DEF Typed
    <3>2. CASE a # lo
      BY <3>2, <2>1, <2>3, <1>2, OthersMeet DEF Typed
    <3> QED BY <3>1, <3>2
  <2> QED BY <2>2, <2>3, <2>5, <2>6
<1> QED BY <1>3, <1>4
-----------------------------------------------------------------------------
\* There are a first and a last member.
LEMMA MembersHaveEnds ==
    ASSUME N \in Nat, members \subseteq Replica, members # {}
    PROVE  \E lo, hi : Ends(lo, hi)
<1>1. members \subseteq Nat /\ IsFiniteSet(members)
  <2>1. IsFiniteSet(1..N)
    BY FS_Interval
  <2>2. IsFiniteSet(members)
    BY <2>1, FS_Subset DEF Replica
  <2> QED BY <2>2 DEF Replica
<1>2. PICK lo \in members : \A m \in members : lo <= m
  BY <1>1, LeastNatural
<1>3. Max(members) \in members /\ \A m \in members : m <= Max(members)
  BY <1>1, LargestNatural
<1> QED BY <1>2, <1>3 DEF Ends

(* A round leaves the members with one state and one set of updates seen:   *)
(* all have met the last.                                                   *)
LEMMA RoundMeetsAll ==
    ASSUME ReplicasAssumption, kind \in Kinds, members \subseteq Replica, members # {},
           Typed(Now)
    PROVE  /\ Typed(AfterRound)
           /\ \A a, b \in members : /\ AfterRound.rep[a] = AfterRound.rep[b]
                                    /\ AfterRound.seen[a] = AfterRound.seen[b]
<1>1. N \in Nat /\ N * N \in Nat
  BY DEF ReplicasAssumption
<1>2. PICK lo, hi : Ends(lo, hi)
  BY <1>1, MembersHaveEnds
<1>3. PICK g : /\ AfterRound = g[N * N] /\ g[0] = Now
               /\ \A p \in Nat : p + 1 <= N * N => g[p + 1] = Visit(g[p], p + 1)
  BY <1>1, RoundVisits
<1> DEFINE Fine(p) == /\ Typed(g[p]) /\ Chained(p, g[p].rep, lo, hi)
                      /\ Spreads(p, g[p].seen, seen, lo, hi)
           Good == {p \in Nat : p <= N * N => Fine(p)}
<1>4. 0 \in Good
  <2>1. Spreads(0, seen, seen, lo, hi) /\ Now.seen = seen
    BY <1>1, <1>2, SpreadsAtFirst DEF Now
  <2>2. \A a, b \in members : Place(a, b) \in Nat /\ Place(a, b) > 0
    <3> SUFFICES ASSUME NEW a \in members, NEW b \in members
                 PROVE  Place(a, b) \in Nat /\ Place(a, b) > 0
      OBVIOUS
    <3>1. a - 1 \in Nat /\ b \in Nat /\ b > 0
      BY DEF Replica
    <3>2. (a - 1) * N \in Nat
      BY <1>1, <3>1
    <3> QED BY <3>1, <3>2 DEF Place
  <2>3. lo \in members /\ hi \in members
    BY <1>2 DEF Ends
  <2>4. Chained(0, Now.rep, lo, hi)
    BY <2>2, <2>3 DEF Chained
  <2> QED BY <2>1, <2>4, <1>3
<1>5. ASSUME NEW p \in Nat, p \in Good PROVE p + 1 \in Good
  <2> SUFFICES ASSUME p + 1 <= N * N PROVE Fine(p + 1)
    OBVIOUS
  <2>1. Fine(p)
    BY <1>1, <1>5
  <2>2. g[p + 1] = Visit(g[p], p + 1)
    BY <1>3
  <2> QED BY <2>1, <2>2, <1>2, VisitChains
<1>6. Nat \subseteq Good
  <2> HIDE DEF Good
  <2> QED BY <1>4, <1>5, SetInduction
<1> DEFINE A == AfterRound
<1>7. Typed(A) /\ Chained(N * N, A.rep, lo, hi) /\ Spreads(N * N, A.seen, seen, lo, hi)
  BY <1>1, <1>3, <1>6
<1> HIDE DEF A
<1>8. \A a \in members : A.rep[a] = A.rep[hi]
  <2>1. \A a \in members : Place(a, hi) <= N * N
    BY <1>1, <1>2, PlaceOfPair DEF Ends
  <2>2. \A a \in members : a < hi \/ a = hi
    BY <1>2 DEF Ends, Replica
  <2> QED BY <2>1, <2>2, <1>7 DEF Chained
<1>9. \A a \in members : A.seen[a] = All(seen)
  BY <1>1, <1>2, <1>7, RoundReachesAll
<1> QED BY <1>7, <1>8, <1>9 DEF A

\* members in one state, nothing changed
OneState(acc, x) == Typed(acc) /\ (\A m \in members : acc.rep[m] = x) /\ ~ acc.changed

\* A round of members in one state changes nothing.
LEMMA RoundChangesNothing ==
    ASSUME ReplicasAssumption, kind \in Kinds, members \subseteq Replica, Typed(Now),
           NEW x, Proper(kind, x), \A m \in members : rep[m] = x
    PROVE  ~ AfterRound.changed
<1>1. N \in Nat /\ N * N \in Nat
  BY DEF ReplicasAssumption
<1>2. PICK g : /\ AfterRound = g[N * N] /\ g[0] = Now
               /\ \A p \in Nat : p + 1 <= N * N => g[p + 1] = Visit(g[p], p + 1)
  BY <1>1, RoundVisits
<1>3. ASSUME NEW acc, OneState(acc, x), NEW p PROVE OneState(Visit(acc, p), x)
  <2> DEFINE a == First(p)
             b == Second(p)
             e == Exchange(acc, a, b)
  <2>1. CASE ~ Meets(a, b)
    BY <2>1, <1>3 DEF Visit
  <2>2. CASE Meets(a, b)
    <3>1. a \in members /\ b \in members
      BY <2>2 DEF Meets
    <3>2. Under(kind, x, x)
      BY UnderIsOrder
    <3>3. Merge(kind, x, x) = x
      BY <3>2, MergeOfUnder
    <3>4. Typed(e) /\ Puts(e.rep, acc.rep, a, b, Merge(kind, acc.rep[a], acc.rep[b]))
      BY <3>1, <1>3, ExchangeOf DEF OneState
    <3>5. acc.rep[a] = x /\ acc.rep[b] = x /\ ~ acc.changed
      BY <3>1, <1>3 DEF OneState
    <3>6. ~ e.changed
      BY <3>3, <3>5 DEF Exchange
    <3> HIDE DEF e
    <3>7. \A m \in members : e.rep[m] = x
      BY <3>3, <3>4, <3>5, <1>3 DEF Puts, OneState
    <3>8. Visit(acc, p) = e
      BY <2>2 DEF Visit, e
    <3> QED BY <3>4, <3>6, <3>7, <3>8 DEF OneState
  <2> QED BY <2>1, <2>2
<1> DEFINE Good == {p \in Nat : p <= N * N => OneState(g[p], x)}
<1>4. 0 \in Good
  <2>1. OneState(Now, x)
    BY DEF OneState, Now
  <2> QED BY <2>1, <1>2
<1>5. ASSUME NEW p \in Nat, p \in Good PROVE p + 1 \in Good
  BY <1>1, <1>2, <1>3, <1>5
<1>6. Nat \subseteq Good
  <2> HIDE DEF Good
  <2> QED BY <1>4, <1>5, SetInduction
<1> QED BY <1>1, <1>2, <1>6 DEF OneState
-----------------------------------------------------------------------------
(* What replicas are, whatever the callers pass; between two rounds of      *)
(* converge() the members are in one state.                                 *)
TypedInv ==
    /\ kind \in Kinds /\ members \subseteq Replica
    /\ DOMAIN rep = Replica /\ DOMAIN seen = Replica
    /\ \A r \in Replica : Proper(kind, rep[r])
    /\ pass \in [done : Nat, left : Nat]
    /\ pass.left > 0 => members # {}
    /\ pass.done > 0 => \A a, b \in members : rep[a] = rep[b]

\* An update turns a state into a state.
LEMMA UpdateIsTyped ==
    ASSUME ReplicasAssumption, TypedInv, NEW r \in Replica, Update(r)
    PROVE  TypedInv'
<1>1. /\ kind \in Kinds /\ members \subseteq Replica /\ DOMAIN rep = Replica
      /\ DOMAIN seen = Replica
      /\ \A q \in Replica : Proper(kind, rep[q])
      /\ Proper(kind, rep[r])
  BY DEF TypedInv
<1>2. ASSUME NEW x, NEW op, Updated(r, x, op), Proper(kind, x) PROVE TypedInv'
  <2>1. /\ rep' = [rep EXCEPT ![r] = x] /\ kind' = kind /\ members' = members
        /\ pass = NoPass /\ pass' = pass
        /\ seen' = [seen EXCEPT ![r] = @ \cup {Len(ops) + 1}]
    BY <1>2 DEF Updated
  <2>2. DOMAIN rep' = Replica /\ DOMAIN seen' = Replica
    BY <2>1, <1>1
  <2>3. \A q \in Replica : Proper(kind, rep'[q])
    BY <2>1, <1>1, <1>2
  <2>4. /\ pass' \in [done : Nat, left : Nat] /\ ~ pass'.left > 0 /\ ~ pass'.done > 0
    BY <2>1 DEF NoPass
  <2> QED BY <2>1, <2>2, <2>3, <2>4, <1>1 DEF TypedInv
<1>3. ASSUME NEW n \in Amounts, IncrementG(r, n) PROVE TypedInv'
  <2> DEFINE c == [rep[r].counts EXCEPT ![r] = @ + n]
             x == [counts |-> c]
  <2>1. kind = "GCounter" /\ Updated(r, x, Counted(r, n)) /\ n \in Nat
    BY <1>3 DEF IncrementG, ReplicasAssumption
  <2>2. rep[r].counts \in [Replica -> Nat]
    BY <2>1, <1>1, ProperOf
  <2>3. c \in [Replica -> Nat]
    BY <2>1, <2>2
  <2> HIDE DEF c
  <2>4. Proper("GCounter", x)
    BY <2>3, ProperOf
  <2> HIDE DEF x
  <2> QED BY <2>1, <2>4, <1>2
<1>4. ASSUME NEW n \in Amounts, IncrementPN(r, n) \/ Decrement(r, n) PROVE TypedInv'
  <2> DEFINE p == rep[r].positive
             m == rep[r].negative
  <2>1. kind = "PNCounter" /\ n \in Nat
    BY <1>4 DEF IncrementPN, Decrement, ReplicasAssumption
  <2>2. /\ rep[r] = Balance(p, m) /\ p \in [Replica -> Nat] /\ m \in [Replica -> Nat]
    BY <2>1, <1>1, ProperOf DEF Balance
  <2>3. \/ Updated(r, Raised(rep[r], r, n), Counted(r, n))
        \/ Updated(r, Lowered(rep[r], r, n), Counted(r, -n))
    BY <1>4 DEF IncrementPN, Decrement, Raised, Lowered
  <2> HIDE DEF p, m
  <2>4. /\ Raised(rep[r], r, n) = Balance(Plus(p, r, n), m)
        /\ Lowered(rep[r], r, n) = Balance(p, Plus(m, r, n))
    BY <2>1, <2>2, BalanceChanges
  <2>5. Plus(p, r, n) \in [Replica -> Nat] /\ Plus(m, r, n) \in [Replica -> Nat]
    BY <2>1, <2>2 DEF Plus
  <2>6. \A f, h \in [Replica -> Nat] : Proper("PNCounter", Balance(f, h))
    BY ProperOf DEF Balance
  <2> QED BY <2>1, <2>2, <2>3, <2>4, <2>5, <2>6, <1>2
<1>5. ASSUME NEW e \in Elements, AddG(r, e) PROVE TypedInv'
  <2>1. /\ kind = "GSet"
        /\ Updated(r, [elements |-> rep[r].elements \cup {e}], Edited("add", r, e))
    BY <1>5 DEF AddG
  <2>2. Proper("GSet", [elements |-> rep[r].elements \cup {e}])
    BY ProperOf
  <2> QED BY <2>1, <2>2, <1>2
<1>6. ASSUME kind = "ORSet"
      PROVE  /\ rep[r].counter \in Nat
             /\ rep[r] = Sets(rep[r].adds, rep[r].removed, rep[r].counter)
             /\ \A D : /\ Proper(kind, Adding(rep[r], D)) /\ Proper(kind, AddingTo(rep[r], D))
                       /\ Proper(kind, Removing(rep[r], D))
  <2> DEFINE A == rep[r].adds
             R == rep[r].removed
             c == rep[r].counter
  <2>1. rep[r] = Sets(A, R, c) /\ c \in Nat
    BY <1>1, <1>6, ProperOf
  <2>2. \A B, Q : \A d \in Nat : Proper("ORSet", Sets(B, Q, d))
    BY ProperOf DEF Sets
  <2> HIDE DEF A, R, c
  <2>3. ASSUME NEW D
        PROVE  /\ Adding(rep[r], D) = Sets(A \cup D, R, c + 1)
               /\ AddingTo(rep[r], D) = Sets(A \cup D, R, c)
               /\ Removing(rep[r], D) = Sets(A, R \cup D, c)
    BY <2>1, AddingToSets, AddingTagged, RemovingFromSets
  <2>4. c + 1 \in Nat
    BY <2>1
  <2>5. ASSUME NEW D
        PROVE  /\ Proper(kind, Adding(rep[r], D)) /\ Proper(kind, AddingTo(rep[r], D))
               /\ Proper(kind, Removing(rep[r], D))
    <3>1. /\ Proper("ORSet", Sets(A \cup D, R, c + 1)) /\ Proper("ORSet", Sets(A \cup D, R, c))
          /\ Proper("ORSet", Sets(A, R \cup D, c))
      BY <2>1, <2>2, <2>4
    <3> QED BY <3>1, <2>3, <1>6
  <2>6. rep[r].counter \in Nat /\ rep[r] = Sets(rep[r].adds, rep[r].removed, rep[r].counter)
    BY <2>1 DEF A, R, c
  <2> QED BY <2>5, <2>6
<1>7. ASSUME NEW e \in Elements, AddOR(r, e) PROVE TypedInv'
  <2> DEFINE x == Adding(rep[r], {<<e, NextTag(r)>>})
  <2>1. kind = "ORSet" /\ Updated(r, x, Tagged(r, e, NextTag(r), TRUE))
    BY <1>7 DEF AddOR, Adding
  <2>2. Proper(kind, x)
    BY <2>1, <1>6
  <2> HIDE DEF x
  <2> QED BY <2>1, <2>2, <1>2
<1>8. ASSUME NEW e \in Elements, NEW t \in Tags, AddTagged(r, e, t) PROVE TypedInv'
  <2> DEFINE x == AddingTo(rep[r], {<<e, t>>})
  <2>1. kind = "ORSet" /\ Updated(r, x, Tagged(r, e, t, FALSE))
    BY <1>8 DEF AddTagged, AddingTo
  <2>2. Proper(kind, x)
    BY <2>1, <1>6
  <2> HIDE DEF x
  <2> QED BY <2>1, <2>2, <1>2
<1>9. ASSUME NEW e \in Elements, RemoveOR(r, e) PROVE TypedInv'
  <2> DEFINE x == Removing(rep[r], TagsOf(rep[r], e))
  <2>1. kind = "ORSet" /\ Updated(r, x, Edited("remove", r, e))
    BY <1>9 DEF RemoveOR, Removing, TagsOf
  <2>2. Proper(kind, x)
    BY <2>1, <1>6
  <2> HIDE DEF x
  <2> QED BY <2>1, <2>2, <1>2
<1>10. ASSUME NEW v \in Values, Set(r, v) PROVE TypedInv'
  <2> DEFINE f(t) == [rep[r].version EXCEPT ![r] = Larger(@, t)]
             x(t) == [value |-> v, timestamp |-> t, writer |-> r, version |-> f(t)]
  <2>1. kind \in Registers
    BY <1>10 DEF Set
  <2>2. rep[r] \in Register
    BY <2>1, <1>1, ProperOf
  <2>3. PICK t \in Times(r) : Updated(r, x(t), Stamped(r, v, t))
    BY <1>10 DEF Set
  <2>4. rep[r].timestamp \in Nat /\ rep[r].version \in [Replica -> Nat]
    BY <2>2, RegisterFields
  <2>5. t \in Nat
    <3>1. t = rep[r].timestamp + 1 \/ t \in Stamps
      BY <2>3 DEF Times
    <3>2. CASE t = rep[r].timestamp + 1
      <4>1. \A s \in Nat : s + 1 \in Nat
        OBVIOUS
      <4> QED BY <3>2, <4>1, <2>4, Zenon
    <3>3. CASE t \in Stamps
      BY <3>3, ReplicasAssumption DEF ReplicasAssumption
    <3> QED BY <3>1, <3>2, <3>3
  <2>6. f(t) \in [Replica -> Nat]
    BY <2>4, <2>5 DEF Larger
  <2> DEFINE g == f(t)
             y == x(t)
  <2>7. y = [value |-> v, timestamp |-> t, writer |-> r, version |-> g]
    OBVIOUS
  <2> HIDE DEF g, f
  <2>8. y \in Register
    BY <2>5, <2>6 DEF Register, g
  <2> HIDE DEF y, x
  <2>9. Proper(kind, y)
    BY <2>1, <2>8, ProperOf
  <2> QED BY <2>3, <2>9, <1>2 DEF y
<1> QED BY <1>3, <1>4, <1>5, <1>7, <1>8, <1>9, <1>10 DEF Update

\* A round of states ends with one state, and a second changes nothing.
LEMMA RoundIsTyped ==
    ASSUME ReplicasAssumption, TypedInv, Round
    PROVE  /\ TypedInv' /\ Agree(rep)'
           /\ pass.done > 0 => pass' = NoPass
           /\ \A a, b \in members : seen'[a] = seen'[b]
<1> DEFINE A == AfterRound
<1>1. /\ pass.left > 0 /\ rep' = A.rep /\ seen' = A.seen
      /\ UNCHANGED <<kind, members, ops>>
      /\ pass' = IF (Agree(A.rep) /\ ~ A.changed) \/ pass.left = 1
                 THEN NoPass
                 ELSE [done |-> pass.done + 1, left |-> pass.left - 1]
  BY DEF Round
<1>2. /\ kind \in Kinds /\ members \subseteq Replica /\ members # {} /\ Typed(Now)
      /\ pass \in [done : Nat, left : Nat]
      /\ \A r \in Replica : Proper(kind, rep[r])
      /\ pass.done > 0 => \A a, b \in members : rep[a] = rep[b]
  BY <1>1 DEF TypedInv, Typed, Now
<1>3. /\ Typed(A)
      /\ \A a, b \in members : A.rep[a] = A.rep[b] /\ A.seen[a] = A.seen[b]
  BY <1>2, RoundMeetsAll
<1>4. ASSUME pass.done > 0 PROVE ~ A.changed
  <2>1. PICK m \in members : TRUE
    BY <1>2
  <2>2. Proper(kind, rep[m]) /\ \A a \in members : rep[a] = rep[m]
    BY <1>2, <1>4
  <2> QED BY <2>2, <1>2, RoundChangesNothing
<1> HIDE DEF A
<1>5. Agree(A.rep)
  BY <1>3 DEF Agree
<1>6. /\ Agree(rep)' /\ \A a, b \in members : seen'[a] = seen'[b]
      /\ pass.done > 0 => pass' = NoPass
  BY <1>1, <1>3, <1>4, <1>5 DEF Agree
<1>7. pass' \in [done : Nat, left : Nat]
  <2>1. pass.left \in Nat /\ pass.done \in Nat
    BY <1>2
  <2>2. pass.left - 1 \in Nat /\ pass.done + 1 \in Nat
    BY <2>1, <1>1
  <2> QED BY <2>2, <1>1 DEF NoPass
<1>8. TypedInv'
  BY <1>1, <1>2, <1>3, <1>7 DEF TypedInv, Typed
<1> QED BY <1>6, <1>8

(* Every step keeps what the replicas are.                                  *)
LEMMA TypedInvNext ==
    ASSUME ReplicasAssumption, TypedInv, [Next]_vars
    PROVE  TypedInv'
<1>1. CASE UNCHANGED vars
  BY <1>1 DEF vars, TypedInv
<1>2. ASSUME NEW r \in Replica, AddReplica(r) PROVE TypedInv'
  <2>1. /\ members' = members \cup {r} /\ pass = NoPass
        /\ UNCHANGED <<kind, rep, pass, ops, seen>>
    BY <1>2 DEF AddReplica
  <2>2. ~ pass.left > 0 /\ ~ pass.done > 0
    BY <2>1 DEF NoPass
  <2> QED BY <2>1, <2>2 DEF TypedInv
<1>3. ASSUME NEW a \in Replica, NEW b \in Replica, Sync(a, b) PROVE TypedInv'
  <2> DEFINE e == Exchange(Now, a, b)
  <2>1. /\ rep' = e.rep /\ seen' = e.seen /\ pass = NoPass
        /\ UNCHANGED <<kind, members, pass, ops>>
    BY <1>3 DEF Sync
  <2>2. kind \in Kinds /\ Typed(Now)
    BY DEF TypedInv, Typed, Now
  <2>3. Typed(e)
    BY <2>2, ExchangeOf
  <2>4. ~ pass.left > 0 /\ ~ pass.done > 0
    BY <2>1 DEF NoPass
  <2> HIDE DEF e
  <2> QED BY <2>1, <2>3, <2>4 DEF TypedInv, Typed
<1>4. ASSUME NEW limit \in RoundLimits, StartConverge(limit) PROVE TypedInv'
  <2>1. /\ pass' = [done |-> 0, left |-> limit] /\ Cardinality(members) >= 2
        /\ UNCHANGED <<kind, members, rep, ops, seen>>
    BY <1>4 DEF StartConverge
  <2>2. limit \in Nat
    BY DEF ReplicasAssumption
  <2>3. members # {}
    BY <2>1, FS_EmptySet
  <2>4. pass' \in [done : Nat, left : Nat] /\ ~ pass'.done > 0
    BY <2>1, <2>2
  <2> QED BY <2>1, <2>3, <2>4 DEF TypedInv
<1> QED BY <1>1, <1>2, <1>3, <1>4, UpdateIsTyped, RoundIsTyped DEF Next

(* The replicas of an engine are states of their type, and those of the     *)
(* members agree between two rounds of converge().                          *)
LEMMA ReplicasAreTyped == Spec => []TypedInv
<1>1. ReplicasAssumption
  BY ReplicasAssumption
<1>2. Init => TypedInv
  <2> SUFFICES ASSUME Init PROVE TypedInv
    OBVIOUS
  <2>1. /\ kind \in Kinds /\ members = {} /\ pass = NoPass
        /\ rep = [r \in Replica |-> Empty(kind, r)] /\ seen = [r \in Replica |-> {}]
    BY DEF Init
  <2>2. Zero \in [Replica -> Nat]
    BY DEF Zero
  <2>3. ASSUME NEW r \in Replica PROVE Proper(kind, Empty(kind, r))
    <3>1. CASE kind = "GCounter"
      <4>1. Empty(kind, r) = [counts |-> Zero]
        BY <3>1 DEF Empty, Registers
      <4> QED BY <4>1, <3>1, <2>2, ProperOf
    <3>2. CASE kind = "PNCounter"
      <4>1. Empty(kind, r) = [positive |-> Zero, negative |-> Zero]
        BY <3>2 DEF Empty, Registers
      <4> QED BY <4>1, <3>2, <2>2, ProperOf
    <3>3. CASE kind = "GSet"
      <4>1. Empty(kind, r) = [elements |-> {}]
        BY <3>3 DEF Empty, Registers
      <4> QED BY <4>1, <3>3, ProperOf
    <3>4. CASE kind = "ORSet"
      <4>1. Empty(kind, r) = [adds |-> {}, removed |-> {}, counter |-> 0]
        BY <3>4 DEF Empty, Registers
      <4> QED BY <4>1, <3>4, ProperOf DEF Sets
    <3>5. CASE kind \in Registers
      <4>1. Empty(kind, r) =
                [value |-> NullValue, timestamp |-> 0, writer |-> r, version |-> Zero]
        BY <3>5 DEF Empty, Registers
      <4>2. Empty(kind, r) \in Register
        BY <4>1, <2>2 DEF Register
      <4> QED BY <4>2, <3>5, ProperOf
    <3> QED BY <2>1, <3>1, <3>2, <3>3, <3>4, <3>5, KindsAreSix
  <2> QED BY <2>1, <2>3 DEF TypedInv, NoPass
<1>3. TypedInv /\ [Next]_vars => TypedInv'
  BY <1>1, TypedInvNext
<1> QED BY <1>2, <1>3, PTL DEF Spec

(* One round of converge() leaves all members with one state and            *)
(* everything any of them knew; a second changes nothing, so that           *)
(* converge() returns. Of registers, too, to which callers pass any         *)
(* timestamps: what the first member met before is under what it has, and   *)
(* what the last member has when they meet is what all end with, although   *)
(* merging registers of the vector policy need not commute.                 *)
THEOREM ConvergeNeedsTwoRounds == Spec => ConvergeReachesAll
<1>1. ReplicasAssumption
  BY ReplicasAssumption
<1>2. ASSUME TypedInv, [Next]_vars
      PROVE  [pass # NoPass =>
                 /\ Agree(rep)'
                 /\ pass.done = 1 => pass' = NoPass
                 /\ \A a, b \in members : seen'[a] = seen'[b]]_<<pass, rep, seen>>
  <2>1. CASE UNCHANGED vars
    BY <2>1 DEF vars
  <2>2. CASE Next /\ pass # NoPass
    <3>1. Round
      BY <2>2 DEF Next, AddReplica, Update, IncrementG, IncrementPN, Decrement, AddG,
             AddOR, AddTagged, RemoveOR, Set, Updated, Sync, StartConverge
    <3>2. pass \in [done : Nat, left : Nat]
      BY <1>2 DEF TypedInv
    <3> QED BY <3>1, <3>2, <1>1, <1>2, RoundIsTyped
  <2>3. CASE Next /\ pass = NoPass
    BY <2>3
  <2> QED BY <2>1, <2>2, <2>3, <1>2
<1> QED BY <1>2, ReplicasAreTyped, PTL DEF Spec, ConvergeReachesAll
-----------------------------------------------------------------------------
\* The larger counts obey the laws.
LEMMA LargerIsLawful ==
    ASSUME NEW f \in [Replica -> Nat], NEW g \in [Replica -> Nat], NEW h \in [Replica -> Nat]
    PROVE  /\ MaxOf(f, f) = f /\ MaxOf(f, g) = MaxOf(g, f)
           /\ MaxOf(MaxOf(f, g), g) = MaxOf(f, g)
           /\ MaxOf(MaxOf(f, g), h) = MaxOf(f, MaxOf(g, h))
<1>1. \A w \in Replica : f[w] \in Nat /\ g[w] \in Nat /\ h[w] \in Nat
  OBVIOUS
<1>2. \A a, b, c \in Nat :
          /\ Larger(a, a) = a /\ Larger(a, b) = Larger(b, a)
          /\ Larger(Larger(a, b), b) = Larger(a, b)
          /\ Larger(Larger(a, b), c) = Larger(a, Larger(b, c))
  BY DEF Larger
<1>3. MaxOf(f, f) = f
  <2>1. \A w \in Replica : Larger(f[w], f[w]) = f[w]
    BY <1>1, <1>2
  <2> QED BY <2>1 DEF MaxOf
<1>4. MaxOf(f, g) = MaxOf(g, f)
  BY <1>1, <1>2 DEF MaxOf
<1>5. /\ \A w \in Replica : MaxOf(f, g)[w] = Larger(f[w], g[w])
      /\ \A w \in Replica : MaxOf(g, h)[w] = Larger(g[w], h[w])
  BY DEF MaxOf
<1>6. MaxOf(MaxOf(f, g), g) = MaxOf(f, g)
  <2>1. \A w \in Replica : Larger(MaxOf(f, g)[w], g[w]) = Larger(f[w], g[w])
    BY <1>1, <1>2, <1>5
  <2> QED BY <2>1 DEF MaxOf
<1>7. MaxOf(MaxOf(f, g), h) = MaxOf(f, MaxOf(g, h))
  <2>1. \A w \in Replica : Larger(MaxOf(f, g)[w], h[w]) = Larger(f[w], MaxOf(g, h)[w])
    BY <1>1, <1>2, <1>5
  <2> QED BY <2>1 DEF MaxOf
<1> QED BY <1>3, <1>4, <1>6, <1>7

\* Two registers with one version that show one write are one.
LEMMA OneRegister ==
    ASSUME ReplicasAssumption, NEW x \in Register, NEW y \in Register,
           SameWrite(x, y), x.version = y.version
    PROVE  x = y
  BY RegisterFields DEF SameWrite

\* Showing one write is an equivalence.
LEMMA SameWrites ==
    /\ \A x, y : SameWrite(x, y) => SameWrite(y, x)
    /\ \A x, y, z : SameWrite(x, y) /\ SameWrite(y, z) => SameWrite(x, z)
  BY DEF SameWrite

(* Under the Lamport policy the laws hold of any registers: writes are      *)
(* totally ordered.                                                         *)
LEMMA LamportIsLawful ==
    ASSUME ReplicasAssumption, NEW x \in Register, NEW y \in Register, NEW z \in Register
    PROVE  LET k == "Lamport"
           IN  /\ Idempotent(k, x) /\ Commutes(k, x, y) /\ Absorbs(k, x, y)
               /\ Associates(k, x, y, z)
<1> DEFINE k == "Lamport"
<1>1. k \in Registers /\ k # "ORSet"
  BY DEF Registers
<1>2. ASSUME NEW a \in Register, NEW b \in Register
      PROVE  /\ Merge(k, a, b) \in Register
             /\ Merge(k, a, b).version = MaxOf(a.version, b.version)
             /\ Later(a, b) => SameWrite(Merge(k, a, b), a)
             /\ ~ Later(a, b) => SameWrite(Merge(k, a, b), b)
  <2>1. Merge(k, a, b) = MergeRegisters(k, a, b)
    BY <1>1, MergeOfRegisters
  <2>2. Dominates(k, a, b) <=> Later(a, b)
    BY DEF Dominates
  <2> QED BY <2>1, <2>2, <1>1, RegisterMerged
<1>3. \A a \in Register : State(k, a) = a
  BY DEF State
<1> HIDE DEF k
<1>4. /\ x.version \in [Replica -> Nat] /\ y.version \in [Replica -> Nat]
      /\ z.version \in [Replica -> Nat]
  BY RegisterFields
<1> DEFINE xx == Merge(k, x, x)
           xy == Merge(k, x, y)
           yx == Merge(k, y, x)
           yz == Merge(k, y, z)
           xyy == Merge(k, xy, y)
           l == Merge(k, xy, z)
           m == Merge(k, x, yz)
<1>5. /\ xx \in Register /\ xx.version = MaxOf(x.version, x.version)
      /\ SameWrite(xx, x)
  BY <1>2
<1>6. /\ xy \in Register /\ xy.version = MaxOf(x.version, y.version)
      /\ Later(x, y) => SameWrite(xy, x)
      /\ ~ Later(x, y) => SameWrite(xy, y)
  BY <1>2
<1>7. /\ yx \in Register /\ yx.version = MaxOf(y.version, x.version)
      /\ Later(y, x) => SameWrite(yx, y)
      /\ ~ Later(y, x) => SameWrite(yx, x)
  BY <1>2
<1>8. /\ yz \in Register /\ yz.version = MaxOf(y.version, z.version)
      /\ Later(y, z) => SameWrite(yz, y)
      /\ ~ Later(y, z) => SameWrite(yz, z)
  BY <1>2
<1>9. /\ xyy \in Register /\ xyy.version = MaxOf(xy.version, y.version)
      /\ Later(xy, y) => SameWrite(xyy, xy)
      /\ ~ Later(xy, y) => SameWrite(xyy, y)
  BY <1>2, <1>6
<1>10. /\ l \in Register /\ l.version = MaxOf(xy.version, z.version)
       /\ Later(xy, z) => SameWrite(l, xy)
       /\ ~ Later(xy, z) => SameWrite(l, z)
  BY <1>2, <1>6
<1>11. /\ m \in Register /\ m.version = MaxOf(x.version, yz.version)
       /\ Later(x, yz) => SameWrite(m, x)
       /\ ~ Later(x, yz) => SameWrite(m, yz)
  BY <1>2, <1>8
<1> HIDE DEF xx, xy, yx, yz, xyy, l, m
<1>12. xx = x
  BY <1>4, <1>5, LargerIsLawful, OneRegister
<1>13. xy = yx
  <2>1. SameWrite(xy, yx)
    BY <1>6, <1>7, LaterIsTotal, SameWrites
  <2> QED BY <2>1, <1>4, <1>6, <1>7, LargerIsLawful, OneRegister
<1>14. xyy = xy
  <2>1. SameWrite(xyy, xy)
    <3>1. CASE Later(x, y)
      <4>1. Later(xy, y)
        BY <3>1, <1>6, LaterIsTotal
      <4> QED BY <4>1, <1>9
    <3>2. CASE ~ Later(x, y)
      BY <3>2, <1>6, <1>9, SameWrites
    <3> QED BY <3>1, <3>2
  <2>2. xyy.version = xy.version
    BY <1>4, <1>6, <1>9, LargerIsLawful
  <2> QED BY <2>1, <2>2, <1>6, <1>9, OneRegister
<1>15. l = m
  <2>1. CASE Later(x, y)
    <3>1. Later(xy, z) = Later(x, z) /\ SameWrite(xy, x)
      BY <2>1, <1>6, LaterIsTotal
    <3>2. CASE Later(y, z)
      <4>1. Later(x, yz) /\ Later(x, z)
        BY <2>1, <3>2, <1>8, LaterIsTotal
      <4> QED BY <4>1, <3>1, <1>10, <1>11, SameWrites, OneRegister, LargerIsLawful, <1>4, <1>6, <1>8
    <3>3. CASE ~ Later(y, z)
      <4>1. Later(x, yz) = Later(x, z) /\ SameWrite(yz, z)
        BY <3>3, <1>8, LaterIsTotal
      <4>2. SameWrite(l, m)
        BY <4>1, <3>1, <1>10, <1>11, SameWrites
      <4> QED BY <4>2, <1>4, <1>6, <1>8, <1>10, <1>11, OneRegister, LargerIsLawful
    <3> QED BY <3>2, <3>3
  <2>2. CASE ~ Later(x, y)
    <3>1. Later(xy, z) = Later(y, z) /\ SameWrite(xy, y)
      BY <2>2, <1>6, LaterIsTotal
    <3>2. ~ Later(x, yz)
      BY <2>2, <1>8, LaterIsTotal
    <3>3. SameWrite(l, m)
      BY <3>1, <3>2, <1>8, <1>10, <1>11, SameWrites
    <3> QED BY <3>3, <1>4, <1>6, <1>8, <1>10, <1>11, OneRegister, LargerIsLawful
  <2> QED BY <2>1, <2>2
<1> QED BY <1>3, <1>5, <1>6, <1>7, <1>9, <1>10, <1>11, <1>12, <1>13, <1>14, <1>15
       DEF Idempotent, Commutes, Absorbs, Associates, xx, xy, yx, yz, xyy, l, m, k

(* Hence merge() is idempotent, commutes, absorbs and associates on all     *)
(* states that replicas reach (verify_crdt_laws), for any number of         *)
(* replicas and updates: each side of a law is faithful to the same set of  *)
(* updates, and that set determines what is hashed. Registers of the        *)
(* Lamport policy need no such set, so their callers may pass any           *)
(* timestamps; those of the vector policy only later ones than the          *)
(* register's, or merging does not even commute.                            *)
THEOREM ReplicasMergeLawfully ==
    Spec /\ (kind = "Vector" => ~ StampsMayLag) => []MergeLaws
<1>1. N \in Nat /\ ReplicasAssumption
  BY ReplicasAssumption DEF ReplicasAssumption
<1>2. ASSUME RepInv PROVE MergeLaws
  <2>1. kind \in Kinds /\ History(kind, ops)
    BY <1>2 DEF RepInv
  <2>2. ASSUME NEW a \in Replica, NEW b \in Replica, NEW c \in Replica
        PROVE  /\ Idempotent(kind, rep[a]) /\ Commutes(kind, rep[a], rep[b])
               /\ Absorbs(kind, rep[a], rep[b])
               /\ Associates(kind, rep[a], rep[b], rep[c])
    <3>1. PICK u \in Replica : Faithful(kind, rep[a], seen[a], u, ops)
      BY <1>2 DEF RepInv, FaithfulTo
    <3>2. PICK v \in Replica : Faithful(kind, rep[b], seen[b], v, ops)
      BY <1>2 DEF RepInv, FaithfulTo
    <3>3. PICK w \in Replica : Faithful(kind, rep[c], seen[c], w, ops)
      BY <1>2 DEF RepInv, FaithfulTo
    <3>4. /\ CausallyClosed(seen[a], ops)
          /\ CausallyClosed(seen[b], ops)
          /\ CausallyClosed(seen[c], ops)
      BY <1>2 DEF RepInv
    <3> QED BY <1>1, <2>1, <3>1, <3>2, <3>3, <3>4, MergeIsLawful
  <2> QED BY <2>2 DEF MergeLaws
<1>3. ASSUME TypedInv, kind = "Lamport" PROVE MergeLaws
  <2>1. \A r \in Replica : rep[r] \in Register
    BY <1>3, ProperOf DEF TypedInv, Registers
  <2>2. \A a, b, c \in Replica :
            /\ Idempotent(kind, rep[a]) /\ Commutes(kind, rep[a], rep[b])
            /\ Absorbs(kind, rep[a], rep[b])
            /\ Associates(kind, rep[a], rep[b], rep[c])
    BY <1>1, <1>3, <2>1, LamportIsLawful
  <2> QED BY <2>2 DEF MergeLaws
<1>4. kind = "Lamport" /\ [Next]_vars => (kind = "Lamport")'
  BY DEF Next, vars, AddReplica, Update, IncrementG, IncrementPN, Decrement, AddG,
     AddOR, AddTagged, RemoveOR, Set, Updated, Sync, StartConverge, Round
<1>5. (kind = "Vector" => ~ StampsMayLag) => StampsAdvance \/ kind = "Lamport"
  BY DEF StampsAdvance, Registers
<1> QED BY <1>2, <1>3, <1>4, <1>5, ReplicasAreFaithful, ReplicasAreTyped, PTL DEF Spec
-----------------------------------------------------------------------------
\* The text null is none of the values.
LEMMA NullIsNoValue ==
    ASSUME ReplicasAssumption PROVE NullValue \notin Values
<1> DEFINE S == {0} \cup Values
<1>1. S \subseteq Nat /\ IsFiniteSet(S) /\ S # {}
  <2>1. Values \subseteq Nat /\ IsFiniteSet(Values)
    BY DEF ReplicasAssumption
  <2>2. IsFiniteSet(Values \cup {0})
    BY <2>1, FS_AddElement
  <2>3. S = Values \cup {0}
    OBVIOUS
  <2> QED BY <2>1, <2>2, <2>3
<1>2. Max(S) \in S /\ \A n \in S : n <= Max(S)
  <2> HIDE DEF S
  <2> QED BY <1>1, LargestNatural
<1>3. Max(S) \in Nat /\ \A v \in Values : v \in Nat /\ v <= Max(S)
  BY <1>1, <1>2
<1>4. NullValue = 1 + Max(S)
  BY DEF NullValue
<1> HIDE DEF S
<1> QED BY <1>3, <1>4

\* A grow-only counter shows the total of the updates seen.
LEMMA CounterShows ==
    ASSUME N \in Nat, NEW o, History("GCounter", o), NEW S, NEW x, CounterOf(x, S, o)
    PROVE  Value("GCounter", x) = {TotalOf(S, o)}
<1>1. Isolated(o) /\ Len(o) \in Nat /\ DOMAIN o = 1..Len(o)
  BY HistoryOf
<1>2. /\ Gain(o) \in [1..Len(o) -> Nat]
      /\ \A i \in 1..Len(o) : o[i].amount \in Int /\ o[i].amount > 0
  BY GainsAreNatural
<1>3. Counts(x.counts, S, Gain(o), o)
  BY DEF CounterOf
<1>4. SumOf(x.counts) = Weight(S, Gain(o), Len(o))
  BY <1>1, <1>2, <1>3, WeightsAddUp
<1>5. Weight(S, Gain(o), Len(o)) = TotalOf(S, o)
  <2> DEFINE t == Terms(S, Gain(o), Len(o))
             v == [i \in DOMAIN o |-> IF i \in S THEN o[i].amount ELSE 0]
  <2>1. \A i \in 1..Len(o) : t[i] = v[i]
    BY <1>1, <1>2 DEF Terms, Gain
  <2> HIDE DEF t, v
  <2>2. SumTo(t, Len(o)) = SumTo(v, Len(o))
    BY <2>1, <1>1, SumSame
  <2> QED BY <2>2 DEF t, v, Weight, TotalOf
<1>6. Value("GCounter", x) = {SumOf(x.counts)}
  BY DEF Value, Registers
<1> QED BY <1>4, <1>5, <1>6

\* An up-down counter shows the total of the updates seen.
LEMMA BalanceShows ==
    ASSUME N \in Nat, NEW o, History("PNCounter", o), NEW S, NEW x, BalanceOf(x, S, o)
    PROVE  Value("PNCounter", x) = {TotalOf(S, o)}
<1>1. Isolated(o) /\ Len(o) \in Nat /\ DOMAIN o = 1..Len(o)
  BY HistoryOf
<1>2. \A i \in 1..Len(o) : o[i].amount \in Int
  BY GainsAreNatural
<1>3. /\ Counts(x.positive, S, Gain(o), o) /\ Counts(x.negative, S, Loss(o), o)
  BY DEF BalanceOf
<1>4. SumOf(x.positive) - SumOf(x.negative) = TotalOf(S, o)
  BY <1>1, <1>2, <1>3, CountsAddUp
<1>5. Value("PNCounter", x) = {SumOf(x.positive) - SumOf(x.negative)}
  BY DEF Value, Registers
<1> QED BY <1>4, <1>5

\* A register shows the latest write seen, or nothing.
LEMMA RegisterShows ==
    ASSUME ReplicasAssumption, NEW k \in Registers, NEW o, StampedBy(o),
           NEW S, CausallyClosed(S, o), NEW w, NEW x, RegisterOf(x, S, w, o)
    PROVE  /\ S = {} => Value(k, x) = {}
           /\ \A i \in S : Leads(i, S, o) => Value(k, x) = {o[i].element}
           /\ S # {} => \E i \in S : Leads(i, S, o)
<1>1. Value(k, x) = {x.value} \ {NullValue}
  BY DEF Value, Registers
<1>2. S = {} => x.value = NullValue
  BY DEF RegisterOf
<1>3. S # {} => \E i \in S : Holds(x, i, o) /\ Leads(i, S, o)
  BY DEF RegisterOf
<1>4. ASSUME NEW i \in S, Leads(i, S, o) PROVE Value(k, x) = {o[i].element}
  <2>1. PICK j \in S : Holds(x, j, o) /\ Leads(j, S, o)
    BY <1>3
  <2>2. N \in Nat
    BY DEF ReplicasAssumption
  <2>3. i = j
    BY <2>1, <2>2, <1>4, LatestIsOne
  <2>4. x.value = o[i].element
    BY <2>1, <2>3 DEF Holds
  <2>5. o[i].element \in Values
    BY StampTypes DEF CausallyClosed
  <2>6. o[i].element # NullValue
    BY <2>5, NullIsNoValue
  <2> QED BY <2>4, <2>6, <1>1
<1> QED BY <1>1, <1>2, <1>3, <1>4

(* What a replica shows is what the updates it has seen make of the object. *)
LEMMA ShowsWhatItSaw ==
    ASSUME ReplicasAssumption, RepInv, NEW r \in Replica
    PROVE  Value(kind, rep[r]) = Object!Shown(seen[r])
<1> DEFINE x == rep[r]
           S == seen[r]
<1>1. /\ N \in Nat /\ kind \in Kinds /\ History(kind, ops) /\ CausallyClosed(S, ops)
      /\ \E w \in Replica : Faithful(kind, x, S, w, ops)
  BY DEF ReplicasAssumption, RepInv, FaithfulTo
<1>2. PICK w \in Replica : Faithful(kind, x, S, w, ops)
  BY <1>1
<1> HIDE DEF x, S
<1>3. /\ ops \in Seq(UpdateOf(kind)) /\ Isolated(ops) /\ Len(ops) \in Nat
      /\ kind = "ORSet" => TagsGrow(ops)
      /\ kind \in Registers => StampedBy(ops)
  BY <1>1, HistoryOf
<1>4. CASE kind = "GCounter"
  <2>1. Value(kind, x) = {TotalOf(S, ops)}
    BY <1>1, <1>2, <1>4, FaithfulOf, CounterShows
  <2>2. Object!Shown(S) = {Object!Total(S)}
    BY <1>4 DEF Object!Shown
  <2> QED BY <2>1, <2>2 DEF Object!Total, TotalOf, Object!SumTo, SumTo, x, S
<1>5. CASE kind = "PNCounter"
  <2>1. Value(kind, x) = {TotalOf(S, ops)}
    BY <1>1, <1>2, <1>5, FaithfulOf, BalanceShows
  <2>2. Object!Shown(S) = {Object!Total(S)}
    BY <1>5 DEF Object!Shown
  <2> QED BY <2>1, <2>2 DEF Object!Total, TotalOf, Object!SumTo, SumTo, x, S
<1>6. CASE kind = "GSet"
  <2>1. SetOf(x, S, ops)
    BY <1>2, <1>6, FaithfulOf
  <2>2. Value(kind, x) = {ops[i].element : i \in S}
    BY <2>1, <1>6 DEF Value, Registers, SetOf
  <2>3. Object!Shown(S) = {ops[i].element : i \in S}
    BY <1>6 DEF Object!Shown
  <2> QED BY <2>2, <2>3 DEF x, S
<1>7. CASE kind = "ORSet"
  <2>1. TaggedSetOf(x, S, ops)
    BY <1>2, <1>7, FaithfulOf
  <2>2. Value(kind, x) = {ops[i].element : i \in Alive(S, ops)}
    BY <2>1, <1>7, TaggedSetShows
  <2>3. Object!Present(S) = Alive(S, ops)
    <3>1. Object!Added(S) = Adds(S, ops) /\ Object!Gone(S) = Dead(S, ops)
      BY DEF Object!Added, Object!Gone, Adds, Dead
    <3> QED BY <3>1 DEF Object!Present, Alive, TagsIn
  <2>4. Object!Shown(S) = {ops[i].element : i \in Object!Present(S)}
    BY <1>7 DEF Object!Shown
  <2> QED BY <2>2, <2>3, <2>4 DEF x, S
<1>8. CASE kind \in Registers
  <2>1. RegisterOf(x, S, w, ops) /\ StampedBy(ops)
    BY <1>2, <1>3, <1>8, FaithfulOf
  <2>2. /\ S = {} => Value(kind, x) = {}
        /\ \A i \in S : Leads(i, S, ops) => Value(kind, x) = {ops[i].element}
        /\ S # {} => \E i \in S : Leads(i, S, ops)
    BY <2>1, <1>1, <1>8, RegisterShows
  <2>3. Object!Shown(S) = IF S = {} THEN {} ELSE {ops[Object!Latest(S)].element}
    BY <1>8 DEF Object!Shown, Registers
  <2>4. CASE S = {}
    BY <2>2, <2>3, <2>4 DEF x, S
  <2>5. CASE S # {}
    <3>1. PICK i \in S : Leads(i, S, ops)
      BY <2>2, <2>5
    <3>2. Object!Latest(S) = CHOOSE j \in S : Leads(j, S, ops)
      BY DEF Object!Latest, Leads, Precedes
    <3>3. Object!Latest(S) \in S /\ Leads(Object!Latest(S), S, ops)
      BY <3>1, <3>2
    <3> QED BY <2>2, <2>3, <2>5, <3>3 DEF x, S
  <2> QED BY <2>4, <2>5
<1> QED BY <1>1, <1>4, <1>5, <1>6, <1>7, <1>8, KindsAreSix
-----------------------------------------------------------------------------
\* What appending does to a sequence.
LEMMA OneMore ==
    ASSUME NEW T, NEW s \in Seq(T), NEW e \in T
    PROVE  /\ Len(Append(s, e)) = Len(s) + 1
           /\ Append(s, e)[Len(Append(s, e))] = e
           /\ SubSeq(Append(s, e), 1, Len(s)) = s
<1> DEFINE t == Append(s, e)
           u == SubSeq(t, 1, Len(s))
<1>1. /\ t \in Seq(T) /\ Len(t) = Len(s) + 1 /\ t[Len(s) + 1] = e
      /\ \A i \in 1..Len(s) : t[i] = s[i]
      /\ Len(s) \in Nat
  OBVIOUS
<1> HIDE DEF t
<1>2. /\ u \in Seq(T) /\ Len(u) = Len(s)
      /\ \A i \in 1..Len(s) : u[i] = s[i]
  <2>1. 1 \in 1..Len(t) + 1 /\ Len(s) \in 0..Len(t)
    BY <1>1
  <2>2. /\ SubSeq(t, 1, Len(s)) \in Seq(T)
        /\ Len(SubSeq(t, 1, Len(s))) = IF 1 <= Len(s) THEN Len(s) - 1 + 1 ELSE 0
        /\ \A i \in 1..(Len(s) - 1 + 1) : SubSeq(t, 1, Len(s))[i] = t[1 + i - 1]
    BY <1>1, <2>1, SubSeqProperties
  <2>3. \A i \in 1..Len(s) : 1 + i - 1 = i
    OBVIOUS
  <2>4. Len(s) - 1 + 1 = Len(s)
    BY <1>1
  <2> QED BY <2>2, <2>3, <2>4, <1>1
<1> HIDE DEF u
<1>3. u = s
  BY <1>2, SeqEqual
<1> QED BY <1>1, <1>3 DEF t, u

\* An update of a replica is one of the object.
LEMMA UpdateIsUpdate ==
    ASSUME RepInv, RepInv', NEW r \in Replica, Update(r)
    PROVE  Object!Update
<1>1. \E x, op : Updated(r, x, op) /\ op.by = r /\ op.observed = seen[r] /\ kind' = kind
  <2>1. CASE \E n \in Amounts : IncrementG(r, n) \/ IncrementPN(r, n) \/ Decrement(r, n)
    <3>1. \A n : Counted(r, n).by = r /\ Counted(r, n).observed = seen[r]
      BY DEF Counted
    <3> QED BY <2>1, <3>1 DEF IncrementG, IncrementPN, Decrement, Updated
  <2>2. CASE \E e \in Elements : AddG(r, e) \/ RemoveOR(r, e)
    <3>1. \A what, e : Edited(what, r, e).by = r /\ Edited(what, r, e).observed = seen[r]
      BY DEF Edited
    <3> QED BY <2>2, <3>1 DEF AddG, RemoveOR, Updated
  <2>3. CASE \E e \in Elements : AddOR(r, e) \/ \E t \in Tags : AddTagged(r, e, t)
    <3>1. \A e, t, o : /\ Tagged(r, e, t, o).by = r
                         /\ Tagged(r, e, t, o).observed = seen[r]
      BY DEF Tagged
    <3>2. \E x, e, t, o : Updated(r, x, Tagged(r, e, t, o))
      BY <2>3 DEF AddOR, AddTagged
    <3>3. PICK x, e, t, o : Updated(r, x, Tagged(r, e, t, o))
      BY <3>2
    <3>4. kind' = kind
      BY <3>3 DEF Updated
    <3> QED BY <3>1, <3>3, <3>4
  <2>4. CASE \E v \in Values : Set(r, v)
    <3>1. \A v, t : Stamped(r, v, t).by = r /\ Stamped(r, v, t).observed = seen[r]
      BY DEF Stamped
    <3>2. PICK x, v, t : Updated(r, x, Stamped(r, v, t))
      BY <2>4 DEF Set
    <3>3. kind' = kind
      BY <3>2 DEF Updated
    <3> QED BY <3>1, <3>2, <3>3
  <2> QED BY <2>1, <2>2, <2>3, <2>4 DEF Update
<1>2. PICK x, op : Updated(r, x, op) /\ op.by = r /\ op.observed = seen[r] /\ kind' = kind
  BY <1>1
<1>3. /\ ops' = Append(ops, op) /\ r \in members /\ members' = members
      /\ seen' = [seen EXCEPT ![r] = @ \cup {Len(ops) + 1}]
  BY <1>2 DEF Updated
<1>4. ops \in Seq({ops[i] : i \in 1..Len(ops)} \cup {op})
  <2>1. ops \in Seq(UpdateOf(kind))
    BY HistoryOf DEF RepInv
  <2> QED BY <2>1
<1>5. /\ Len(ops') = Len(ops) + 1 /\ ops'[Len(ops')] = op
      /\ SubSeq(ops', 1, Len(ops)) = ops
  BY <1>3, <1>4, OneMore
<1>6. ASSUME kind = "ORSet", op.what = "add", op.own PROVE Object!FreshTag(op)
  <2>1. /\ ops' \in Seq(UpdateOf("ORSet")) /\ Isolated(ops') /\ TagsGrow(ops')
        /\ Len(ops) \in Nat /\ DOMAIN ops = 1..Len(ops)
    <3>1. History("ORSet", ops') /\ History("ORSet", ops)
      BY <1>2, <1>6 DEF RepInv
    <3> QED BY <3>1, HistoryOf
  <2> DEFINE n == Len(ops)
  <2> SUFFICES ASSUME NEW i \in 1..n, ops[i].what = "add", ops[i].own
               PROVE  ops[i].tag # op.tag
    BY <2>1 DEF Object!FreshTag
  <2>2. ops'[i] = ops[i]
    BY <1>3, <1>4
  <2>3. /\ i \in 1..Len(ops') /\ n + 1 \in 1..Len(ops') /\ i < n + 1
        /\ ops'[n + 1] = op
    BY <1>5, <2>1
  <2>4. Own(ops'[i]) /\ Own(ops'[n + 1])
    BY <2>2, <2>3, <1>6 DEF Own
  <2>5. ops'[i].tag # ops'[n + 1].tag
    BY <2>1, <2>3, <2>4, TagsDiffer
  <2> QED BY <2>2, <2>3, <2>5
<1> QED BY <1>2, <1>3, <1>5, <1>6 DEF Object!Update

\* Learning from members is gossip of the object.
LEMMA LearningIsGossip ==
    ASSUME RepInv, RepInv', Learns(seen'), UNCHANGED <<kind, members, ops>>
    PROVE  Object!Gossip
  BY DEF Learns, Object!Gossip, Object!Replica, Replica

\* The views are those of the updates seen.
LEMMA ShowsAll == ASSUME ReplicasAssumption PROVE RepInv => Object!Showing
<1> SUFFICES ASSUME RepInv PROVE Object!Showing
  OBVIOUS
<1>1. \A r \in Replica : Value(kind, rep[r]) = Object!Shown(seen[r])
  BY ShowsWhatItSaw
<1> QED BY <1>1 DEF Object!Showing, Object!Replica, Replica

\* The initial states are those of the object.
LEMMA StartsAsObject == ASSUME ReplicasAssumption PROVE Init /\ RepInv => Object!Init
<1> SUFFICES ASSUME Init, RepInv PROVE Object!Init
  OBVIOUS
<1>1. Object!Showing
  BY ShowsAll
<1> QED BY <1>1 DEF Init, Object!Init, Object!Replica, Replica, Kinds, Registers

\* Every step is one of the object, or changes nothing the object has.
LEMMA StepsAsObject ==
    ASSUME ReplicasAssumption, RepInv, RepInv', Object!Showing', [Next]_vars
    PROVE  [Object!Next]_(Object!vars)
<1>1. N \in Nat
  BY DEF ReplicasAssumption
<1>2. CASE UNCHANGED vars
  BY <1>2 DEF vars, Object!vars, Value
<1>3. ASSUME NEW r \in Replica, AddReplica(r) PROVE Object!Join
  BY <1>3 DEF AddReplica, Object!Join, Object!Replica, Replica
<1>4. ASSUME NEW r \in Replica, Update(r) PROVE Object!Update
  BY <1>4, UpdateIsUpdate
<1>5. ASSUME NEW a \in Replica, NEW b \in Replica, Sync(a, b) PROVE Object!Gossip
  <2>1. Learns(seen')
    BY <1>1, <1>5, SyncKeeps
  <2> QED BY <2>1, <1>5, LearningIsGossip DEF Sync
<1>6. ASSUME Round PROVE Object!Gossip
  <2>1. Learns(seen')
    BY <1>1, <1>6, RoundKeeps
  <2> QED BY <2>1, <1>6, LearningIsGossip DEF Round
<1>7. ASSUME NEW limit \in RoundLimits, StartConverge(limit) PROVE UNCHANGED Object!vars
  BY <1>7 DEF StartConverge, Object!vars
<1> QED BY <1>2, <1>3, <1>4, <1>5, <1>6, <1>7 DEF Next, Object!Next

(* The replicas implement the replicated object: what a replica shows is a *)
(* function of the set of updates that have reached it, as long as the     *)
(* callers of registers pass only timestamps later than the register's.    *)
(* With another one it is no such function (see ReplicasAreFaithful).      *)
THEOREM ReplicasImplementObject == Spec /\ StampsAdvance => ImplementsObject
<1>1. ReplicasAssumption
  BY ReplicasAssumption
<1>2. RepInv => Object!Showing
  BY <1>1, ShowsAll
<1>3. Init /\ RepInv => Object!Init
  BY <1>1, StartsAsObject
<1>4. RepInv /\ RepInv' /\ Object!Showing' /\ [Next]_vars => [Object!Next]_(Object!vars)
  BY <1>1, StepsAsObject
<1> QED BY <1>2, <1>3, <1>4, ReplicasAreFaithful, PTL DEF Spec, ImplementsObject, Object!Spec
=============================================================================
