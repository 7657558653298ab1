----------------------------- MODULE DataFacts ------------------------------
(***************************************************************************)
(* Facts about data that proofs of several components cite: naturals and   *)
(* finite sets of them, and the lists of module Lists.  Induction is by a  *)
(* least counterexample: a set of naturals has a least element, because <  *)
(* is well founded.                                                        *)
(***************************************************************************)
EXTENDS Integers, FiniteSets, FiniteSetsExt, Lists, FiniteSetTheorems,
        SequenceTheorems, WellFoundedInduction, TLAPS

Less == {pair \in Nat \X Nat : pair[1] < pair[2]}

(* There is no infinite descent in the naturals.                            *)
LEMMA LessIsWellFounded == IsWellFoundedOn(Less, Nat)
  BY NatLessThanWellFounded DEF OpToRel, Less

(* A set of naturals has a least element.                                   *)
LEMMA LeastNatural ==
    ASSUME NEW S, S \subseteq Nat, S # {}
    PROVE  \E n \in S : \A m \in S : n <= m
<1>1. PICK n \in S : \A m \in S : ~ (<<m, n>> \in Less)
  BY LessIsWellFounded, WFMin
<1>2. ASSUME NEW m \in S PROVE n <= m
  <2>1. ~ (m < n)
    BY <1>1 DEF Less
  <2> QED BY <2>1
<1> QED BY <1>2

(* A finite set of naturals has a largest element, which is its Max.        *)
LEMMA LargestNatural ==
    ASSUME NEW S, S \subseteq Nat, IsFiniteSet(S), S # {}
    PROVE  Max(S) \in S /\ \A n \in S : n <= Max(S)
<1> DEFINE Unbounded(T) == ~ \E m \in T : \A n \in T : n <= m
           Bad == {k \in Nat : \E T \in SUBSET Nat :
                     /\ IsFiniteSet(T) /\ T # {} /\ Cardinality(T) = k
                     /\ Unbounded(T)}
<1>1. Bad = {}
  <2> SUFFICES ASSUME Bad # {} PROVE FALSE
    OBVIOUS
  <2>1. PICK k \in Bad : \A j \in Bad : k <= j
    <3>1. Bad \subseteq Nat
      OBVIOUS
    <3> HIDE DEF Bad
    <3> QED BY <3>1, LeastNatural
  <2>2. PICK T \in SUBSET Nat :
            IsFiniteSet(T) /\ T # {} /\ Cardinality(T) = k /\ Unbounded(T)
    BY <2>1
  <2>3. PICK x \in T : TRUE
    BY <2>2
  <2> DEFINE U == T \ {x}
  <2>4. IsFiniteSet(U) /\ Cardinality(U) = k - 1 /\ k \in Nat /\ U \in SUBSET Nat
    BY <2>2, <2>3, FS_RemoveElement, FS_CardinalityType
  <2>5. CASE U = {}
    <3>1. T = {x}
      BY <2>5, <2>3
    <3> QED BY <3>1, <2>2
  <2>6. CASE U # {} /\ Unbounded(U)
    <3>1. k - 1 \in Nat
      BY <2>4, FS_CardinalityType
    <3>2. k - 1 \in Bad
      BY <2>4, <2>6, <3>1
    <3> QED BY <3>2, <2>1, <2>4
  <2>7. CASE ~ Unbounded(U)
    <3>1. PICK m \in U : \A n \in U : n <= m
      BY <2>7
    <3>2. CASE x <= m
      <4>1. \A n \in T : n <= m
        BY <3>1, <3>2
      <4> QED BY <4>1, <3>1, <2>2
    <3>3. CASE m <= x
      <4>1. \A n \in T : n <= x
        BY <3>1, <3>3, <2>2, <2>3
      <4> QED BY <4>1, <2>3, <2>2
    <3> QED BY <3>2, <3>3, <2>3, <2>2
  <2> QED BY <2>5, <2>6, <2>7
<1>2. Cardinality(S) \in Nat
  BY FS_CardinalityType
<1>3. \E m \in S : \A n \in S : n <= m
  BY <1>1, <1>2
<1>4. \E m \in S : \A n \in S : m >= n
  BY <1>3
<1> QED BY <1>4 DEF Max
-----------------------------------------------------------------------------
\* g is the table of what has been kept after each of the first n elements of s
Tabulates(g, s, S, n) ==
    g = [i \in 0..n |->
           IF i = 0 THEN <<>>
           ELSE IF s[i] \in S THEN Append(g[i - 1], s[i]) ELSE g[i - 1]]

(* The recursion that defines Kept has a solution.                          *)
LEMMA KeptIsDefined ==
    ASSUME NEW T, NEW s \in Seq(T), NEW S
    PROVE  \E g : Tabulates(g, s, S, Len(s)) /\ Kept(s, S) = g[Len(s)]
<1> DEFINE Bad == {n \in Nat : n <= Len(s) /\ ~ \E g : Tabulates(g, s, S, n)}
<1>1. Bad = {}
  <2> SUFFICES ASSUME Bad # {} PROVE FALSE
    OBVIOUS
  <2>1. PICK n \in Bad : \A m \in Bad : n <= m
    <3>1. Bad \subseteq Nat
      OBVIOUS
    <3> HIDE DEF Bad
    <3> QED BY <3>1, LeastNatural
  <2>2. n # 0
    <3>1. Tabulates([i \in 0..0 |-> <<>>], s, S, 0)
      BY DEF Tabulates
    <3> QED BY <3>1, <2>1
  <2>3. n \in Nat /\ n - 1 \in Nat /\ n - 1 <= Len(s) /\ n - 1 \notin Bad
    BY <2>1, <2>2
  <2>4. PICK g : Tabulates(g, s, S, n - 1)
    BY <2>3
  <2> DEFINE h == [i \in 0..n |->
                     IF i < n THEN g[i]
                     ELSE IF s[n] \in S THEN Append(g[n - 1], s[n]) ELSE g[n - 1]]
  <2>5. ASSUME NEW i \in 0..n
        PROVE  h[i] = IF i = 0 THEN <<>>
                      ELSE IF s[i] \in S THEN Append(h[i - 1], s[i]) ELSE h[i - 1]
    <3>1. CASE i = n
      <4>1. h[i - 1] = g[n - 1]
        BY <3>1, <2>3
      <4> QED BY <4>1, <3>1, <2>3
    <3>2. CASE i < n /\ i # 0
      <4>1. i \in 0..(n - 1) /\ h[i] = g[i] /\ h[i - 1] = g[i - 1]
        BY <3>2, <2>3
      <4> HIDE DEF h
      <4> QED BY <4>1, <3>2, <2>4 DEF Tabulates
    <3>3. CASE i = 0
      <4>1. i \in 0..(n - 1) /\ h[i] = g[i]
        BY <3>3, <2>3
      <4> HIDE DEF h
      <4> QED BY <4>1, <3>3, <2>4 DEF Tabulates
    <3> QED BY <3>1, <3>2, <3>3, <2>3
  <2>6. Tabulates(h, s, S, n)
    <3>1. DOMAIN h = 0..n /\ h = [i \in 0..n |-> h[i]]
      OBVIOUS
    <3> HIDE DEF h
    <3> QED BY <3>1, <2>5 DEF Tabulates
  <2> QED BY <2>6, <2>1
<1>2. Len(s) \in Nat
  OBVIOUS
<1>3. \E g : Tabulates(g, s, S, Len(s))
  BY <1>1, <1>2
<1> DEFINE kept == CHOOSE g : Tabulates(g, s, S, Len(s))
<1>4. Kept(s, S) = kept[Len(s)]
  BY DEF Kept, Tabulates
<1>5. Tabulates(kept, s, S, Len(s))
  BY <1>3
<1> QED BY <1>4, <1>5

\* e says where in the first n elements of s each element of t is, in order, and
\* every element that S has is there
Embeds(e, t, s, S, n) ==
    /\ e \in [1..Len(t) -> 1..n]
    /\ \A i \in 1..Len(t) : t[i] = s[e[i]] /\ t[i] \in S
    /\ \A i, j \in 1..Len(t) : i < j => e[i] < e[j]
    /\ \A k \in 1..n : s[k] \in S => \E i \in 1..Len(t) : e[i] = k

(* What is kept of a list are its elements in the set, in their order.      *)
LEMMA KeptInOrder ==
    ASSUME NEW T, NEW s \in Seq(T), NEW S
    PROVE  /\ Kept(s, S) \in Seq(T)
           /\ \E e : Embeds(e, Kept(s, S), s, S, Len(s))
<1>1. PICK g : Tabulates(g, s, S, Len(s)) /\ Kept(s, S) = g[Len(s)]
  BY KeptIsDefined
<1> DEFINE Good(n) == g[n] \in Seq(T) /\ \E e : Embeds(e, g[n], s, S, n)
           Bad == {n \in Nat : n <= Len(s) /\ ~ Good(n)}
<1>2. Bad = {}
  <2> SUFFICES ASSUME Bad # {} PROVE FALSE
    OBVIOUS
  <2>1. PICK n \in Bad : \A m \in Bad : n <= m
    <3>1. Bad \subseteq Nat
      OBVIOUS
    <3> HIDE DEF Bad
    <3> QED BY <3>1, LeastNatural
  <2>2. n \in Nat /\ n <= Len(s) /\ n \in 0..Len(s) /\ ~ Good(n)
    BY <2>1
  <2>3. n # 0
    <3> SUFFICES ASSUME n = 0 PROVE FALSE
      OBVIOUS
    <3>1. g[0] = <<>>
      BY <1>1, <2>2 DEF Tabulates
    <3>2. Embeds([i \in 1..0 |-> 1], g[0], s, S, 0)
      BY <3>1 DEF Embeds
    <3> QED BY <3>1, <3>2, <2>2
  <2>4. n - 1 \in Nat /\ n - 1 <= Len(s) /\ n - 1 \notin Bad
    <3> HIDE DEF Bad
    <3> QED BY <2>1, <2>2, <2>3
  <2> DEFINE t == g[n - 1]
  <2>5. t \in Seq(T) /\ \E e : Embeds(e, t, s, S, n - 1)
    BY <2>4
  <2>6. PICK e : Embeds(e, t, s, S, n - 1)
    BY <2>5
  <2>7. g[n] = IF s[n] \in S THEN Append(t, s[n]) ELSE t
    BY <1>1, <2>2, <2>3 DEF Tabulates
  <2> HIDE DEF t, Bad
  <2>8. CASE s[n] \notin S
    <3>1. g[n] = t
      BY <2>7, <2>8
    <3>2. Embeds(e, t, s, S, n)
      BY <2>6, <2>5, <2>8, <2>2, <2>3 DEF Embeds
    <3> QED BY <3>1, <3>2, <2>5, <2>2
  <2>9. CASE s[n] \in S
    <3>1. s[n] \in T
      BY <2>2, <2>3
    <3>2. /\ g[n] = Append(t, s[n]) /\ g[n] \in Seq(T)
          /\ Len(g[n]) = Len(t) + 1
          /\ g[n][Len(t) + 1] = s[n]
          /\ \A i \in 1..Len(t) : g[n][i] = t[i]
      BY <2>7, <2>9, <2>5, <3>1
    <3> DEFINE f == [i \in 1..(Len(t) + 1) |-> IF i = Len(t) + 1 THEN n ELSE e[i]]
    <3>3. /\ e \in [1..Len(t) -> 1..(n - 1)]
          /\ Len(t) \in Nat
      BY <2>6, <2>5 DEF Embeds
    <3>4. /\ f \in [1..(Len(t) + 1) -> 1..n]
          /\ f[Len(t) + 1] = n
          /\ \A i \in 1..Len(t) : f[i] = e[i] /\ f[i] < n
      <4>1. n \in Nat /\ n \in 1..n
        BY <2>2, <2>3
      <4>2. ASSUME NEW i \in 1..Len(t)
            PROVE  f[i] = e[i] /\ f[i] < n /\ f[i] \in 1..n
        <5>1. e[i] \in 1..(n - 1)
          BY <3>3
        <5>2. i \in 1..(Len(t) + 1) /\ i # Len(t) + 1
          BY <3>3
        <5>3. f[i] = e[i]
          BY <5>2
        <5> HIDE DEF f
        <5> QED BY <5>1, <5>3, <4>1
      <4>3. Len(t) + 1 \in 1..(Len(t) + 1) /\ f[Len(t) + 1] = n
        BY <3>3
      <4>4. \A i \in 1..(Len(t) + 1) : i = Len(t) + 1 \/ i \in 1..Len(t)
        BY <3>3
      <4>5. f = [i \in 1..(Len(t) + 1) |-> f[i]]
        OBVIOUS
      <4> HIDE DEF f
      <4>6. \A i \in 1..(Len(t) + 1) : f[i] \in 1..n
        BY <4>1, <4>2, <4>3, <4>4
      <4> QED BY <4>2, <4>3, <4>5, <4>6
    <3> HIDE DEF f
    <3>5. \A i \in 1..Len(g[n]) : g[n][i] = s[f[i]] /\ g[n][i] \in S
      <4> TAKE i \in 1..Len(g[n])
      <4>1. CASE i = Len(t) + 1
        BY <4>1, <3>2, <3>4, <2>9
      <4>2. CASE i \in 1..Len(t)
        BY <4>2, <3>2, <3>4, <2>6 DEF Embeds
      <4> QED BY <4>1, <4>2, <3>2, <3>3
    <3>6. ASSUME NEW i \in 1..Len(g[n]), NEW j \in 1..Len(g[n]), i < j
          PROVE  f[i] < f[j]
      <4>1. i \in 1..Len(t)
        BY <3>6, <3>2, <3>3
      <4>2. CASE j = Len(t) + 1
        BY <4>1, <4>2, <3>4
      <4>3. CASE j \in 1..Len(t)
        <5>1. e[i] < e[j]
          BY <4>1, <4>3, <3>6, <2>6 DEF Embeds
        <5> QED BY <5>1, <4>1, <4>3, <3>4
      <4> QED BY <4>2, <4>3, <3>2, <3>3
    <3>7. \A k \in 1..n : s[k] \in S => \E i \in 1..Len(g[n]) : f[i] = k
      <4>1. ASSUME NEW k \in 1..n, s[k] \in S, k # n
            PROVE  \E i \in 1..Len(g[n]) : f[i] = k
        <5>1. PICK i \in 1..Len(t) : e[i] = k
          BY <4>1, <2>2, <2>6 DEF Embeds
        <5> QED BY <5>1, <3>2, <3>3, <3>4
      <4>2. Len(t) + 1 \in 1..Len(g[n])
        BY <3>2, <3>3
      <4> QED BY <4>1, <4>2, <3>4
    <3>8. Embeds(f, g[n], s, S, n)
      BY <3>2, <3>4, <3>5, <3>6, <3>7 DEF Embeds
    <3> QED BY <3>8, <3>2, <2>2
  <2> QED BY <2>8, <2>9
<1>3. Good(Len(s))
  BY <1>2
<1> QED BY <1>1, <1>3

(* A place of what is kept is one of the list, and the other way round for  *)
(* what is in the set.                                                      *)
LEMMA KeptElements ==
    ASSUME NEW T, NEW s \in Seq(T), NEW S
    PROVE  /\ Kept(s, S) \in Seq(T)
           /\ \A i \in DOMAIN Kept(s, S) :
                 Kept(s, S)[i] \in S /\ \E k \in DOMAIN s : s[k] = Kept(s, S)[i]
           /\ \A k \in DOMAIN s :
                 s[k] \in S => \E i \in DOMAIN Kept(s, S) : Kept(s, S)[i] = s[k]
<1>1. PICK e : Kept(s, S) \in Seq(T) /\ Embeds(e, Kept(s, S), s, S, Len(s))
  BY KeptInOrder
<1> DEFINE t == Kept(s, S)
<1>2. DOMAIN t = 1..Len(t) /\ DOMAIN s = 1..Len(s)
  BY <1>1
<1> HIDE DEF t
<1>3. \A i \in 1..Len(t) : t[i] \in S /\ e[i] \in 1..Len(s) /\ s[e[i]] = t[i]
  BY <1>1 DEF Embeds, t
<1>4. \A k \in 1..Len(s) : s[k] \in S => \E i \in 1..Len(t) : e[i] = k
  BY <1>1 DEF Embeds, t
<1>5. t \in Seq(T)
  BY <1>1 DEF t
<1>6. \A k \in DOMAIN s : s[k] \in S => \E i \in DOMAIN t : t[i] = s[k]
  BY <1>2, <1>3, <1>4
<1>7. \A i \in DOMAIN t : t[i] \in S /\ \E k \in DOMAIN s : s[k] = t[i]
  BY <1>2, <1>3
<1> QED BY <1>5, <1>6, <1>7 DEF t

-----------------------------------------------------------------------------
(* Finite lists of whatever elements: a sequence over its own elements.      *)

\* A finite list, whatever its elements are.
IsList(q) == q \in Seq({q[i] : i \in DOMAIN q})

\* A member of Seq(S) is a list.
LEMMA SeqIsList == ASSUME NEW S, NEW q \in Seq(S) PROVE IsList(q)
<1>1. \A i \in 1 .. Len(q) : q[i] \in {q[k] : k \in DOMAIN q}
  OBVIOUS
<1> QED BY <1>1 DEF IsList

\* A list has as many elements as its length says.
LEMMA ListShape ==
    ASSUME NEW q, IsList(q)
    PROVE  Len(q) \in Nat /\ DOMAIN q = 1 .. Len(q)
BY DEF IsList

\* Without its head a list has the later elements, one place earlier.
LEMMA TailOfList ==
    ASSUME NEW q, IsList(q), q # <<>>
    PROVE  /\ 1 \in DOMAIN q /\ Head(q) = q[1]
           /\ IsList(Tail(q))
           /\ \A i \in DOMAIN Tail(q) : i + 1 \in DOMAIN q /\ Tail(q)[i] = q[i + 1]
           /\ \A i \in DOMAIN q : i > 1 =>
                 /\ i - 1 \in DOMAIN Tail(q)
                 /\ Tail(q)[i - 1] = q[i]
<1> DEFINE S == {q[i] : i \in DOMAIN q}
<1>1. q \in Seq(S)
  BY DEF IsList
<1>2. Len(q) \in Nat /\ Len(q) > 0 /\ DOMAIN q = 1 .. Len(q)
  BY <1>1
<1>3. Tail(q) \in Seq(S) /\ Len(Tail(q)) = Len(q) - 1 /\ Head(q) = q[1]
  BY <1>1
<1>4. \A i \in 1 .. Len(q) - 1 : Tail(q)[i] = q[i + 1]
  BY <1>1
<1>5. DOMAIN Tail(q) = 1 .. Len(q) - 1
  BY <1>3
<1>6. IsList(Tail(q))
  BY <1>3, SeqIsList
<1> HIDE DEF S
<1>7. \A i \in DOMAIN q : i > 1 => i - 1 \in DOMAIN Tail(q) /\ Tail(q)[i - 1] = q[i]
  BY <1>2, <1>4, <1>5
<1> QED BY <1>2, <1>3, <1>4, <1>5, <1>6, <1>7

\* The empty list has no elements.
LEMMA NoWrites == IsList(<<>>) /\ DOMAIN <<>> = {}
<1>1. <<>> \in Seq({})
  OBVIOUS
<1>2. IsList(<<>>)
  BY <1>1, SeqIsList
<1>3. DOMAIN <<>> = {}
  OBVIOUS
<1> QED BY <1>2, <1>3

\* Lists written out are lists, of as many elements as are written: two, ...
LEMMA TwoWrites ==
    ASSUME NEW a, NEW b
    PROVE  IsList(<<a, b>>) /\ DOMAIN <<a, b>> = 1 .. 2
<1>1. <<a, b>> \in Seq({a, b})
  OBVIOUS
<1>2. IsList(<<a, b>>)
  BY <1>1, SeqIsList
<1>3. DOMAIN <<a, b>> = 1 .. 2
  OBVIOUS
<1> QED BY <1>2, <1>3

\* ... three, ...
LEMMA ThreeWrites ==
    ASSUME NEW a, NEW b, NEW c
    PROVE  IsList(<<a, b, c>>) /\ DOMAIN <<a, b, c>> = 1 .. 3
<1>1. <<a, b, c>> \in Seq({a, b, c})
  OBVIOUS
<1>2. IsList(<<a, b, c>>)
  BY <1>1, SeqIsList
<1>3. DOMAIN <<a, b, c>> = 1 .. 3
  OBVIOUS
<1> QED BY <1>2, <1>3

\* ... four, ...
LEMMA FourWrites ==
    ASSUME NEW a, NEW b, NEW c, NEW d
    PROVE  IsList(<<a, b, c, d>>) /\ DOMAIN <<a, b, c, d>> = 1 .. 4
<1>1. <<a, b, c, d>> \in Seq({a, b, c, d})
  OBVIOUS
<1>2. IsList(<<a, b, c, d>>)
  BY <1>1, SeqIsList
<1>3. DOMAIN <<a, b, c, d>> = 1 .. 4
  OBVIOUS
<1> QED BY <1>2, <1>3

\* ... and nine.
LEMMA NineWrites ==
    ASSUME NEW a, NEW b, NEW c, NEW d, NEW f, NEW g, NEW h, NEW i, NEW j
    PROVE  /\ IsList(<<a, b, c, d, f, g, h, i, j>>)
           /\ DOMAIN <<a, b, c, d, f, g, h, i, j>> = 1 .. 9
<1>1. <<a, b, c, d, f, g, h, i, j>> \in Seq({a, b, c, d, f, g, h, i, j})
  OBVIOUS
<1>2. IsList(<<a, b, c, d, f, g, h, i, j>>)
  BY <1>1, SeqIsList
<1>3. DOMAIN <<a, b, c, d, f, g, h, i, j>> = 1 .. 9
  OBVIOUS
<1> QED BY <1>2, <1>3
\* A list that is extended keeps its elements.
LEMMA AppendToList ==
    ASSUME NEW q, IsList(q), NEW x
    PROVE  /\ IsList(Append(q, x)) /\ Len(Append(q, x)) = Len(q) + 1
           /\ DOMAIN Append(q, x) = 1 .. Len(q) + 1
           /\ Append(q, x)[Len(q) + 1] = x
           /\ \A i \in DOMAIN q : i \in DOMAIN Append(q, x) /\ Append(q, x)[i] = q[i]
           /\ \A i \in DOMAIN Append(q, x) :
                 Append(q, x)[i] = x \/ (i \in DOMAIN q /\ Append(q, x)[i] = q[i])
<1> DEFINE S == {q[i] : i \in DOMAIN q} \cup {x}
<1>1. q \in Seq(S) /\ x \in S
  BY DEF IsList
<1> HIDE DEF S
<1>2. /\ Append(q, x) \in Seq(S) /\ Len(Append(q, x)) = Len(q) + 1
      /\ Len(q) \in Nat /\ DOMAIN q = 1 .. Len(q)
      /\ DOMAIN Append(q, x) = 1 .. Len(q) + 1
      /\ Append(q, x)[Len(q) + 1] = x
      /\ \A i \in 1 .. Len(q) : Append(q, x)[i] = q[i]
  BY <1>1, AppendProperties
<1>3. IsList(Append(q, x))
  BY <1>2, SeqIsList
<1> QED BY <1>2, <1>3

\* A list written out in front of another.
LEMMA OneBeforeTwo == ASSUME NEW a, NEW b, NEW c PROVE <<a>> \o <<b, c>> = <<a, b, c>>
<1> DEFINE S == {a, b, c}
           t == <<a>> \o <<b, c>>
<1>1. /\ <<a>> \in Seq(S) /\ <<b, c>> \in Seq(S) /\ <<a, b, c>> \in Seq(S)
      /\ Len(<<a>>) = 1 /\ Len(<<b, c>>) = 2 /\ Len(<<a, b, c>>) = 3
  OBVIOUS
<1>2. /\ t \in Seq(S) /\ Len(t) = 1 + 2
      /\ \A i \in 1..(1 + 2) : t[i] = IF i <= 1 THEN <<a>>[i] ELSE <<b, c>>[i - 1]
  BY <1>1, ConcatProperties
<1>3. Len(t) = 3 /\ \A i \in 1..3 : t[i] = <<a, b, c>>[i]
  BY <1>2
<1> HIDE DEF t, S
<1>4. t = <<a, b, c>>
  BY <1>1, <1>2, <1>3, SeqEqual
<1> QED BY <1>4 DEF t
-----------------------------------------------------------------------------
\* g is the table of the sums of the first elements of f
RowSums(g, f, n) == g = [k \in 0..n |-> IF k = 0 THEN 0 ELSE g[k - 1] + f[k]]

SameTerms(f, g, n) == \A k \in 1..n : f[k] = g[k]

(* The recursion that defines SumTo has a solution, and one only.           *)
LEMMA SumIsDefined ==
    ASSUME NEW f, NEW n \in Nat
    PROVE  \E g : RowSums(g, f, n) /\ SumTo(f, n) = g[n]
<1> DEFINE Bad == {m \in Nat : m <= n /\ ~ \E g : RowSums(g, f, m)}
<1>1. Bad = {}
  <2> SUFFICES ASSUME Bad # {} PROVE FALSE
    OBVIOUS
  <2>1. PICK m \in Bad : \A k \in Bad : m <= k
    <3>1. Bad \subseteq Nat
      OBVIOUS
    <3> HIDE DEF Bad
    <3> QED BY <3>1, LeastNatural
  <2>2. m # 0
    <3>1. RowSums([k \in 0..0 |-> 0], f, 0)
      BY DEF RowSums
    <3> QED BY <3>1, <2>1
  <2>3. m \in Nat /\ m - 1 \in Nat /\ m - 1 <= n /\ m - 1 \notin Bad
    BY <2>1, <2>2
  <2>4. PICK g : RowSums(g, f, m - 1)
    BY <2>3
  <2> DEFINE h == [k \in 0..m |-> IF k < m THEN g[k] ELSE g[m - 1] + f[m]]
  <2>5. ASSUME NEW k \in 0..m
        PROVE  h[k] = IF k = 0 THEN 0 ELSE h[k - 1] + f[k]
    <3>1. CASE k = m
      <4>1. h[k - 1] = g[m - 1]
        BY <3>1, <2>3
      <4> QED BY <4>1, <3>1, <2>3, <2>2
    <3>2. CASE k < m /\ k # 0
      <4>1. k \in 0..(m - 1) /\ h[k] = g[k] /\ h[k - 1] = g[k - 1]
        BY <3>2, <2>3
      <4> HIDE DEF h
      <4> QED BY <4>1, <3>2, <2>4 DEF RowSums
    <3>3. CASE k = 0
      <4>1. k \in 0..(m - 1) /\ h[k] = g[k]
        BY <3>3, <2>3, <2>2
      <4> HIDE DEF h
      <4> QED BY <4>1, <3>3, <2>4 DEF RowSums
    <3> QED BY <3>1, <3>2, <3>3, <2>3
  <2>6. RowSums(h, f, m)
    <3>1. DOMAIN h = 0..m /\ h = [k \in 0..m |-> h[k]]
      OBVIOUS
    <3> HIDE DEF h
    <3> QED BY <3>1, <2>5 DEF RowSums
  <2> QED BY <2>6, <2>1
<1>2. \E g : RowSums(g, f, n)
  BY <1>1
<1> DEFINE sum == CHOOSE g : RowSums(g, f, n)
<1>3. SumTo(f, n) = sum[n]
  BY DEF SumTo, RowSums
<1>4. RowSums(sum, f, n)
  BY <1>2
<1> QED BY <1>3, <1>4

(* Two tables of the same terms have the same sums, as far as both go.      *)
LEMMA SumsAgree ==
    ASSUME NEW f, NEW g, NEW m \in Nat, NEW n \in Nat, m <= n,
           SameTerms(f, g, m),
           NEW s, NEW t, RowSums(s, f, m), RowSums(t, g, n)
    PROVE  s[m] = t[m]
<1> DEFINE Bad == {k \in Nat : k <= m /\ s[k] # t[k]}
<1>1. Bad = {}
  <2> SUFFICES ASSUME Bad # {} PROVE FALSE
    OBVIOUS
  <2>1. PICK k \in Bad : \A j \in Bad : k <= j
    <3>1. Bad \subseteq Nat
      OBVIOUS
    <3> HIDE DEF Bad
    <3> QED BY <3>1, LeastNatural
  <2>2. k \in 0..m /\ k \in 0..n /\ s[k] # t[k]
    BY <2>1
  <2>3. k # 0
    <3>1. s[0] = 0 /\ t[0] = 0
      BY DEF RowSums
    <3> QED BY <3>1, <2>2
  <2>4. k - 1 \in Nat /\ k - 1 \notin Bad
    BY <2>1, <2>2, <2>3
  <2>5. s[k - 1] = t[k - 1]
    BY <2>4, <2>2
  <2>6. s[k] = s[k - 1] + f[k] /\ t[k] = t[k - 1] + g[k]
    BY <2>2, <2>3 DEF RowSums
  <2>7. f[k] = g[k]
    BY <2>2, <2>3 DEF SameTerms
  <2> QED BY <2>2, <2>5, <2>6, <2>7
<1> QED BY <1>1

(* The sum of no terms, and of one term more.                               *)
LEMMA SumStep ==
    ASSUME NEW f
    PROVE  /\ SumTo(f, 0) = 0
           /\ \A n \in Nat : SumTo(f, n + 1) = SumTo(f, n) + f[n + 1]
<1>1. SumTo(f, 0) = 0
  BY SumIsDefined, 0 \in Nat DEF RowSums
<1>2. ASSUME NEW n \in Nat PROVE SumTo(f, n + 1) = SumTo(f, n) + f[n + 1]
  <2>1. n + 1 \in Nat /\ n + 1 # 0 /\ n + 1 \in 0..(n + 1) /\ (n + 1) - 1 = n
    OBVIOUS
  <2>2. PICK s : RowSums(s, f, n) /\ SumTo(f, n) = s[n]
    BY SumIsDefined
  <2>3. PICK t : RowSums(t, f, n + 1) /\ SumTo(f, n + 1) = t[n + 1]
    BY SumIsDefined, <2>1
  <2>4. s[n] = t[n]
    <3>1. n <= n + 1 /\ SameTerms(f, f, n)
      BY DEF SameTerms
    <3> QED BY <3>1, <2>1, <2>2, <2>3, SumsAgree
  <2>5. t[n + 1] = t[n] + f[n + 1]
    BY <2>3, <2>1 DEF RowSums
  <2> QED BY <2>2, <2>3, <2>4, <2>5
<1> QED BY <1>1, <1>2

(* A sum depends on the terms that it adds up only.                         *)
LEMMA SumSame ==
    ASSUME NEW f, NEW g, NEW n \in Nat, \A k \in 1..n : f[k] = g[k]
    PROVE  SumTo(f, n) = SumTo(g, n)
<1>1. PICK s : RowSums(s, f, n) /\ SumTo(f, n) = s[n]
  BY SumIsDefined
<1>2. PICK t : RowSums(t, g, n) /\ SumTo(g, n) = t[n]
  BY SumIsDefined
<1>3. n <= n /\ SameTerms(f, g, n)
  BY DEF SameTerms
<1> QED BY <1>1, <1>2, <1>3, SumsAgree

(* Induction: a set with 0, and with n + 1 whenever it has n, has all.      *)
LEMMA SetInduction ==
    ASSUME NEW S, 0 \in S, \A n \in Nat : n \in S => n + 1 \in S
    PROVE  Nat \subseteq S
<1> DEFINE Bad == Nat \ S
<1> SUFFICES ASSUME Bad # {} PROVE FALSE
  OBVIOUS
<1>1. PICK n \in Bad : \A m \in Bad : n <= m
  <2>1. Bad \subseteq Nat
    OBVIOUS
  <2> HIDE DEF Bad
  <2> QED BY <2>1, LeastNatural
<1>2. n \in Nat /\ n # 0 /\ n \notin S
  BY <1>1
<1>3. n - 1 \in Nat /\ n - 1 \notin Bad /\ (n - 1) + 1 = n
  BY <1>1, <1>2
<1> QED BY <1>2, <1>3

(* The sum of integers is one, of naturals is one, and no term makes it     *)
(* smaller; the sum of sums is the sum of both sums.                        *)
LEMMA SumOfIntegers ==
    ASSUME NEW f, NEW n \in Nat, \A k \in 1..n : f[k] \in Int
    PROVE  SumTo(f, n) \in Int
<1> DEFINE S == {m \in Nat : m <= n => SumTo(f, m) \in Int}
<1>1. 0 \in S
  BY SumStep
<1>2. ASSUME NEW m \in Nat, m \in S PROVE m + 1 \in S
  <2> SUFFICES ASSUME m + 1 <= n PROVE SumTo(f, m + 1) \in Int
    OBVIOUS
  <2>1. SumTo(f, m) \in Int /\ f[m + 1] \in Int
    BY <1>2
  <2> QED BY <2>1, SumStep
<1> HIDE DEF S
<1>3. n \in S
  BY <1>1, <1>2, SetInduction
<1> QED BY <1>3 DEF S

\* The sum of naturals is a natural.
LEMMA SumOfNaturals ==
    ASSUME NEW f, NEW n \in Nat, \A k \in 1..n : f[k] \in Nat
    PROVE  SumTo(f, n) \in Nat
<1> DEFINE S == {m \in Nat : m <= n => SumTo(f, m) \in Nat}
<1>1. 0 \in S
  BY SumStep
<1>2. ASSUME NEW m \in Nat, m \in S PROVE m + 1 \in S
  <2> SUFFICES ASSUME m + 1 <= n PROVE SumTo(f, m + 1) \in Nat
    OBVIOUS
  <2>1. SumTo(f, m) \in Nat /\ f[m + 1] \in Nat
    BY <1>2
  <2> QED BY <2>1, SumStep
<1> HIDE DEF S
<1>3. n \in S
  BY <1>1, <1>2, SetInduction
<1> QED BY <1>3 DEF S

\* Larger terms, larger sum.
LEMMA SumIsMonotone ==
    ASSUME NEW f, NEW g, NEW n \in Nat,
           \A k \in 1..n : f[k] \in Int /\ g[k] \in Int /\ f[k] <= g[k]
    PROVE  SumTo(f, n) <= SumTo(g, n)
<1> DEFINE S == {m \in Nat : m <= n => /\ SumTo(f, m) \in Int /\ SumTo(g, m) \in Int
                                     /\ SumTo(f, m) <= SumTo(g, m)}
<1>1. 0 \in S
  BY SumStep
<1>2. ASSUME NEW m \in Nat, m \in S PROVE m + 1 \in S
  <2> SUFFICES ASSUME m + 1 <= n
               PROVE  /\ SumTo(f, m + 1) \in Int /\ SumTo(g, m + 1) \in Int
                      /\ SumTo(f, m + 1) <= SumTo(g, m + 1)
    OBVIOUS
  <2>1. SumTo(f, m) \in Int /\ SumTo(g, m) \in Int /\ SumTo(f, m) <= SumTo(g, m)
    BY <1>2
  <2>2. f[m + 1] \in Int /\ g[m + 1] \in Int /\ f[m + 1] <= g[m + 1]
    OBVIOUS
  <2> QED BY <2>1, <2>2, SumStep
<1> HIDE DEF S
<1>3. n \in S
  BY <1>1, <1>2, SetInduction
<1> QED BY <1>3 DEF S

\* The sum of sums is the sum of the two sums.
LEMMA SumOfSums ==
    ASSUME NEW f, NEW g, NEW h, NEW n \in Nat,
           \A k \in 1..n : f[k] \in Int /\ g[k] \in Int /\ h[k] = f[k] + g[k]
    PROVE  SumTo(h, n) = SumTo(f, n) + SumTo(g, n)
<1> DEFINE S == {m \in Nat : m <= n => /\ SumTo(f, m) \in Int /\ SumTo(g, m) \in Int
                                     /\ SumTo(h, m) = SumTo(f, m) + SumTo(g, m)}
<1>1. 0 \in S
  BY SumStep
<1>2. ASSUME NEW m \in Nat, m \in S PROVE m + 1 \in S
  <2> SUFFICES ASSUME m + 1 <= n
               PROVE  /\ SumTo(f, m + 1) \in Int /\ SumTo(g, m + 1) \in Int
                      /\ SumTo(h, m + 1) = SumTo(f, m + 1) + SumTo(g, m + 1)
    OBVIOUS
  <2>1. /\ SumTo(f, m) \in Int /\ SumTo(g, m) \in Int
        /\ SumTo(h, m) = SumTo(f, m) + SumTo(g, m)
    BY <1>2
  <2>2. f[m + 1] \in Int /\ g[m + 1] \in Int /\ h[m + 1] = f[m + 1] + g[m + 1]
    OBVIOUS
  <2> QED BY <2>1, <2>2, SumStep
<1> HIDE DEF S
<1>3. n \in S
  BY <1>1, <1>2, SetInduction
<1> QED BY <1>3 DEF S

(* The sum of zeros, and of zeros and one other term.                       *)
LEMMA SumOfZeros ==
    ASSUME NEW f, NEW n \in Nat, \A k \in 1..n : f[k] = 0
    PROVE  SumTo(f, n) = 0
<1> DEFINE S == {m \in Nat : m <= n => SumTo(f, m) = 0}
<1>1. 0 \in S
  BY SumStep
<1>2. ASSUME NEW m \in Nat, m \in S PROVE m + 1 \in S
  <2> SUFFICES ASSUME m + 1 <= n PROVE SumTo(f, m + 1) = 0
    OBVIOUS
  <2>1. SumTo(f, m) = 0 /\ f[m + 1] = 0
    BY <1>2
  <2> QED BY <2>1, SumStep
<1> HIDE DEF S
<1>3. n \in S
  BY <1>1, <1>2, SetInduction
<1> QED BY <1>3 DEF S

\* A sum with one term that is not zero is that term.
LEMMA SumOfOne ==
    ASSUME NEW f, NEW n \in Nat, NEW j \in 1..n, f[j] \in Int,
           \A k \in 1..n : k # j => f[k] = 0
    PROVE  SumTo(f, n) = f[j]
<1> DEFINE S == {m \in Nat : m <= n => SumTo(f, m) = IF j <= m THEN f[j] ELSE 0}
<1>1. 0 \in S
  BY SumStep
<1>2. ASSUME NEW m \in Nat, m \in S PROVE m + 1 \in S
  <2> SUFFICES ASSUME m + 1 <= n
               PROVE  SumTo(f, m + 1) = IF j <= m + 1 THEN f[j] ELSE 0
    OBVIOUS
  <2>1. SumTo(f, m) = IF j <= m THEN f[j] ELSE 0
    BY <1>2
  <2>2. m + 1 # j => f[m + 1] = 0
    OBVIOUS
  <2>3. SumTo(f, m + 1) = SumTo(f, m) + f[m + 1]
    BY SumStep
  <2> QED BY <2>1, <2>2, <2>3
<1> HIDE DEF S
<1>3. n \in S
  BY <1>1, <1>2, SetInduction
<1> QED BY <1>3 DEF S

(* Rows and columns may be added up in either order: c are the sums of the  *)
(* columns, one for each term, and r those of the rows.                     *)
Column(t, k, m) == [i \in 1..m |-> t[i][k]]
AreRowSums(r, t, m, n) == \A i \in 1..m : r[i] = SumTo(t[i], n)
AreColumnSums(c, t, m, n) == \A k \in 1..n : c[k] = SumTo(Column(t, k, m), m)

(* Adding up the sums of the rows of a table is adding up those of its     *)
(* columns.                                                                *)
LEMMA SumOfColumns ==
    ASSUME NEW n \in Nat, NEW m \in Nat, NEW t \in [1..m -> [1..n -> Int]],
           NEW r, AreRowSums(r, t, m, n), NEW c, AreColumnSums(c, t, m, n)
    PROVE  SumTo(r, m) = SumTo(c, n)
<1> DEFINE Below(j) == [k \in 1..n |-> SumTo(Column(t, k, m), j)]
           S == {j \in Nat : j <= m => SumTo(r, j) = SumTo(Below(j), n)}
<1>1. \A k \in 1..n : \A i \in 1..m : Column(t, k, m)[i] = t[i][k] /\ t[i][k] \in Int
  BY DEF Column
<1>3. ASSUME NEW j \in 0..m, NEW k \in 1..n
      PROVE  Below(j)[k] = SumTo(Column(t, k, m), j) /\ SumTo(Column(t, k, m), j) \in Int
  <2>1. j \in Nat /\ \A i \in 1..j : Column(t, k, m)[i] \in Int
    BY <1>1
  <2> QED BY <2>1, SumOfIntegers
<1>4. \A j \in Nat : Below(j) = [k \in 1..n |-> SumTo(Column(t, k, m), j)]
  OBVIOUS
<1> HIDE DEF Below
<1>5. 0 \in S
  <2>1. \A k \in 1..n : Below(0)[k] = 0
    BY <1>4, SumStep
  <2> QED BY <2>1, SumOfZeros, SumStep
<1>6. ASSUME NEW j \in Nat, j \in S PROVE j + 1 \in S
  <2> SUFFICES ASSUME j + 1 <= m PROVE SumTo(r, j + 1) = SumTo(Below(j + 1), n)
    OBVIOUS
  <2>1. j \in 0..m /\ j + 1 \in 0..m /\ j + 1 \in 1..m
    OBVIOUS
  <2>2. SumTo(r, j) = SumTo(Below(j), n)
    BY <1>6, <2>1
  <2>3. SumTo(r, j + 1) = SumTo(r, j) + SumTo(t[j + 1], n)
    BY <2>1, SumStep DEF AreRowSums
  <2>4. ASSUME NEW k \in 1..n
        PROVE  /\ Below(j)[k] \in Int /\ t[j + 1][k] \in Int
               /\ Below(j + 1)[k] = Below(j)[k] + t[j + 1][k]
    <3>1. Below(j)[k] = SumTo(Column(t, k, m), j) /\ SumTo(Column(t, k, m), j) \in Int
      BY <2>1, <1>3
    <3>2. Below(j + 1)[k] = SumTo(Column(t, k, m), j + 1)
      BY <2>1, <1>3
    <3>3. SumTo(Column(t, k, m), j + 1) = SumTo(Column(t, k, m), j) + Column(t, k, m)[j + 1]
      BY SumStep
    <3>4. Column(t, k, m)[j + 1] = t[j + 1][k] /\ t[j + 1][k] \in Int
      BY <2>1, <1>1
    <3> QED BY <3>1, <3>2, <3>3, <3>4
  <2>5. SumTo(Below(j + 1), n) = SumTo(Below(j), n) + SumTo(t[j + 1], n)
    <3> DEFINE f == Below(j)
               g == t[j + 1]
               h == Below(j + 1)
    <3>1. \A k \in 1..n : f[k] \in Int /\ g[k] \in Int /\ h[k] = f[k] + g[k]
      BY <2>4
    <3> HIDE DEF f, g, h
    <3>2. SumTo(h, n) = SumTo(f, n) + SumTo(g, n)
      BY <3>1, SumOfSums
    <3> QED BY <3>2 DEF f, g, h
  <2> QED BY <2>2, <2>3, <2>5
<1> HIDE DEF S
<1>7. m \in S
  BY <1>5, <1>6, SetInduction
<1>8. SumTo(r, m) = SumTo(Below(m), n)
  BY <1>7 DEF S
<1>9. SumTo(Below(m), n) = SumTo(c, n)
  <2>1. \A k \in 1..n : Below(m)[k] = c[k]
    BY <1>4 DEF AreColumnSums
  <2> QED BY <2>1, SumSame
<1> QED BY <1>8, <1>9
-----------------------------------------------------------------------------
(* Recursive functions: a rule B that says what the value at n is, given the *)
(* values at smaller arguments, or at larger ones, has a function that       *)
(* follows it.                                                               *)
RuleTables(a, b, V) == [a..b -> [[a..b -> V] -> V]]

\* Where a rule looks at smaller arguments only, it has a solution.
LEMMA UpwardRecursion ==
    ASSUME NEW a \in Int, NEW b \in Int, NEW V, NEW v \in V, NEW B \in RuleTables(a, b, V),
           \A n \in a..b : \A f, g \in [a..b -> V] :
              (\A m \in a..(n - 1) : f[m] = g[m]) => B[n][f] = B[n][g]
    PROVE  \E f \in [a..b -> V] : \A n \in a..b : f[n] = B[n][f]
<1> DEFINE Follows(f, k) == \A n \in a..(a + k - 1) : n <= b => f[n] = B[n][f]
           S == {k \in Nat : \E f \in [a..b -> V] : Follows(f, k)}
<1>1. 0 \in S
  <2>1. [n \in a..b |-> v] \in [a..b -> V] /\ 0 \in Nat
    OBVIOUS
  <2>2. Follows([n \in a..b |-> v], 0)
    <3>1. \A n \in a..(a + 0 - 1) : FALSE
      OBVIOUS
    <3> QED BY <3>1
  <2> HIDE DEF Follows
  <2> QED BY <2>1, <2>2
<1>2. ASSUME NEW k \in Nat, k \in S PROVE k + 1 \in S
  <2>1. PICK f \in [a..b -> V] : Follows(f, k)
    BY <1>2
  <2>2. CASE a + k > b
    <3>1. Follows(f, k + 1)
      BY <2>1, <2>2
    <3> QED BY <3>1
  <2>3. CASE a + k <= b
    <3>1. a + k \in a..b
      BY <2>3
    <3>2. B[a + k][f] \in V
      BY <3>1 DEF RuleTables
    <3> DEFINE g == [n \in a..b |-> IF n = a + k THEN B[a + k][f] ELSE f[n]]
    <3>3. g \in [a..b -> V]
      BY <3>2
    <3>4. \A n \in a..b : g[n] = IF n = a + k THEN B[a + k][f] ELSE f[n]
      OBVIOUS
    <3> HIDE DEF g
    <3>5. ASSUME NEW n \in a..(a + k + 1 - 1), n <= b PROVE g[n] = B[n][g]
      <4>1. n \in a..b /\ n <= a + k
        BY <3>5
      <4>2. \A m \in a..(n - 1) : f[m] = g[m]
        BY <4>1, <3>4
      <4>3. B[n][f] = B[n][g]
        BY <4>1, <4>2, <3>3
      <4>4. CASE n = a + k
        BY <4>1, <4>3, <4>4, <3>4
      <4>5. CASE n # a + k
        <5>1. n \in a..(a + k - 1) /\ n <= b
          BY <4>1, <4>5
        <5>2. f[n] = B[n][f]
          BY <5>1, <2>1
        <5> QED BY <5>2, <4>1, <4>3, <4>5, <3>4
      <4> QED BY <4>4, <4>5
    <3>6. Follows(g, k + 1)
      BY <3>5
    <3> QED BY <3>3, <3>6
  <2> QED BY <2>2, <2>3
<1> HIDE DEF S
<1>3. \A k \in Nat : k \in S
  BY <1>1, <1>2, SetInduction
<1>4. CASE b < a
  <2>1. [n \in a..b |-> v] \in [a..b -> V] /\ a..b = {}
    BY <1>4
  <2> QED BY <2>1
<1>5. CASE a <= b
  <2>1. b - a + 1 \in Nat
    BY <1>5
  <2>2. PICK f \in [a..b -> V] : Follows(f, b - a + 1)
    BY <2>1, <1>3 DEF S
  <2>3. \A n \in a..b : n \in a..(a + (b - a + 1) - 1)
    OBVIOUS
  <2> QED BY <2>2, <2>3
<1> QED BY <1>4, <1>5

\* Where a rule looks at larger arguments only, it has a solution.
LEMMA DownwardRecursion ==
    ASSUME NEW a \in Int, NEW b \in Int, NEW V, NEW v \in V, NEW B \in RuleTables(a, b, V),
           \A n \in a..b : \A f, g \in [a..b -> V] :
              (\A m \in (n + 1)..b : f[m] = g[m]) => B[n][f] = B[n][g]
    PROVE  \E f \in [a..b -> V] : \A n \in a..b : f[n] = B[n][f]
<1> DEFINE Follows(f, k) == \A n \in (b - k + 1)..b : n >= a => f[n] = B[n][f]
           S == {k \in Nat : \E f \in [a..b -> V] : Follows(f, k)}
<1>1. 0 \in S
  <2>1. [n \in a..b |-> v] \in [a..b -> V] /\ 0 \in Nat
    OBVIOUS
  <2>2. Follows([n \in a..b |-> v], 0)
    <3>1. \A n \in (b - 0 + 1)..b : FALSE
      OBVIOUS
    <3> QED BY <3>1
  <2> HIDE DEF Follows
  <2> QED BY <2>1, <2>2
<1>2. ASSUME NEW k \in Nat, k \in S PROVE k + 1 \in S
  <2>1. PICK f \in [a..b -> V] : Follows(f, k)
    BY <1>2
  <2>2. CASE b - k < a
    <3>1. Follows(f, k + 1)
      BY <2>1, <2>2
    <3> QED BY <3>1
  <2>3. CASE a <= b - k
    <3>1. b - k \in a..b
      BY <2>3
    <3>2. B[b - k][f] \in V
      BY <3>1 DEF RuleTables
    <3> DEFINE g == [n \in a..b |-> IF n = b - k THEN B[b - k][f] ELSE f[n]]
    <3>3. g \in [a..b -> V]
      BY <3>2
    <3>4. \A n \in a..b : g[n] = IF n = b - k THEN B[b - k][f] ELSE f[n]
      OBVIOUS
    <3> HIDE DEF g
    <3>5. ASSUME NEW n \in (b - (k + 1) + 1)..b, n >= a PROVE g[n] = B[n][g]
      <4>1. n \in a..b /\ n >= b - k
        BY <3>5
      <4>2. \A m \in (n + 1)..b : f[m] = g[m]
        BY <4>1, <3>4
      <4>3. B[n][f] = B[n][g]
        BY <4>1, <4>2, <3>3
      <4>4. CASE n = b - k
        BY <4>1, <4>3, <4>4, <3>4
      <4>5. CASE n # b - k
        <5>1. n \in (b - k + 1)..b /\ n >= a
          BY <4>1, <4>5
        <5>2. f[n] = B[n][f]
          BY <5>1, <2>1
        <5> QED BY <5>2, <4>1, <4>3, <4>5, <3>4
      <4> QED BY <4>4, <4>5
    <3>6. Follows(g, k + 1)
      BY <3>5
    <3> QED BY <3>3, <3>6
  <2> QED BY <2>2, <2>3
<1> HIDE DEF S
<1>3. \A k \in Nat : k \in S
  BY <1>1, <1>2, SetInduction
<1>4. CASE b < a
  <2>1. [n \in a..b |-> v] \in [a..b -> V] /\ a..b = {}
    BY <1>4
  <2> QED BY <2>1
<1>5. CASE a <= b
  <2>1. b - a + 1 \in Nat
    BY <1>5
  <2>2. PICK f \in [a..b -> V] : Follows(f, b - a + 1)
    BY <2>1, <1>3 DEF S
  <2>3. \A n \in a..b : n \in (b - (b - a + 1) + 1)..b
    OBVIOUS
  <2> QED BY <2>2, <2>3
<1> QED BY <1>4, <1>5
-----------------------------------------------------------------------------
(* Relations and lists of the first n numbers; the greatest of some values. *)
ListsOrder(R, f, m) == \A i, j \in 1..m : i < j => <<f[i], f[j]>> \in R

\* Where any two numbers are related one way or the other, a set of them has a first.
LEMMA HasFirst ==
    ASSUME NEW n \in Nat, NEW R,
           \A x, y, z \in 1..n : <<x, y>> \in R /\ <<y, z>> \in R => <<x, z>> \in R,
           \A x, y \in 1..n : x # y => <<x, y>> \in R \/ <<y, x>> \in R
    PROVE  \A T \in SUBSET (1..n) :
              T # {} => \E x \in T : \A y \in T : y # x => <<x, y>> \in R
<1> DEFINE S == {d \in Nat : \A T \in SUBSET (1..n) : T # {} /\ (\A x \in T : x <= d) =>
                    \E x \in T : \A y \in T : y # x => <<x, y>> \in R}
<1>1. 0 \in S
  <2>1. ASSUME NEW T \in SUBSET (1..n), T # {} PROVE ~ \A x \in T : x <= 0
    <3>1. PICK x \in T : x \in 1..n
      BY <2>1
    <3> QED BY <3>1
  <2> QED BY <2>1
<1>2. ASSUME NEW d \in Nat, d \in S PROVE d + 1 \in S
  <2> SUFFICES ASSUME NEW T \in SUBSET (1..n), T # {}, \A x \in T : x <= d + 1
               PROVE  \E x \in T : \A y \in T : y # x => <<x, y>> \in R
    OBVIOUS
  <2> DEFINE U == T \ {d + 1}
  <2>1. U \in SUBSET (1..n) /\ \A x \in U : x <= d
    OBVIOUS
  <2>2. CASE U = {}
    <3>1. T = {d + 1}
      BY <2>2
    <3> QED BY <3>1
  <2>3. CASE U # {}
    <3>1. PICK x \in U : \A y \in U : y # x => <<x, y>> \in R
      BY <1>2, <2>1, <2>3
    <3>2. CASE d + 1 \notin T \/ <<x, d + 1>> \in R
      <4>1. \A y \in T : y # x => <<x, y>> \in R
        BY <3>1, <3>2
      <4> QED BY <4>1
    <3>3. CASE d + 1 \in T /\ <<d + 1, x>> \in R
      <4>1. \A y \in T : y # d + 1 => <<d + 1, y>> \in R
        BY <3>1, <3>3
      <4> QED BY <4>1, <3>3
    <3> QED BY <3>1, <3>2, <3>3
  <2> QED BY <2>2, <2>3
<1>3. n \in S
  <2> HIDE DEF S
  <2> QED BY <1>1, <1>2, SetInduction
<1> QED BY <1>3

\* They can be listed in that order.
LEMMA CanBeSorted ==
    ASSUME NEW n \in Nat, NEW R,
           \A x, y, z \in 1..n : <<x, y>> \in R /\ <<y, z>> \in R => <<x, z>> \in R,
           \A x, y \in 1..n : x # y => <<x, y>> \in R \/ <<y, x>> \in R
    PROVE  \E f \in [1..n -> 1..n] : ListsOrder(R, f, n)
<1> DEFINE First(f, m) ==
             /\ ListsOrder(R, f, m)
             /\ \A i \in 1..m : \A y \in 1..n :
                   (\A j \in 1..m : y # f[j]) => <<f[i], y>> \in R
           S == {m \in Nat : m <= n => \E f \in [1..m -> 1..n] : First(f, m)}
<1>1. 0 \in S
  <2>1. \A f : First(f, 0)
    BY DEF ListsOrder
  <2>2. [i \in 1..0 |-> i] \in [1..0 -> 1..n]
    OBVIOUS
  <2> QED BY <2>1, <2>2
<1>2. ASSUME NEW m \in Nat, m \in S PROVE m + 1 \in S
  <2> SUFFICES ASSUME m + 1 <= n
               PROVE  \E f \in [1..(m + 1) -> 1..n] : First(f, m + 1)
    OBVIOUS
  <2>1. PICK f \in [1..m -> 1..n] : First(f, m)
    BY <1>2
  <2> HIDE DEF S
  <2> DEFINE T == {y \in 1..n : \A j \in 1..m : y # f[j]}
  <2>2. T # {}
    <3> SUFFICES ASSUME T = {} PROVE FALSE
      OBVIOUS
    <3>1. f \in Surjection(1..m, 1..n)
      BY DEF Surjection
    <3>2. IsFiniteSet(1..m) /\ Cardinality(1..m) = m /\ Cardinality(1..n) = n
      BY FS_Interval
    <3>3. Cardinality(1..n) <= Cardinality(1..m)
      BY <3>1, <3>2, FS_Surjection
    <3> QED BY <3>2, <3>3
  <2>3. PICK z \in T : \A y \in T : y # z => <<z, y>> \in R
    <3>1. T \in SUBSET (1..n)
      OBVIOUS
    <3> HIDE DEF T
    <3>2. \A U \in SUBSET (1..n) :
             U # {} => \E x \in U : \A y \in U : y # x => <<x, y>> \in R
      BY HasFirst
    <3> QED BY <2>2, <3>1, <3>2
  <2> DEFINE g == [i \in 1..(m + 1) |-> IF i = m + 1 THEN z ELSE f[i]]
  <2>4. g \in [1..(m + 1) -> 1..n]
    BY <2>3
  <2>5. g[m + 1] = z /\ \A i \in 1..m : g[i] = f[i]
    OBVIOUS
  <2>6. \A i \in 1..(m + 1) : i = m + 1 \/ i \in 1..m
    OBVIOUS
  <2> HIDE DEF g
  <2>7. ListsOrder(R, g, m + 1)
    <3> SUFFICES ASSUME NEW i \in 1..(m + 1), NEW j \in 1..(m + 1), i < j
                 PROVE  <<g[i], g[j]>> \in R
      BY DEF ListsOrder
    <3>1. i \in 1..m
      OBVIOUS
    <3>2. CASE j = m + 1
      BY <2>1, <2>3, <2>5, <3>1, <3>2
    <3>3. CASE j \in 1..m
      BY <2>1, <2>5, <3>1, <3>3 DEF ListsOrder
    <3> QED BY <3>2, <3>3, <2>6
  <2>8. ASSUME NEW i \in 1..(m + 1), NEW y \in 1..n, \A j \in 1..(m + 1) : y # g[j]
        PROVE  <<g[i], y>> \in R
    <3>1. y \in T /\ y # z
      BY <2>8, <2>5
    <3>2. CASE i = m + 1
      BY <3>1, <3>2, <2>3, <2>5
    <3>3. CASE i \in 1..m
      BY <3>1, <3>3, <2>1, <2>5
    <3> QED BY <3>2, <3>3, <2>6
  <2>9. First(g, m + 1)
    BY <2>7, <2>8
  <2> QED BY <2>4, <2>9
<1>3. n \in S
  <2> HIDE DEF S
  <2> QED BY <1>1, <1>2, SetInduction
<1> QED BY <1>3

\* A list of n numbers of the first n, none of them twice, has them all.
LEMMA ListsAll ==
    ASSUME NEW n \in Nat, NEW f \in [1..n -> 1..n],
           \A i, j \in 1..n : i # j => f[i] # f[j]
    PROVE  \A y \in 1..n : \E i \in 1..n : f[i] = y
<1>1. f \in Injection(1..n, 1..n)
  BY DEF Injection, IsInjective
<1>2. IsFiniteSet(1..n)
  BY FS_Interval
<1>3. f \in Surjection(1..n, 1..n)
  BY <1>1, <1>2, FS_Injection
<1> QED BY <1>3 DEF Surjection

\* The greatest of finitely many naturals.
LEMMA GreatestValue ==
    ASSUME NEW S, IsFiniteSet(S), NEW f \in [S -> Nat]
    PROVE  LET M == Max({0} \cup {f[x] : x \in S})
           IN  /\ M \in Nat /\ \A x \in S : f[x] <= M
               /\ M = 0 \/ \E x \in S : M = f[x]
<1> DEFINE T == {f[x] : x \in S}
<1>1. f \in Surjection(S, T)
  BY DEF Surjection
<1>2. IsFiniteSet(T)
  BY <1>1, FS_Surjection
<1>3. IsFiniteSet({0} \cup T)
  BY <1>2, FS_AddElement
<1>4. {0} \cup T \subseteq Nat
  OBVIOUS
<1>5. Max({0} \cup T) \in {0} \cup T /\ \A y \in {0} \cup T : y <= Max({0} \cup T)
  BY <1>3, <1>4, LargestNatural
<1> QED BY <1>4, <1>5

\* The greater of two naturals.
LEMMA GreaterOfTwo ==
    ASSUME NEW a \in Nat, NEW b \in Nat
    PROVE  Max({a, b}) \in {a, b} /\ a <= Max({a, b}) /\ b <= Max({a, b})
<1>1. \E x \in {a, b} : \A y \in {a, b} : x >= y
  OBVIOUS
<1> QED BY <1>1 DEF Max
-----------------------------------------------------------------------------
\* Induction up to a bound.
LEMMA BoundedInduction ==
    ASSUME NEW n \in Nat, NEW S, 0 \in S, \A i \in 1..n : i - 1 \in S => i \in S
    PROVE  0..n \subseteq S
<1> DEFINE T == {i \in Nat : i <= n => i \in S}
<1>1. 0 \in T
  OBVIOUS
<1>2. ASSUME NEW i \in Nat, i \in T PROVE i + 1 \in T
  <2> SUFFICES ASSUME i + 1 <= n PROVE i + 1 \in S
    OBVIOUS
  <2>1. i + 1 \in 1..n /\ (i + 1) - 1 = i /\ i \in S
    BY <1>2
  <2> QED BY <2>1
<1> HIDE DEF T
<1>3. Nat \subseteq T
  BY <1>1, <1>2, SetInduction
<1> QED BY <1>3 DEF T

\* A set with each number all before which it has, has all numbers.
LEMMA FromThoseBefore ==
    ASSUME NEW n \in Nat, NEW S, \A i \in 1..n : (1..(i - 1) \subseteq S) => i \in S
    PROVE  1..n \subseteq S
<1> DEFINE T == {i \in 0..n : 1..i \subseteq S}
<1>1. 0 \in T
  OBVIOUS
<1>2. ASSUME NEW i \in 1..n, i - 1 \in T PROVE i \in T
  <2>1. 1..(i - 1) \subseteq S /\ i \in S
    BY <1>2
  <2>2. \A x \in 1..i : x = i \/ x \in 1..(i - 1)
    OBVIOUS
  <2> QED BY <2>1, <2>2
<1> HIDE DEF T
<1>3. 0..n \subseteq T
  BY <1>1, <1>2, BoundedInduction
<1> QED BY <1>3 DEF T

\* A set with each number all after which it has, has all numbers.
LEMMA FromThoseAfter ==
    ASSUME NEW n \in Nat, NEW S, \A i \in 1..n : ((i + 1)..n \subseteq S) => i \in S
    PROVE  1..n \subseteq S
<1> DEFINE T == {k \in 0..n : (n - k + 1)..n \subseteq S}
<1>1. 0 \in T
  <2>1. (n - 0 + 1)..n = {}
    OBVIOUS
  <2> QED BY <2>1
<1>2. ASSUME NEW k \in 1..n, k - 1 \in T PROVE k \in T
  <2>1. n - (k - 1) + 1 = (n - k + 1) + 1 /\ n - k + 1 \in 1..n
    OBVIOUS
  <2>2. (n - (k - 1) + 1)..n \subseteq S
    BY <1>2
  <2>3. n - k + 1 \in S
    BY <2>1, <2>2
  <2>4. \A x \in (n - k + 1)..n : x = n - k + 1 \/ x \in (n - (k - 1) + 1)..n
    OBVIOUS
  <2>5. (n - k + 1)..n \subseteq S
    BY <2>2, <2>3, <2>4
  <2> QED BY <2>5
<1> HIDE DEF T
<1>3. n \in T
  BY <1>1, <1>2, BoundedInduction
<1>4. (n - n + 1)..n \subseteq S
  BY <1>3 DEF T
<1> QED BY <1>4

Steps(n, V) == [1..n -> [V -> V]]

\* f is the table of what the steps lead to from a
IsTable(f, n, V, a, Step) ==
    /\ f \in [0..n -> V] /\ f[0] = a
    /\ \A i \in 1..n : f[i] = Step[i][f[i - 1]]

\* Steps taken one after the other have such a table.
LEMMA StepRecursion ==
    ASSUME NEW n \in Nat, NEW V, NEW a \in V, NEW Step \in Steps(n, V)
    PROVE  \E f : IsTable(f, n, V, a, Step)
<1> USE DEF Steps
<1> DEFINE B == [i \in 0..n |-> [f \in [0..n -> V] |->
                   IF i = 0 THEN a ELSE Step[i][f[i - 1]]]]
<1>1. \A i \in 0..n : i = 0 \/ (i \in 1..n /\ i - 1 \in 0..n /\ i - 1 \in 0..(i - 1))
  OBVIOUS
<1>2. \A i \in 0..n : \A f \in [0..n -> V] :
         B[i][f] = IF i = 0 THEN a ELSE Step[i][f[i - 1]]
  OBVIOUS
<1>3. B \in RuleTables(0, n, V)
  <2>1. \A i \in 0..n : \A f \in [0..n -> V] :
           (IF i = 0 THEN a ELSE Step[i][f[i - 1]]) \in V
    BY <1>1
  <2> QED BY <2>1 DEF RuleTables
<1> HIDE DEF B
<1>4. ASSUME NEW i \in 0..n, NEW f \in [0..n -> V], NEW g \in [0..n -> V],
             \A m \in 0..(i - 1) : f[m] = g[m]
      PROVE  B[i][f] = B[i][g]
  BY <1>1, <1>2, <1>4
<1>5. \E f \in [0..n -> V] : \A i \in 0..n : f[i] = B[i][f]
  <2> DEFINE lo == 0
             hi == n
  <2>1. lo \in Int /\ hi \in Int /\ a \in V
    OBVIOUS
  <2>2. B \in RuleTables(lo, hi, V)
    BY <1>3
  <2>3. ASSUME NEW i \in lo..hi, NEW f \in [lo..hi -> V], NEW g \in [lo..hi -> V],
               \A m \in lo..(i - 1) : f[m] = g[m]
        PROVE  B[i][f] = B[i][g]
    BY <2>3, <1>4
  <2> HIDE DEF lo, hi
  <2>4. \E f \in [lo..hi -> V] : \A i \in lo..hi : f[i] = B[i][f]
    BY SMTT(60), <2>1, <2>2, <2>3, UpwardRecursion
  <2> QED BY <2>4 DEF lo, hi
<1>6. PICK f \in [0..n -> V] : \A i \in 0..n : f[i] = B[i][f]
  BY <1>5
<1>7. f[0] = a
  BY <1>2, <1>6
<1>8. \A i \in 1..n : f[i] = Step[i][f[i - 1]]
  BY <1>2, <1>6
<1> QED BY <1>7, <1>8 DEF IsTable

LooksBack(B, n, V) ==
    \A i \in 1..n : \A f, g \in [1..n -> V] :
        (\A m \in 1..(i - 1) : f[m] = g[m]) => B[i][f] = B[i][g]

LooksAhead(B, n, V) ==
    \A i \in 1..n : \A f, g \in [1..n -> V] :
        (\A m \in (i + 1)..n : f[m] = g[m]) => B[i][f] = B[i][g]

IsSolution(f, B, n, V) == f \in [1..n -> V] /\ \A i \in 1..n : f[i] = B[i][f]

\* Rules for the numbers from 1 that look only one way have a solution.
LEMMA BackwardLooking ==
    ASSUME NEW n \in Nat, NEW V, NEW v \in V, NEW B \in RuleTables(1, n, V), LooksBack(B, n, V)
    PROVE  \E f : IsSolution(f, B, n, V)
<1>1. 1 \in Int /\ n \in Int
  OBVIOUS
<1>2. ASSUME NEW i \in 1..n, NEW f \in [1..n -> V], NEW g \in [1..n -> V],
             \A m \in 1..(i - 1) : f[m] = g[m]
      PROVE  B[i][f] = B[i][g]
  BY <1>2 DEF LooksBack
<1>3. \E f \in [1..n -> V] : \A i \in 1..n : f[i] = B[i][f]
  BY <1>1, <1>2, UpwardRecursion
<1> QED BY <1>3 DEF IsSolution

\* And those that look the other way.
LEMMA ForwardLooking ==
    ASSUME NEW n \in Nat, NEW V, NEW v \in V, NEW B \in RuleTables(1, n, V), LooksAhead(B, n, V)
    PROVE  \E f : IsSolution(f, B, n, V)
<1>1. 1 \in Int /\ n \in Int
  OBVIOUS
<1>2. ASSUME NEW i \in 1..n, NEW f \in [1..n -> V], NEW g \in [1..n -> V],
             \A m \in (i + 1)..n : f[m] = g[m]
      PROVE  B[i][f] = B[i][g]
  BY <1>2 DEF LooksAhead
<1>3. \E f \in [1..n -> V] : \A i \in 1..n : f[i] = B[i][f]
  BY <1>1, <1>2, DownwardRecursion
<1> QED BY <1>3 DEF IsSolution

\* The values of f on S, and the greatest of them.
ValuesOn(f, S) == {f[x] : x \in S}

IsGreatestOn(M, f, S) ==
    /\ M \in Nat /\ \A x \in S : f[x] <= M
    /\ \E x \in S : M = f[x]

\* A function on a finite set has a greatest value on each part of it.
LEMMA GreatestOn ==
    ASSUME NEW D, IsFiniteSet(D), NEW f \in [D -> Nat], NEW S \in SUBSET D, S # {}
    PROVE  IsGreatestOn(Max(ValuesOn(f, S)), f, S)
<1> DEFINE g == [x \in S |-> f[x]]
           T == ValuesOn(f, S)
<1>1. g \in Surjection(S, T)
  BY DEF Surjection, ValuesOn
<1>2. T \subseteq Nat /\ T # {}
  BY DEF ValuesOn
<1>3. IsFiniteSet(S)
  BY FS_Subset
<1>4. IsFiniteSet(T)
  BY <1>1, <1>3, FS_Surjection
<1> HIDE DEF T
<1>5. Max(T) \in T /\ \A y \in T : y <= Max(T)
  BY <1>2, <1>4, LargestNatural
<1> QED BY <1>2, <1>5 DEF IsGreatestOn, ValuesOn, T

AreSums(h, f, g, n) ==
    \A k \in 1..n : f[k] \in Int /\ g[k] \in Int /\ h[k] = f[k] + g[k]

\* The sum of sums, once more.
LEMMA SumOfAll ==
    ASSUME NEW n \in Nat, NEW f, NEW g, NEW h, AreSums(h, f, g, n)
    PROVE  SumTo(h, n) = SumTo(f, n) + SumTo(g, n)
BY SumOfSums DEF AreSums

\* A number of a set that none of the set exceeds is its maximum.
LEMMA MaxIs ==
    ASSUME NEW S, S \in SUBSET Int, NEW x \in S, \A y \in S : y <= x
    PROVE  Max(S) = x
<1>1. \A m \in S : (\A y \in S : m >= y) => m = x
  BY DEF Max
<1>2. \A y \in S : x >= y
  OBVIOUS
<1> QED BY <1>1, <1>2 DEF Max

\* How many are in one or the other of two sets with none in common.
LEMMA InEither ==
    ASSUME NEW S, NEW T, IsFiniteSet(S), IsFiniteSet(T), \A x \in S : x \notin T
    PROVE  Cardinality(S \cup T) = Cardinality(S) + Cardinality(T)
<1>1. S \cap T = {}
  OBVIOUS
<1>2. Cardinality(S \cup T) = Cardinality(S) + Cardinality(T) - Cardinality(S \cap T)
  BY FS_Union
<1>3. Cardinality(S \cap T) = 0
  BY <1>1, FS_EmptySet
<1>4. Cardinality(S) \in Nat /\ Cardinality(T) \in Nat
  BY FS_CardinalityType
<1> QED BY <1>2, <1>3, <1>4
=============================================================================
